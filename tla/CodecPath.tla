------------------------------- MODULE CodecPath -------------------------------
(***************************************************************************)
(* The registers of the CS8409 on the way of the sound, and what each      *)
(* function of patch_cirrus_real84.h leaves in them.  The hardware is a    *)
(* record: "bits" holds the register fields that are in their enabling     *)
(* value; "hw" is the stream tag, first channel and format in the register *)
(* of each converter, "cvt" what the kernel remembers to have written      *)
(* there, "papl" the parameters the driver has stored for its next set-up, *)
(* "channels" the channels of the playback stream, and "chip" the headset  *)
(* chip.  An operator named after a function maps the hardware before the  *)
(* call to the hardware after it.  The result of tdm_in_use is not used by *)
(* the code, nor here.  Volumes, sample rates and slot offsets, which are  *)
(* always written with the same values, are left out.                      *)
(*                                                                         *)
(* Definitions whose name starts with Bug are mutations of the definition  *)
(* that follows them; nothing but the mutation runs uses them.             *)
(***************************************************************************)
EXTENDS HeadsetChip

CONSTANTS Amplifier  \* the amplifiers of the machine: "max", "ssm3" or "tas576"

ASSUME AmplifierAssumption == Amplifier \in {"max", "ssm3", "tas576"}

\* Converters: speakers front and rear, headphones, internal and headset microphone.
Nid == {\h02, \h03, \h0a, \h22, \h1a}

\* The stream formats of two and of four channels.
Format == {\h4031, \h4033}

Silent == [tag |-> 0, ch |-> 0, fmt |-> 0]

Bit == {
  "slots12", "slots34", "slots_out", "slots_in",     \* 0x19 to 0x1c, 0x29, 0x2a, 0x49, 0x4a
  "clock_amps", "clock_headset", "gate",             \* 0x71: 0x400f and 0x800f; verb 0x7f0
  "pads_amps", "pads_headset",                       \* 0x82: 0x5400 and 0xa800
  "pad_intmike", "pad_linein",                       \* 0x82: DMIC_SCL_EN
  "src_amps", "src_headset",                         \* 0x01: 0x20 and 0x40
  "sync2", "sync3",                                  \* 0x17: 1 and 2
  "dmic_intmike", "dmic_linein", "conn_off",         \* 0x09
  "pin24", "pin25", "pin2c", "pin3c", "pin_intmike", "pin_linein",
  "afg", "intmike", "linein",                        \* in power state D0
  "amps12", "amps34",                                \* amplifiers enabled
  "intmike_unmuted", "linein_unmuted"}

Put(h, off, enabled) == [h EXCEPT !.bits = (@ \ off) \cup enabled]

\* The verbs SET_CHANNEL_STREAMID and SET_STREAM_FORMAT, past the kernel's cache.
WriteStream(h, n, tag, ch) == [h EXCEPT !.hw[n].tag = tag, !.hw[n].ch = ch]
WriteFormat(h, n, fmt) == [h EXCEPT !.hw[n].fmt = fmt]

\* Every access to the chip first sets the function group to D0.
OnChip(h, c) == Put([h EXCEPT !.chip = c], {}, {"afg"})

-----------------------------------------------------------------------------
(* The stream store, and the kernel's cache it works around. *)

\* snd_hda_codec_setup_stream writes what differs from its cache.
setup_stream(h, n, tag, ch, fmt) ==
  LET c  == h.cvt[n]
      h1 == IF <<c.tag, c.ch>> # <<tag, ch>> THEN WriteStream(h, n, tag, ch) ELSE h
      h2 == IF c.fmt # fmt THEN WriteFormat(h1, n, fmt) ELSE h1
  IN [h2 EXCEPT !.cvt[n] = [tag |-> tag, ch |-> ch, fmt |-> fmt]]

store_stream_format(h, n, tag, fmt) ==
  [h EXCEPT !.papl[n] = [tag |-> tag, ch |-> 0, fmt |-> fmt]]

\* Mutation: the kernel's cache is trusted.
Bugreally_update_stream_format(h, n, update_stream_id, new_channel_id) ==
  LET p  == h.papl[n]
      ch == IF update_stream_id = 2 THEN new_channel_id ELSE p.ch
  IN setup_stream(h, n, p.tag, ch, p.fmt)

\* The stored parameters are written; the format, and the stream if asked, whatever
\* the kernel's cache says.
really_update_stream_format(h, n, update_stream_id, new_channel_id) ==
  LET p  == h.papl[n]
      ch == IF update_stream_id = 2 THEN new_channel_id ELSE p.ch
      h1 == [h EXCEPT !.cvt[n] = IF update_stream_id > 0 THEN Silent ELSE [@ EXCEPT !.fmt = 0]]
  IN setup_stream(h1, n, p.tag, ch, p.fmt)

\* The stream is taken off while the converters are synchronised and put back after.
save_and_clear_stream_format(h, n) == WriteStream(h, n, 0, 0)

update_from_save_stream_format(h, n, p) ==
  setup_stream([h EXCEPT !.cvt[n].tag = 0, !.cvt[n].ch = 0], n, p.tag, p.ch, p.fmt)

-----------------------------------------------------------------------------
(* The speakers. *)

setup_TDM_amps12(h, nullformat) ==
  Put(IF nullformat THEN WriteStream(WriteFormat(h, \h02, \h4033), \h02, 0, 0)
      ELSE really_update_stream_format(h, \h02, 2, 0),
      {}, {"slots12", "pads_amps", "src_amps", "clock_amps", "gate", "pin24"})

\* Only a tas576 is told by a parameter whether to start.
Starts(amps_enable) == Amplifier = "tas576" => amps_enable

setup_amps12(h, amps_enable) == Put(h, {}, IF Starts(amps_enable) THEN {"amps12"} ELSE {})

\* The rear speakers play the third and fourth channel, if there is one.
setup_TDM_amps34(h, nullformat) ==
  Put(IF nullformat THEN WriteStream(WriteFormat(h, \h03, \h4033), \h03, 0, 2)
      ELSE really_update_stream_format(h, \h03, 2, IF h.channels = 2 THEN 0 ELSE 2),
      {}, {"slots34", "clock_amps", "gate", "pin25"})

setup_amps34(h, amps_enable) == Put(h, {}, IF Starts(amps_enable) THEN {"amps34"} ELSE {})

sync_converters_on(h, nullformat) ==
  LET h1 == save_and_clear_stream_format(save_and_clear_stream_format(h, \h02), \h03)
      h2 == Put(h1, {}, {"sync2", "sync3"})
  IN IF nullformat THEN WriteStream(WriteStream(h2, \h02, 0, 0), \h03, 0, 2)
     ELSE update_from_save_stream_format(
            update_from_save_stream_format(h2, \h02, h.cvt[\h02]), \h03, h.cvt[\h03])

\* It sets register 0x01 to 0x0220, whatever it was.
sync_converters_off(h, nullformat) ==
  LET h1 == save_and_clear_stream_format(save_and_clear_stream_format(h, \h02), \h03)
      h2 == Put(h1, {"sync2", "sync3", "src_headset"}, {"src_amps"})
  IN IF nullformat THEN h2
     ELSE update_from_save_stream_format(
            update_from_save_stream_format(h2, \h02, h.cvt[\h02]), \h03, h.cvt[\h03])

disable_amps12(h) == Put(h, {"amps12"}, {})

disable_TDM_amps12(h) ==
  Put([h EXCEPT !.hw[\h02] = Silent], {"slots12", "pin24"}, {"gate"})

disable_amps34(h) == Put(h, {"amps34"}, {})

\* It clears register 0x71 and closes the gate, for the headset as well.
disable_TDM_amps34(h) ==
  Put([h EXCEPT !.hw[\h03] = Silent],
      {"slots34", "pads_amps", "src_amps", "clock_amps", "clock_headset", "gate", "pin25"}, {})

\* The calls of cs_8409_play_real, which are those of an unplug while playing.
play(h) ==
  sync_converters_on(setup_amps34(setup_TDM_amps34(
    setup_amps12(setup_TDM_amps12(h, FALSE), TRUE), FALSE), TRUE), FALSE)

amps_disable_streaming(h) ==
  disable_TDM_amps34(disable_amps34(disable_TDM_amps12(disable_amps12(
    sync_converters_off(h, FALSE)))))

-----------------------------------------------------------------------------
(* The internal inputs. *)

inputs_power_nids_on(h) == Put(h, {}, {"intmike", "linein"})
inputs_power_nids_off(h) == Put(h, {"intmike", "linein"}, {})

\* powered_down: the converter is powered on for the write only.
intmike_format_setup_enable(h, powered_down) ==
  Put(really_update_stream_format(h, \h22, 1, 0),
      IF powered_down THEN {"intmike"} ELSE {}, {"dmic_intmike"})

intmike_volume_setup(h) == Put(h, {"intmike_unmuted"}, {})
linein_volume_setup(h) == Put(h, {"linein_unmuted"}, {})

intmike_stream_on_nid(h) == Put(h, {}, {"pad_intmike", "pin_intmike"})

intmike_format_setup_disable(h) ==
  Put([h EXCEPT !.hw[\h22] = Silent], {"intmike", "pad_intmike", "pin_intmike"}, {})

linein_format_setup_disable(h) == Put(h, {"linein", "pad_linein", "pin_linein"}, {})

intmike_stream_conn_off(h) == Put(WriteStream(h, \h22, 0, 0), {"intmike"}, {})
linein_stream_conn_off(h) == Put(h, {"linein"}, {})

intmike_stream_off_nid(h) == Put(WriteStream(h, \h22, 0, 0), {"intmike"}, {})
linein_stream_off_nid(h) == Put(h, {"linein"}, {})

intmike_volume_mute(h) == Put(h, {"intmike_unmuted"}, {})
linein_volume_mute(h) == Put(h, {"linein_unmuted"}, {})
volume_unmute(h) == Put(h, {}, {"intmike_unmuted", "linein_unmuted"})

\* Both nids get their stream and format again, then no stream and no power.
linein_format_setup_enable(h) == Put(h, {"linein"}, {"dmic_linein"})
linein_stream_on_nid(h) == Put(h, {}, {"pad_linein", "pin_linein"})

intmike_stream_conn_off_disable(h) == Put(WriteStream(h, \h22, 0, 0), {"intmike"}, {"conn_off"})
intmike_stream_conn_off_enable(h) == Put(WriteStream(h, \h22, 0, 0), {"intmike", "conn_off"}, {})

intmike_linein_resetup(h) ==
  LET h1 == intmike_stream_on_nid(intmike_volume_setup(intmike_format_setup_enable(h, TRUE)))
      h2 == linein_stream_on_nid(linein_volume_setup(linein_format_setup_enable(h1)))
      h3 == linein_stream_conn_off(intmike_stream_conn_off_disable(h2))
      h4 == linein_stream_off_nid(intmike_stream_off_nid(h3))
      h5 == linein_format_setup_disable(linein_volume_setup(
              really_update_stream_format(h4, \h22, 0, 0)))
      h6 == linein_stream_conn_off(intmike_stream_conn_off_enable(h5))
      h7 == linein_stream_off_nid(intmike_stream_off_nid(h6))
  IN inputs_power_nids_off(volume_unmute(linein_volume_mute(intmike_volume_mute(h7))))

intmike_linein_disable(h) ==
  LET h1 == linein_stream_conn_off(intmike_stream_conn_off(h))
      h2 == linein_stream_off_nid(intmike_stream_off_nid(h1))
  IN linein_format_setup_disable(linein_volume_setup(
       intmike_format_setup_disable(intmike_volume_setup(h2))))

\* Mutation: the converters are not powered.
Bugcapture(h) ==
  volume_unmute(intmike_stream_on_nid(intmike_volume_setup(intmike_format_setup_enable(h, FALSE))))

\* The calls of cs_8409_capture_real.
capture(h) ==
  volume_unmute(intmike_stream_on_nid(intmike_volume_setup(
    intmike_format_setup_enable(inputs_power_nids_on(h), FALSE))))

\* Before the stream is taken off it is 1 for a moment.
intmike_stream_reset_nid_on(h) == Put(WriteStream(h, \h22, 1, 0), {}, {"intmike"})
linein_stream_reset_nid_off(h) == Put(h, {}, {"linein"})

\* The calls of cs_8409_capturestop_real.
capturestop(h) ==
  LET h1 == linein_stream_conn_off(intmike_stream_conn_off(h))
      h2 == linein_stream_reset_nid_off(intmike_stream_reset_nid_on(h1))
      h3 == intmike_format_setup_disable(intmike_volume_mute(h2))
  IN inputs_power_nids_off(linein_format_setup_disable(linein_volume_mute(h3)))

-----------------------------------------------------------------------------
(* The headset. *)

headset_amp_format_setup(h) ==
  Put(really_update_stream_format(h, \h0a, 2, 0), {},
      {"slots_out", "pads_headset", "src_headset", "clock_headset", "gate", "pin2c"})

\* full: register 0x71 is cleared and the gate closed.  Otherwise the clock of the
\* headset, and no other, is left on.
headset_amp_format_setup_disable(h, full) ==
  Put([h EXCEPT !.hw[\h0a] = Silent],
      {"slots_out", "pin2c", "clock_amps"}
        \cup (IF full THEN {"pads_headset", "src_headset", "clock_headset", "gate"} ELSE {}),
      IF full THEN {} ELSE {"clock_headset", "gate"})

headset_mike_format_setup_enable(h) ==
  Put(really_update_stream_format(h, \h1a, 2, 0),
      {"clock_amps"}, {"slots_in", "clock_headset", "gate", "pin3c"})

\* Mutation: register 0x71 is cleared, as other functions do.
Bugheadset_mike_format_setup_disable(h) ==
  Put([h EXCEPT !.hw[\h1a] = Silent], {"slots_in", "pin3c", "clock_headset"}, {"gate"})

\* Register 0x71 is left as it is, the gate is opened.
headset_mike_format_setup_disable(h) ==
  Put([h EXCEPT !.hw[\h1a] = Silent], {"slots_in", "pin3c"}, {"gate"})

headset_amp_disable_and_mike_format_setup_disable(h) ==
  Put([h EXCEPT !.hw[\h1a] = Silent],
      {"slots_in", "pin3c", "pads_headset", "src_headset"}, {"gate"})

headset_play_setup_on(c) ==
  buffers_onoff(setup_audio_output(output_set_input_sample_rate(configure_serial_port(
    power_onoff(configure_int_mclk(c), TRUE)))), TRUE)

enable_headset_streaming(h) ==
  OnChip(headset_amp_format_setup(h),
         headset_enable_on(set_power_state_on(headset_play_setup_on(h.chip), FALSE)))

\* Mutation: the clock of the chip is left on.
Bugheadset_disable(c) == buffers_onoff(c, FALSE)

headset_disable(c) == power_onoff(buffers_onoff(c, FALSE), FALSE)

disable_headset_streaming(h) ==
  headset_amp_format_setup_disable(
    OnChip(h, headset_disable(power_off_codec_output(headset_enable_off(h.chip)))), TRUE)

enable_headset_mike_streaming(h) ==
  OnChip(headset_mike_format_setup_enable(h),
         headset_mike_adc_unmutevol(set_power_state_on(mike_enable(
           input_set_output_sample_rate(h.chip)), TRUE), TRUE))

disable_headset_mike_streaming(h) ==
  headset_mike_format_setup_disable(
    OnChip(h, mike_disable(power_off_codec_input(headset_mike_adc_unmutevol(h.chip, FALSE)))))

\* The calls of cs_8409_unplug_handle_disconnect when playback is running.
unplug_headset_output(h, have_mike) ==
  LET off(c) == power_off_codec_output(headset_enable_off(c))
      c1 == buffers_onoff(off(h.chip), FALSE)
      c2 == IF have_mike THEN c1 ELSE power_onoff(c1, FALSE)
  IN OnChip(headset_amp_format_setup_disable(h, ~have_mike), off(c2))

\* Its calls for a headset with a microphone, playing or not.
unplug_headset_input(h) ==
  inputs_power_nids_off(intmike_linein_resetup(
    headset_amp_disable_and_mike_format_setup_disable(
      OnChip(h, power_onoff(mike_disable(h.chip), FALSE)))))

-----------------------------------------------------------------------------
(* cs_8409_boot_setup_real, after the chips have been initialised. *)

\* The codec after its reset; the driver has stored a format for the microphone.
reset == [
  bits |-> {"afg"}, hw |-> [n \in Nid |-> Silent], cvt |-> [n \in Nid |-> Silent],
  papl |-> [n \in Nid |-> IF n = \h22 THEN [Silent EXCEPT !.fmt = \h4031] ELSE Silent],
  channels |-> 0, chip |-> inithw]

\* The line input and both converters off.
boot_inputs_off(h) ==
  linein_stream_off_nid(intmike_stream_off_nid(linein_stream_conn_off(
    intmike_stream_conn_off(linein_format_setup_disable(linein_volume_setup(h))))))

boot_intmike(h) ==
  LET h1 == intmike_stream_on_nid(intmike_volume_setup(intmike_format_setup_enable(h, TRUE)))
  IN volume_unmute(linein_volume_mute(intmike_volume_mute(
       boot_inputs_off(really_update_stream_format(h1, \h22, 0, 0)))))

boot_headset(h, have_mike) ==
  LET c == headset_type_detect(plugin_complete_detect(plugin_handle_detect(h.chip)), have_mike)
  IN OnChip(h, IF have_mike THEN headset_button_detect(c) ELSE c)

\* Only the converter of the microphone is not powered on.
boot_headset_mike(h) ==
  LET h1 == headset_mike_format_setup_enable(intmike_linein_disable(h))
  IN OnChip(h1, headset_mike_buttons_enable(mike_enable(input_set_output_sample_rate(h1.chip))))

\* The speakers are set up once without a stream.
boot_amps(h) ==
  LET h1 == setup_amps34(setup_TDM_amps34(
              setup_amps12(setup_TDM_amps12(h, TRUE), FALSE), TRUE), FALSE)
      h2 == sync_converters_off(sync_converters_on(h1, TRUE), TRUE)
      h3 == disable_TDM_amps34(disable_amps34(disable_TDM_amps12(disable_amps12(h2))))
  IN inputs_power_nids_off(volume_unmute(h3))

boot_setup(plugged, have_mike) ==
  LET h1 == boot_intmike(reset)
      h2 == IF plugged THEN boot_headset(h1, have_mike) ELSE boot_amps(h1)
      h3 == IF plugged /\ have_mike THEN boot_headset_mike(h2) ELSE h2
  IN boot_inputs_off(really_update_stream_format(volume_unmute(h3), \h22, 0, 0))
=============================================================================
