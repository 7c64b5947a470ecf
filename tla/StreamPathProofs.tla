---------------------------- MODULE StreamPathProofs ----------------------------
(***************************************************************************)
(* Proofs about StreamPath for every amplifier, any number of moves of the *)
(* plug and of repeated prepares, and PCM operations that may overlap a    *)
(* jack event: it implements AudioRoute, the units of AudioRoute are those *)
(* of the registers, and the jack stays armed.                             *)
(***************************************************************************)
EXTENDS StreamPath, AudioRouteProofs

-----------------------------------------------------------------------------
(* What the functions leave of the headset chip. *)

\* The hardware h has the headset chip c.
HasChip(h, c) == "chip" \in DOMAIN h /\ h.chip = c

\* Verbs of the CS8409 leave the chip as it is.
LEMMA VerbsSpare ==
  ASSUME NEW h, NEW c, HasChip(h, c)
  PROVE  /\ \A off, enabled : HasChip(Put(h, off, enabled), c)
         /\ \A n, tag, ch : HasChip(WriteStream(h, n, tag, ch), c)
         /\ \A n, fmt : HasChip(WriteFormat(h, n, fmt), c)
         /\ \A n, s : HasChip([h EXCEPT !.hw[n] = s], c)
BY DEF HasChip, Put, WriteStream, WriteFormat

\* So does setting up a stream past the kernel's cache.
LEMMA SetUpSpares ==
  ASSUME NEW h, NEW c, HasChip(h, c), NEW n, NEW tag, NEW ch, NEW fmt
  PROVE  HasChip(setup_stream(h, n, tag, ch, fmt), c)
<1> DEFINE v  == h.cvt[n]
           h1 == IF <<v.tag, v.ch>> # <<tag, ch>> THEN WriteStream(h, n, tag, ch) ELSE h
           h2 == IF v.fmt # fmt THEN WriteFormat(h1, n, fmt) ELSE h1
<1>1. HasChip(h1, c)
  BY VerbsSpare
<1>2. HasChip(h2, c)
  <2> HIDE DEF h1
  <2> QED BY <1>1, VerbsSpare
<1>3. HasChip([h2 EXCEPT !.cvt[n] = [tag |-> tag, ch |-> ch, fmt |-> fmt]], c)
  <2> HIDE DEF h2
  <2> QED BY <1>2 DEF HasChip
<1> QED BY <1>3 DEF setup_stream

\* And the stream store.
LEMMA StoreSpares ==
  ASSUME NEW h, NEW c, HasChip(h, c)
  PROVE  /\ \A n, tag, fmt : HasChip(store_stream_format(h, n, tag, fmt), c)
         /\ \A n, u, ch : HasChip(really_update_stream_format(h, n, u, ch), c)
         /\ \A n : HasChip(save_and_clear_stream_format(h, n), c)
         /\ \A n, p : HasChip(update_from_save_stream_format(h, n, p), c)
<1>1. \A n, tag, fmt : HasChip(store_stream_format(h, n, tag, fmt), c)
  BY DEF store_stream_format, HasChip
<1>2. ASSUME NEW n, NEW u, NEW ch
      PROVE  HasChip(really_update_stream_format(h, n, u, ch), c)
  <2> DEFINE h1 == [h EXCEPT !.cvt[n] = IF u > 0 THEN Silent ELSE [@ EXCEPT !.fmt = 0]]
  <2>1. HasChip(h1, c)
    BY DEF HasChip
  <2>2. \A tag, new, fmt : HasChip(setup_stream(h1, n, tag, new, fmt), c)
    <3> HIDE DEF h1
    <3> QED BY <2>1, SetUpSpares
  <2> QED BY <2>2 DEF really_update_stream_format
<1>3. \A n : HasChip(save_and_clear_stream_format(h, n), c)
  BY VerbsSpare DEF save_and_clear_stream_format
<1>4. ASSUME NEW n, NEW p
      PROVE  HasChip(update_from_save_stream_format(h, n, p), c)
  <2> DEFINE h1 == [h EXCEPT !.cvt[n].tag = 0, !.cvt[n].ch = 0]
  <2>1. HasChip(h1, c)
    BY DEF HasChip
  <2>2. HasChip(setup_stream(h1, n, p.tag, p.ch, p.fmt), c)
    <3> HIDE DEF h1
    <3> QED BY <2>1, SetUpSpares
  <2> QED BY <2>2 DEF update_from_save_stream_format
<1> QED BY <1>1, <1>2, <1>3, <1>4

\* The speakers.
LEMMA SpeakersSpare ==
  ASSUME NEW h, NEW c, HasChip(h, c)
  PROVE  /\ HasChip(play(h), c)
         /\ HasChip(amps_disable_streaming(h), c)
         /\ HasChip(boot_amps(h), c)
<1>1. \A g, null : HasChip(g, c) => HasChip(setup_TDM_amps12(g, null), c)
  BY VerbsSpare, StoreSpares DEF setup_TDM_amps12
<1>2. \A g, null : HasChip(g, c) => HasChip(setup_TDM_amps34(g, null), c)
  BY VerbsSpare, StoreSpares DEF setup_TDM_amps34
<1>3. \A g, enable : HasChip(g, c) =>
             /\ HasChip(setup_amps12(g, enable), c)
             /\ HasChip(setup_amps34(g, enable), c)
  BY VerbsSpare DEF setup_amps12, setup_amps34
<1>4. \A g, null : HasChip(g, c) => HasChip(sync_converters_on(g, null), c)
  BY VerbsSpare, StoreSpares DEF sync_converters_on
<1>5. \A g, null : HasChip(g, c) => HasChip(sync_converters_off(g, null), c)
  BY VerbsSpare, StoreSpares DEF sync_converters_off
<1>6. \A g : HasChip(g, c) => HasChip(disable_amps12(g), c) /\ HasChip(disable_amps34(g), c)
  BY VerbsSpare DEF disable_amps12, disable_amps34
<1>7. \A g : HasChip(g, c) => HasChip(disable_TDM_amps12(g), c) /\ HasChip(disable_TDM_amps34(g), c)
  BY VerbsSpare DEF disable_TDM_amps12, disable_TDM_amps34
<1>8. HasChip(play(h), c)
  BY <1>1, <1>2, <1>3, <1>4 DEF play
<1>9. HasChip(amps_disable_streaming(h), c)
  BY <1>5, <1>6, <1>7 DEF amps_disable_streaming
<1>10. HasChip(boot_amps(h), c)
  <2> DEFINE h1 == setup_amps34(setup_TDM_amps34(
                     setup_amps12(setup_TDM_amps12(h, TRUE), FALSE), TRUE), FALSE)
             h2 == sync_converters_off(sync_converters_on(h1, TRUE), TRUE)
             h3 == disable_TDM_amps34(disable_amps34(disable_TDM_amps12(disable_amps12(h2))))
  <2>1. HasChip(h2, c)
    BY <1>1, <1>2, <1>3, <1>4, <1>5
  <2>2. HasChip(h3, c)
    <3> HIDE DEF h2
    <3> QED BY <1>6, <1>7, <2>1
  <2>3. HasChip(inputs_power_nids_off(volume_unmute(h3)), c)
    <3> HIDE DEF h3
    <3> QED BY <2>2, VerbsSpare DEF inputs_power_nids_off, volume_unmute
  <2> QED BY <2>3 DEF boot_amps
<1> QED BY <1>8, <1>9, <1>10

\* The internal inputs.
LEMMA InputsSpare ==
  ASSUME NEW h, NEW c, HasChip(h, c)
  PROVE  /\ HasChip(inputs_power_nids_off(h), c)
         /\ HasChip(intmike_linein_resetup(h), c)
         /\ HasChip(intmike_linein_disable(h), c)
         /\ HasChip(capture(h), c)
         /\ HasChip(capturestop(h), c)
         /\ HasChip(boot_inputs_off(h), c)
         /\ HasChip(boot_intmike(h), c)
<1>1. \A g : HasChip(g, c) =>
             /\ HasChip(inputs_power_nids_on(g), c)
             /\ HasChip(inputs_power_nids_off(g), c)
  BY VerbsSpare DEF inputs_power_nids_on, inputs_power_nids_off
<1>2. \A g, down : HasChip(g, c) => HasChip(intmike_format_setup_enable(g, down), c)
  BY VerbsSpare, StoreSpares DEF intmike_format_setup_enable
<1>3. \A g : HasChip(g, c) =>
             /\ HasChip(intmike_volume_setup(g), c)
             /\ HasChip(linein_volume_setup(g), c)
             /\ HasChip(intmike_volume_mute(g), c)
             /\ HasChip(linein_volume_mute(g), c)
             /\ HasChip(volume_unmute(g), c)
  BY VerbsSpare
  DEF intmike_volume_setup, linein_volume_setup, intmike_volume_mute, linein_volume_mute,
      volume_unmute
<1>4. \A g : HasChip(g, c) =>
             /\ HasChip(intmike_stream_on_nid(g), c)
             /\ HasChip(linein_format_setup_disable(g), c)
             /\ HasChip(linein_format_setup_enable(g), c)
             /\ HasChip(linein_stream_on_nid(g), c)
             /\ HasChip(linein_stream_conn_off(g), c)
             /\ HasChip(linein_stream_off_nid(g), c)
             /\ HasChip(linein_stream_reset_nid_off(g), c)
  BY VerbsSpare
  DEF intmike_stream_on_nid, linein_format_setup_disable, linein_format_setup_enable,
      linein_stream_on_nid, linein_stream_conn_off, linein_stream_off_nid,
      linein_stream_reset_nid_off
<1>5. \A g : HasChip(g, c) =>
             /\ HasChip(intmike_stream_conn_off(g), c)
             /\ HasChip(intmike_stream_off_nid(g), c)
             /\ HasChip(intmike_stream_conn_off_disable(g), c)
             /\ HasChip(intmike_stream_conn_off_enable(g), c)
             /\ HasChip(intmike_stream_reset_nid_on(g), c)
  BY VerbsSpare
  DEF intmike_stream_conn_off, intmike_stream_off_nid, intmike_stream_conn_off_disable,
      intmike_stream_conn_off_enable, intmike_stream_reset_nid_on
<1>6. \A g : HasChip(g, c) => HasChip(intmike_format_setup_disable(g), c)
  BY VerbsSpare DEF intmike_format_setup_disable
<1>7. HasChip(intmike_linein_disable(h), c)
  BY <1>3, <1>4, <1>5, <1>6 DEF intmike_linein_disable
<1>8. HasChip(capture(h), c)
  BY <1>1, <1>2, <1>3, <1>4 DEF capture
<1>9. HasChip(capturestop(h), c)
  BY <1>1, <1>3, <1>4, <1>5, <1>6 DEF capturestop
<1>10. HasChip(intmike_linein_resetup(h), c)
  BY <1>1, <1>2, <1>3, <1>4, <1>5, StoreSpares DEF intmike_linein_resetup
<1>11. \A g : HasChip(g, c) => HasChip(boot_inputs_off(g), c)
  BY <1>3, <1>4, <1>5 DEF boot_inputs_off
<1>12. HasChip(boot_intmike(h), c)
  BY <1>2, <1>3, <1>4, <1>11, StoreSpares DEF boot_intmike
<1> QED BY <1>1, <1>7, <1>8, <1>9, <1>10, <1>11, <1>12

\* The headset: its functions that write the CS8409 only.
LEMMA HeadsetSpares ==
  ASSUME NEW g, NEW c, HasChip(g, c)
  PROVE  /\ HasChip(headset_amp_format_setup(g), c)
         /\ \A full : HasChip(headset_amp_format_setup_disable(g, full), c)
         /\ HasChip(headset_mike_format_setup_enable(g), c)
         /\ HasChip(headset_mike_format_setup_disable(g), c)
         /\ HasChip(headset_amp_disable_and_mike_format_setup_disable(g), c)
BY VerbsSpare, StoreSpares
DEF headset_amp_format_setup, headset_amp_format_setup_disable,
    headset_mike_format_setup_enable, headset_mike_format_setup_disable,
    headset_amp_disable_and_mike_format_setup_disable

-----------------------------------------------------------------------------
(* What they leave of the jack's registers. *)

\* The jack's registers of the chip c: the masks of the tip and of the buttons,
\* the sensing of the bias, and the interrupt of the detections.
JackIs(c, tip, button, bias, int) ==
  /\ {"tip_mask", "button_mask", "bias_sense", "auto_int"} \subseteq DOMAIN c
  /\ c.tip_mask = tip /\ c.button_mask = button /\ c.bias_sense = bias /\ c.auto_int = int

\* The functions of the sound leave the jack alone.
LEMMA SoundKeepsJack ==
  ASSUME NEW c, NEW tip, NEW button, NEW bias, NEW int, JackIs(c, tip, button, bias, int)
  PROVE  /\ JackIs(configure_int_mclk(c), tip, button, bias, int)
         /\ \A flag : JackIs(power_onoff(c, flag), tip, button, bias, int)
         /\ JackIs(configure_serial_port(c), tip, button, bias, int)
         /\ JackIs(output_set_input_sample_rate(c), tip, button, bias, int)
         /\ JackIs(setup_audio_output(c), tip, button, bias, int)
         /\ \A flag : JackIs(buffers_onoff(c, flag), tip, button, bias, int)
         /\ JackIs(headset_enable_on(c), tip, button, bias, int)
         /\ JackIs(headset_enable_off(c), tip, button, bias, int)
         /\ \A input : JackIs(set_power_state_on(c, input), tip, button, bias, int)
         /\ JackIs(power_off_codec_output(c), tip, button, bias, int)
         /\ JackIs(power_off_codec_input(c), tip, button, bias, int)
         /\ JackIs(input_set_output_sample_rate(c), tip, button, bias, int)
         /\ JackIs(mike_enable(c), tip, button, bias, int)
         /\ JackIs(mike_disable(c), tip, button, bias, int)
         /\ \A u : JackIs(headset_mike_adc_unmutevol(c, u), tip, button, bias, int)
<1> USE DEF JackIs
<1>1. /\ JackIs(configure_int_mclk(c), tip, button, bias, int)
      /\ \A flag : JackIs(power_onoff(c, flag), tip, button, bias, int)
      /\ JackIs(configure_serial_port(c), tip, button, bias, int)
      /\ JackIs(output_set_input_sample_rate(c), tip, button, bias, int)
      /\ JackIs(setup_audio_output(c), tip, button, bias, int)
  BY DEF configure_int_mclk, power_onoff, configure_serial_port,
         output_set_input_sample_rate, setup_audio_output
<1>2. /\ \A flag : JackIs(buffers_onoff(c, flag), tip, button, bias, int)
      /\ JackIs(headset_enable_on(c), tip, button, bias, int)
      /\ JackIs(headset_enable_off(c), tip, button, bias, int)
      /\ \A input : JackIs(set_power_state_on(c, input), tip, button, bias, int)
      /\ JackIs(power_off_codec_output(c), tip, button, bias, int)
  BY DEF buffers_onoff, headset_enable_on, headset_enable_off, set_power_state_on,
         power_off_codec_output
<1>3. /\ JackIs(power_off_codec_input(c), tip, button, bias, int)
      /\ JackIs(input_set_output_sample_rate(c), tip, button, bias, int)
      /\ JackIs(mike_enable(c), tip, button, bias, int)
      /\ JackIs(mike_disable(c), tip, button, bias, int)
      /\ \A u : JackIs(headset_mike_adc_unmutevol(c, u), tip, button, bias, int)
  BY DEF power_off_codec_input, input_set_output_sample_rate, mike_enable, mike_disable,
         headset_mike_adc_unmutevol
<1> HIDE DEF JackIs
<1> QED BY <1>1, <1>2, <1>3

\* Nor do the detection's functions, but for the mask of the buttons, the sensing
\* of the bias and the interrupts they are named for.
LEMMA DetectionKeepsJack ==
  ASSUME NEW c, NEW tip, NEW button, NEW bias, NEW int, JackIs(c, tip, button, bias, int)
  PROVE  /\ JackIs(set_hpout_clamp_disable(c), tip, button, bias, int)
         /\ JackIs(complete_jack_detect(c), tip, button, bias, int)
         /\ JackIs(power_hs_bias_on(c), tip, button, bias, int)
         /\ JackIs(set_hpout_pulldown_off(c), tip, button, bias, int)
         /\ JackIs(headset_detect_on(c), tip, button, bias, int)
         /\ JackIs(headset_detect_off(c), tip, button, bias, int)
         /\ JackIs(set_hpout_pulldown_on(c), tip, button, bias, int)
         /\ JackIs(set_hpout_clamp_enable(c), tip, button, bias, int)
         /\ JackIs(headset_mike_detect_off(c), tip, button, bias, int)
         /\ JackIs(power_hs_bias_off(c), tip, button, bias, int)
         /\ JackIs(power_hs_bias_button_on(c), tip, button, bias, int)
         /\ JackIs(mike_connected(c), tip, button, bias, int)
         /\ JackIs(unplug_headset_detect_off(c), tip, button, bias, int)
         /\ JackIs(headset_switch_control(c), tip, button, bias, int)
<1> USE DEF JackIs
<1>1. /\ JackIs(set_hpout_clamp_disable(c), tip, button, bias, int)
      /\ JackIs(complete_jack_detect(c), tip, button, bias, int)
      /\ JackIs(power_hs_bias_on(c), tip, button, bias, int)
      /\ JackIs(set_hpout_pulldown_off(c), tip, button, bias, int)
      /\ JackIs(headset_detect_on(c), tip, button, bias, int)
  BY DEF set_hpout_clamp_disable, complete_jack_detect, power_hs_bias_on,
         set_hpout_pulldown_off, headset_detect_on
<1>2. /\ JackIs(headset_detect_off(c), tip, button, bias, int)
      /\ JackIs(set_hpout_pulldown_on(c), tip, button, bias, int)
      /\ JackIs(set_hpout_clamp_enable(c), tip, button, bias, int)
      /\ JackIs(headset_mike_detect_off(c), tip, button, bias, int)
      /\ JackIs(power_hs_bias_off(c), tip, button, bias, int)
  BY DEF headset_detect_off, set_hpout_pulldown_on, set_hpout_clamp_enable,
         headset_mike_detect_off, power_hs_bias_off
<1>3. /\ JackIs(power_hs_bias_button_on(c), tip, button, bias, int)
      /\ JackIs(mike_connected(c), tip, button, bias, int)
      /\ JackIs(unplug_headset_detect_off(c), tip, button, bias, int)
      /\ JackIs(headset_switch_control(c), tip, button, bias, int)
  BY DEF power_hs_bias_button_on, mike_connected, unplug_headset_detect_off,
         headset_switch_control
<1> HIDE DEF JackIs
<1> QED BY <1>1, <1>2, <1>3

\* The functions that set the mask of the tip.
LEMMA TipSetsJack ==
  ASSUME NEW c, NEW tip, NEW button, NEW bias, NEW int, JackIs(c, tip, button, bias, int)
  PROVE  /\ JackIs(unplug_interrupt_setup(c), \hc0, button, bias, int)
         /\ JackIs(plugin_interrupt_setup(c), \ha0, button, bias, int)
BY DEF JackIs, unplug_interrupt_setup, plugin_interrupt_setup

\* Those that set the interrupt of the detections.
LEMMA IntSetsJack ==
  ASSUME NEW c, NEW tip, NEW button, NEW bias, NEW int, JackIs(c, tip, button, bias, int)
  PROVE  /\ JackIs(enable_hs_auto_int_on(c), tip, button, bias, \h01)
         /\ JackIs(enable_hs_auto_int_off(c), tip, button, bias, \h03)
BY DEF JackIs, enable_hs_auto_int_on, enable_hs_auto_int_off

\* Those that set the sensing of the bias.
LEMMA BiasSetsJack ==
  ASSUME NEW c, NEW tip, NEW button, NEW bias, NEW int, JackIs(c, tip, button, bias, int)
  PROVE  /\ JackIs(enable_hsbias_auto_clamp_on(c), tip, button, FALSE, int)
         /\ JackIs(enable_hsbias_auto_clamp_off(c), tip, button, FALSE, int)
         /\ JackIs(hsbias_sense_on(c), tip, button, TRUE, int)
BY DEF JackIs, enable_hsbias_auto_clamp_on, enable_hsbias_auto_clamp_off, hsbias_sense_on

\* Those that set the mask of the buttons.
LEMMA ButtonSetsJack ==
  ASSUME NEW c, NEW tip, NEW button, NEW bias, NEW int, JackIs(c, tip, button, bias, int)
  PROVE  /\ JackIs(button_detect_interrupts_off(c), tip, \hff, bias, int)
         /\ JackIs(setup_button_detect(c), tip, \he7, bias, int)
         /\ button \in {\he7, \hff} => JackIs(handle_button_detect(c), tip, \hff, bias, int)
         /\ JackIs(headset_detect2_off(c), tip, \hff, bias, int)
         /\ JackIs(disable_button_interrupts(c), tip, \hff, bias, int)
         /\ JackIs(configure_headset_button_interrupts(c), tip, \hdc, bias, int)
BY DEF JackIs, button_detect_interrupts_off, setup_button_detect, handle_button_detect,
       headset_detect2_off, disable_button_interrupts, configure_headset_button_interrupts

\* The jack events.
LEMMA EventsSetJack ==
  ASSUME NEW c, NEW tip, NEW button, NEW bias, NEW int, JackIs(c, tip, button, bias, int)
  PROVE  /\ JackIs(plugin_handle_detect(c), tip, \hff, bias, int)
         /\ JackIs(plugin_complete_detect(c), \hc0, button, bias, \h01)
         /\ \A mike : mike => JackIs(headset_type_detect(c, mike), tip, \he7, FALSE, \h03)
         /\ \A mike : ~mike => JackIs(headset_type_detect(c, mike), tip, button, bias, \h03)
         /\ button \in {\he7, \hff}
              => JackIs(headset_button_detect(c), tip, \hff, bias, int)
         /\ JackIs(headset_mike_buttons_enable(c), tip, \hdc, TRUE, int)
         /\ \A mike : mike => JackIs(unplug_detect(c, mike), \ha0, \hff, FALSE, \h03)
         /\ \A mike : ~mike => JackIs(unplug_detect(c, mike), \ha0, \hff, bias, \h03)
         /\ JackIs(unplug_detect_end(c), tip, button, bias, int)
<1>1. JackIs(plugin_handle_detect(c), tip, \hff, bias, int)
  BY DetectionKeepsJack, ButtonSetsJack DEF plugin_handle_detect
<1>2. JackIs(plugin_complete_detect(c), \hc0, button, bias, \h01)
  <2> DEFINE c1 == power_hs_bias_on(complete_jack_detect(c))
             c2 == enable_hs_auto_int_on(c1)
             c3 == unplug_interrupt_setup(c2)
  <2>1. JackIs(c1, tip, button, bias, int)
    BY DetectionKeepsJack
  <2>2. JackIs(c2, tip, button, bias, \h01)
    BY <2>1, IntSetsJack
  <2>3. JackIs(c3, \hc0, button, bias, \h01)
    BY <2>2, TipSetsJack
  <2>4. JackIs(headset_detect_on(set_hpout_pulldown_off(c3)), \hc0, button, bias, \h01)
    BY <2>3, DetectionKeepsJack
  <2> QED BY <2>4 DEF plugin_complete_detect
<1>3. ASSUME NEW mike
      PROVE  /\ mike => JackIs(headset_type_detect(c, mike), tip, \he7, FALSE, \h03)
             /\ ~mike => JackIs(headset_type_detect(c, mike), tip, button, bias, \h03)
  <2> DEFINE c1 == set_hpout_clamp_enable(set_hpout_pulldown_on(headset_detect_off(
                     enable_hs_auto_int_off(c))))
             c2 == power_hs_bias_off(enable_hsbias_auto_clamp_off(
                     enable_hsbias_auto_clamp_on(c1)))
  <2>1. JackIs(c1, tip, button, bias, \h03)
    BY DetectionKeepsJack, IntSetsJack
  <2>2. JackIs(c2, tip, button, FALSE, \h03)
    <3> HIDE DEF c1
    <3> QED BY <2>1, DetectionKeepsJack, BiasSetsJack
  <2>3. JackIs(enable_hsbias_auto_clamp_off(power_hs_bias_button_on(setup_button_detect(c2))),
               tip, \he7, FALSE, \h03)
    <3> HIDE DEF c2
    <3>1. JackIs(setup_button_detect(c2), tip, \he7, FALSE, \h03)
      BY <2>2, ButtonSetsJack
    <3>2. JackIs(power_hs_bias_button_on(setup_button_detect(c2)), tip, \he7, FALSE, \h03)
      BY <3>1, DetectionKeepsJack
    <3> QED BY <3>2, BiasSetsJack
  <2>4. JackIs(power_hs_bias_off(headset_mike_detect_off(c1)), tip, button, bias, \h03)
    <3> HIDE DEF c1
    <3> QED BY <2>1, DetectionKeepsJack
  <2> QED BY <2>3, <2>4 DEF headset_type_detect
<1>4. button \in {\he7, \hff} => JackIs(headset_button_detect(c), tip, \hff, bias, int)
  <2>1. button \in {\he7, \hff} => JackIs(handle_button_detect(c), tip, \hff, bias, int)
    BY ButtonSetsJack
  <2> QED BY <2>1, DetectionKeepsJack DEF headset_button_detect
<1>5. JackIs(headset_mike_buttons_enable(c), tip, \hdc, TRUE, int)
  <2>1. JackIs(configure_headset_button_interrupts(c), tip, \hdc, bias, int)
    BY ButtonSetsJack
  <2>2. JackIs(enable_hsbias_auto_clamp_off(configure_headset_button_interrupts(c)),
               tip, \hdc, FALSE, int)
    BY <2>1, BiasSetsJack
  <2> QED BY <2>2, BiasSetsJack DEF headset_mike_buttons_enable
<1>6. ASSUME NEW mike
      PROVE  /\ mike => JackIs(unplug_detect(c, mike), \ha0, \hff, FALSE, \h03)
             /\ ~mike => JackIs(unplug_detect(c, mike), \ha0, \hff, bias, \h03)
  <2> DEFINE c1 == headset_detect2_off(enable_hs_auto_int_off(plugin_interrupt_setup(c)))
  <2>1. JackIs(c1, \ha0, \hff, bias, \h03)
    <3>1. JackIs(plugin_interrupt_setup(c), \ha0, button, bias, int)
      BY TipSetsJack
    <3>2. JackIs(enable_hs_auto_int_off(plugin_interrupt_setup(c)), \ha0, button, bias, \h03)
      BY <3>1, IntSetsJack
    <3> QED BY <3>2, ButtonSetsJack
  <2>2. JackIs(disable_button_interrupts(enable_hsbias_auto_clamp_off(power_hs_bias_off(c1))),
               \ha0, \hff, FALSE, \h03)
    <3> HIDE DEF c1
    <3>1. JackIs(power_hs_bias_off(c1), \ha0, \hff, bias, \h03)
      BY <2>1, DetectionKeepsJack
    <3>2. JackIs(enable_hsbias_auto_clamp_off(power_hs_bias_off(c1)), \ha0, \hff, FALSE, \h03)
      BY <3>1, BiasSetsJack
    <3> QED BY <3>2, ButtonSetsJack
  <2> QED BY <2>1, <2>2 DEF unplug_detect
<1>7. JackIs(unplug_detect_end(c), tip, button, bias, int)
  BY DetectionKeepsJack DEF unplug_detect_end
<1> QED BY <1>1, <1>2, <1>3, <1>4, <1>5, <1>6, <1>7

-----------------------------------------------------------------------------
(* The same of the functions that use both. *)

\* The jack's registers in the hardware h.
Jack(h, tip, button, bias, int) ==
  "chip" \in DOMAIN h /\ JackIs(h.chip, tip, button, bias, int)

\* An access to the chip.
LEMMA ChipWritten ==
  ASSUME NEW h, NEW d, NEW tip, NEW button, NEW bias, NEW int,
         "chip" \in DOMAIN h, JackIs(d, tip, button, bias, int)
  PROVE  Jack(OnChip(h, d), tip, button, bias, int)
BY DEF Jack, OnChip, Put

\* A verb leaves the jack as it is.
LEMMA SparedJack ==
  ASSUME NEW g, NEW h, NEW tip, NEW button, NEW bias, NEW int,
         Jack(h, tip, button, bias, int), HasChip(g, h.chip)
  PROVE  Jack(g, tip, button, bias, int)
BY DEF Jack, HasChip

\* The headset's output and input leave it as it is.
LEMMA HeadsetKeepsJack ==
  ASSUME NEW h, NEW tip, NEW button, NEW bias, NEW int, Jack(h, tip, button, bias, int)
  PROVE  /\ Jack(enable_headset_streaming(h), tip, button, bias, int)
         /\ Jack(disable_headset_streaming(h), tip, button, bias, int)
         /\ Jack(enable_headset_mike_streaming(h), tip, button, bias, int)
         /\ Jack(disable_headset_mike_streaming(h), tip, button, bias, int)
         /\ \A mike : Jack(unplug_headset_output(h, mike), tip, button, bias, int)
         /\ Jack(unplug_headset_input(h), tip, button, bias, int)
<1>2. ASSUME NEW g, Jack(g, tip, button, bias, int)
      PROVE  /\ Jack(headset_amp_format_setup(g), tip, button, bias, int)
             /\ \A full : Jack(headset_amp_format_setup_disable(g, full), tip, button, bias, int)
             /\ Jack(headset_mike_format_setup_enable(g), tip, button, bias, int)
             /\ Jack(headset_mike_format_setup_disable(g), tip, button, bias, int)
             /\ Jack(headset_amp_disable_and_mike_format_setup_disable(g), tip, button, bias, int)
  <2>1. HasChip(g, g.chip)
    BY <1>2 DEF Jack, HasChip
  <2> QED BY <1>2, <2>1, HeadsetSpares, SparedJack
<1>3. "chip" \in DOMAIN h /\ JackIs(h.chip, tip, button, bias, int)
  BY DEF Jack
<1>4. Jack(enable_headset_streaming(h), tip, button, bias, int)
  <2>1. JackIs(headset_enable_on(set_power_state_on(headset_play_setup_on(h.chip), FALSE)),
               tip, button, bias, int)
    BY <1>3, SoundKeepsJack DEF headset_play_setup_on
  <2>2. "chip" \in DOMAIN headset_amp_format_setup(h)
    BY <1>2 DEF Jack
  <2> QED BY <2>1, <2>2, ChipWritten DEF enable_headset_streaming
<1>5. Jack(disable_headset_streaming(h), tip, button, bias, int)
  <2>1. JackIs(headset_disable(power_off_codec_output(headset_enable_off(h.chip))),
               tip, button, bias, int)
    BY <1>3, SoundKeepsJack DEF headset_disable
  <2> QED BY <1>2, <1>3, <2>1, ChipWritten DEF disable_headset_streaming
<1>6. Jack(enable_headset_mike_streaming(h), tip, button, bias, int)
  <2>1. JackIs(headset_mike_adc_unmutevol(set_power_state_on(mike_enable(
                 input_set_output_sample_rate(h.chip)), TRUE), TRUE), tip, button, bias, int)
    BY <1>3, SoundKeepsJack
  <2>2. "chip" \in DOMAIN headset_mike_format_setup_enable(h)
    BY <1>2 DEF Jack
  <2> QED BY <2>1, <2>2, ChipWritten DEF enable_headset_mike_streaming
<1>7. Jack(disable_headset_mike_streaming(h), tip, button, bias, int)
  <2>1. JackIs(mike_disable(power_off_codec_input(headset_mike_adc_unmutevol(h.chip, FALSE))),
               tip, button, bias, int)
    BY <1>3, SoundKeepsJack
  <2> QED BY <1>2, <1>3, <2>1, ChipWritten DEF disable_headset_mike_streaming
<1>8. ASSUME NEW mike
      PROVE  Jack(unplug_headset_output(h, mike), tip, button, bias, int)
  <2> DEFINE c1 == buffers_onoff(power_off_codec_output(headset_enable_off(h.chip)), FALSE)
             c2 == IF mike THEN c1 ELSE power_onoff(c1, FALSE)
             c3 == power_off_codec_output(headset_enable_off(c2))
  <2>1. JackIs(c1, tip, button, bias, int)
    BY <1>3, SoundKeepsJack
  <2>2. JackIs(c2, tip, button, bias, int)
    <3> HIDE DEF c1
    <3> QED BY <2>1, SoundKeepsJack
  <2>3. JackIs(c3, tip, button, bias, int)
    <3> HIDE DEF c2
    <3> QED BY <2>2, SoundKeepsJack
  <2>4. "chip" \in DOMAIN headset_amp_format_setup_disable(h, ~mike)
    BY <1>2 DEF Jack
  <2> QED BY <2>3, <2>4, ChipWritten DEF unplug_headset_output
<1>9. Jack(unplug_headset_input(h), tip, button, bias, int)
  <2> DEFINE h1 == OnChip(h, power_onoff(mike_disable(h.chip), FALSE))
             h2 == headset_amp_disable_and_mike_format_setup_disable(h1)
  <2>1. Jack(h1, tip, button, bias, int)
    BY <1>3, SoundKeepsJack, ChipWritten
  <2>2. Jack(h2, tip, button, bias, int)
    <3> HIDE DEF h1
    <3> QED BY <1>2, <2>1
  <2>3. HasChip(inputs_power_nids_off(intmike_linein_resetup(h2)), h2.chip)
    <3> HIDE DEF h2
    <3>1. HasChip(h2, h2.chip)
      BY <2>2 DEF Jack, HasChip
    <3> QED BY <3>1, InputsSpare
  <2> QED BY <2>2, <2>3, SparedJack DEF unplug_headset_input
<1> QED BY <1>4, <1>5, <1>6, <1>7, <1>8, <1>9

\* The boot leaves the chip waiting for the other move of the plug.
LEMMA BootSetsJack ==
  ASSUME NEW plugged, NEW mike
  PROVE  LET h == boot_setup(plugged, mike)
         IN /\ plugged /\ mike => Jack(h, \hc0, \hdc, TRUE, \h03)
            /\ plugged /\ ~mike => Jack(h, \hc0, \hff, FALSE, \h03)
            /\ ~plugged => Jack(h, \ha0, \hff, FALSE, \h03)
<1> DEFINE h1 == boot_intmike(reset)
           h2 == IF plugged THEN boot_headset(h1, mike) ELSE boot_amps(h1)
           h3 == IF plugged /\ mike THEN boot_headset_mike(h2) ELSE h2
           Boot == boot_inputs_off(really_update_stream_format(volume_unmute(h3), \h22, 0, 0))
<1>1. Jack(h1, \ha0, \hff, FALSE, \h03)
  <2>1. Jack(reset, \ha0, \hff, FALSE, \h03) /\ HasChip(reset, reset.chip)
    BY DEF Jack, JackIs, HasChip, reset, inithw
  <2>2. HasChip(boot_intmike(reset), reset.chip)
    BY <2>1, InputsSpare
  <2> QED BY <2>1, <2>2, SparedJack
<1>2. /\ plugged /\ mike => Jack(h2, \hc0, \hff, FALSE, \h03)
      /\ plugged /\ ~mike => Jack(h2, \hc0, \hff, FALSE, \h03)
  <2> DEFINE a == plugin_handle_detect(h1.chip)
             b == plugin_complete_detect(a)
             c == headset_type_detect(b, mike)
  <2> HIDE DEF h1
  <2>1. "chip" \in DOMAIN h1 /\ JackIs(h1.chip, \ha0, \hff, FALSE, \h03)
    BY <1>1 DEF Jack
  <2>2. JackIs(a, \ha0, \hff, FALSE, \h03)
    BY <2>1, EventsSetJack
  <2> HIDE DEF a
  <2>3. JackIs(b, \hc0, \hff, FALSE, \h01)
    BY <2>2, EventsSetJack
  <2> HIDE DEF b
  <2>4. /\ mike => JackIs(c, \hc0, \he7, FALSE, \h03)
        /\ ~mike => JackIs(c, \hc0, \hff, FALSE, \h03)
    BY <2>3, EventsSetJack
  <2> HIDE DEF c
  <2>5. mike => JackIs(headset_button_detect(c), \hc0, \hff, FALSE, \h03)
    BY <2>4, EventsSetJack
  <2>6. /\ mike => Jack(OnChip(h1, headset_button_detect(c)), \hc0, \hff, FALSE, \h03)
        /\ ~mike => Jack(OnChip(h1, c), \hc0, \hff, FALSE, \h03)
    BY <2>1, <2>4, <2>5, ChipWritten
  <2> QED BY <2>6 DEF boot_headset, a, b, c
<1>3. ~plugged => Jack(h2, \ha0, \hff, FALSE, \h03)
  <2> HIDE DEF h1
  <2>1. HasChip(h1, h1.chip)
    BY <1>1 DEF Jack, HasChip
  <2>2. HasChip(boot_amps(h1), h1.chip)
    BY <2>1, SpeakersSpare
  <2>3. Jack(boot_amps(h1), \ha0, \hff, FALSE, \h03)
    BY <1>1, <2>2, SparedJack
  <2> QED BY <2>3
<1>4. ASSUME NEW g, Jack(g, \hc0, \hff, FALSE, \h03)
      PROVE  Jack(boot_headset_mike(g), \hc0, \hdc, TRUE, \h03)
  <2> DEFINE g1 == headset_mike_format_setup_enable(intmike_linein_disable(g))
             c1 == mike_enable(input_set_output_sample_rate(g1.chip))
  <2>1. HasChip(g, g.chip)
    BY <1>4 DEF Jack, HasChip
  <2>2. HasChip(g1, g.chip)
    BY <2>1, InputsSpare, VerbsSpare, StoreSpares DEF headset_mike_format_setup_enable
  <2>3. Jack(g1, \hc0, \hff, FALSE, \h03)
    BY <1>4, <2>2, SparedJack
  <2> HIDE DEF g1
  <2>4. JackIs(c1, \hc0, \hff, FALSE, \h03)
    <3>1. JackIs(g1.chip, \hc0, \hff, FALSE, \h03)
      BY <2>3 DEF Jack
    <3>2. JackIs(input_set_output_sample_rate(g1.chip), \hc0, \hff, FALSE, \h03)
      BY <3>1, SoundKeepsJack
    <3> QED BY <3>2, SoundKeepsJack
  <2> HIDE DEF c1
  <2>5. JackIs(headset_mike_buttons_enable(c1), \hc0, \hdc, TRUE, \h03)
    BY <2>4, EventsSetJack
  <2>6. Jack(OnChip(g1, headset_mike_buttons_enable(c1)), \hc0, \hdc, TRUE, \h03)
    BY <2>3, <2>5, ChipWritten DEF Jack
  <2> QED BY <2>6 DEF boot_headset_mike, g1, c1
<1>5. /\ plugged /\ mike => Jack(h3, \hc0, \hdc, TRUE, \h03)
      /\ plugged /\ ~mike => Jack(h3, \hc0, \hff, FALSE, \h03)
      /\ ~plugged => Jack(h3, \ha0, \hff, FALSE, \h03)
  <2> HIDE DEF h2
  <2> QED BY <1>2, <1>3, <1>4
<1>6. ASSUME NEW tip, NEW button, NEW bias, NEW int, Jack(h3, tip, button, bias, int)
      PROVE  Jack(Boot, tip, button, bias, int)
  <2> HIDE DEF h3
  <2>1. HasChip(h3, h3.chip)
    BY <1>6 DEF Jack, HasChip
  <2>2. HasChip(volume_unmute(h3), h3.chip)
    BY <2>1, VerbsSpare DEF volume_unmute
  <2>3. HasChip(really_update_stream_format(volume_unmute(h3), \h22, 0, 0), h3.chip)
    BY <2>2, StoreSpares
  <2>4. HasChip(Boot, h3.chip)
    BY <2>3, InputsSpare
  <2> QED BY <1>6, <2>4, SparedJack
<1>7. Boot = boot_setup(plugged, mike)
  BY DEF boot_setup
<1> HIDE DEF h3, Boot
<1> QED BY <1>5, <1>6, <1>7

-----------------------------------------------------------------------------
(* What the functions leave of the register fields of the CS8409.          *)

\* The hardware h has the register fields b in their enabling value.
HasBits(h, b) == "bits" \in DOMAIN h /\ h.bits = b

\* Of the verbs, only Put changes them.
LEMMA VerbsWire ==
  ASSUME NEW h, NEW b, HasBits(h, b)
  PROVE  /\ \A off, enabled : HasBits(Put(h, off, enabled), (b \ off) \cup enabled)
         /\ \A n, tag, ch : HasBits(WriteStream(h, n, tag, ch), b)
         /\ \A n, fmt : HasBits(WriteFormat(h, n, fmt), b)
         /\ \A n, s : HasBits([h EXCEPT !.hw[n] = s], b)
BY DEF HasBits, Put, WriteStream, WriteFormat

\* Setting up a stream changes none.
LEMMA SetUpWires ==
  ASSUME NEW h, NEW b, HasBits(h, b), NEW n, NEW tag, NEW ch, NEW fmt
  PROVE  HasBits(setup_stream(h, n, tag, ch, fmt), b)
<1> DEFINE v  == h.cvt[n]
           h1 == IF <<v.tag, v.ch>> # <<tag, ch>> THEN WriteStream(h, n, tag, ch) ELSE h
           h2 == IF v.fmt # fmt THEN WriteFormat(h1, n, fmt) ELSE h1
<1>1. HasBits(h1, b)
  BY VerbsWire
<1>2. HasBits(h2, b)
  <2> HIDE DEF h1
  <2> QED BY <1>1, VerbsWire
<1>3. HasBits([h2 EXCEPT !.cvt[n] = [tag |-> tag, ch |-> ch, fmt |-> fmt]], b)
  <2> HIDE DEF h2
  <2> QED BY <1>2 DEF HasBits
<1> QED BY <1>3 DEF setup_stream

\* Nor does the stream store.
LEMMA StoreWires ==
  ASSUME NEW h, NEW b, HasBits(h, b)
  PROVE  /\ \A n, tag, fmt : HasBits(store_stream_format(h, n, tag, fmt), b)
         /\ \A n, u, ch : HasBits(really_update_stream_format(h, n, u, ch), b)
         /\ \A n : HasBits(save_and_clear_stream_format(h, n), b)
         /\ \A n, p : HasBits(update_from_save_stream_format(h, n, p), b)
<1>1. \A n, tag, fmt : HasBits(store_stream_format(h, n, tag, fmt), b)
  BY DEF store_stream_format, HasBits
<1>2. ASSUME NEW n, NEW u, NEW ch
      PROVE  HasBits(really_update_stream_format(h, n, u, ch), b)
  <2> DEFINE h1 == [h EXCEPT !.cvt[n] = IF u > 0 THEN Silent ELSE [@ EXCEPT !.fmt = 0]]
  <2>1. HasBits(h1, b)
    BY DEF HasBits
  <2>2. \A tag, new, fmt : HasBits(setup_stream(h1, n, tag, new, fmt), b)
    <3> HIDE DEF h1
    <3> QED BY <2>1, SetUpWires
  <2> QED BY <2>2 DEF really_update_stream_format
<1>3. \A n : HasBits(save_and_clear_stream_format(h, n), b)
  BY VerbsWire DEF save_and_clear_stream_format
<1>4. ASSUME NEW n, NEW p
      PROVE  HasBits(update_from_save_stream_format(h, n, p), b)
  <2> DEFINE h1 == [h EXCEPT !.cvt[n].tag = 0, !.cvt[n].ch = 0]
  <2>1. HasBits(h1, b)
    BY DEF HasBits
  <2>2. HasBits(setup_stream(h1, n, p.tag, p.ch, p.fmt), b)
    <3> HIDE DEF h1
    <3> QED BY <2>1, SetUpWires
  <2> QED BY <2>2 DEF update_from_save_stream_format
<1> QED BY <1>1, <1>2, <1>3, <1>4

\* The fields of the speakers.
SpeakerBit == {"slots12", "slots34", "pads_amps", "src_amps", "clock_amps", "gate",
               "pin24", "pin25", "amps12", "amps34", "sync2", "sync3"}

\* The speakers are set up whole and torn down whole.
LEMMA SpeakersWire ==
  ASSUME NEW h, NEW b, HasBits(h, b)
  PROVE  /\ HasBits(play(h), b \cup SpeakerBit)
         /\ HasBits(amps_disable_streaming(h),
                    b \ (SpeakerBit \cup {"src_headset", "clock_headset"}))
         /\ \E d : /\ HasBits(boot_amps(h), d)
                   /\ d \cap {"slots12", "slots34", "amps12", "amps34", "clock_amps", "intmike"} = {}
                   /\ "slots_out" \in d => "slots_out" \in b
<1>1. \A g, d, null : HasBits(g, d) =>
        HasBits(setup_TDM_amps12(g, null),
                d \cup {"slots12", "pads_amps", "src_amps", "clock_amps", "gate", "pin24"})
  <2> SUFFICES ASSUME NEW g, NEW d, NEW null, HasBits(g, d)
               PROVE  HasBits(setup_TDM_amps12(g, null),
                d \cup {"slots12", "pads_amps", "src_amps", "clock_amps", "gate", "pin24"})
    OBVIOUS
  <2> DEFINE g1 == IF null THEN WriteStream(WriteFormat(g, \h02, \h4033), \h02, 0, 0)
                   ELSE really_update_stream_format(g, \h02, 2, 0)
  <2>1. HasBits(g1, d)
    BY VerbsWire, StoreWires
  <2> HIDE DEF g1
  <2>2. HasBits(Put(g1, {}, {"slots12", "pads_amps", "src_amps", "clock_amps", "gate", "pin24"}),
                d \cup {"slots12", "pads_amps", "src_amps", "clock_amps", "gate", "pin24"})
    BY <2>1 DEF HasBits, Put
  <2> QED BY <2>2 DEF setup_TDM_amps12, g1
<1>2. \A g, d, null : HasBits(g, d) =>
        HasBits(setup_TDM_amps34(g, null), d \cup {"slots34", "clock_amps", "gate", "pin25"})
  <2> SUFFICES ASSUME NEW g, NEW d, NEW null, HasBits(g, d)
               PROVE  HasBits(setup_TDM_amps34(g, null),
                              d \cup {"slots34", "clock_amps", "gate", "pin25"})
    OBVIOUS
  <2> DEFINE g1 == IF null THEN WriteStream(WriteFormat(g, \h03, \h4033), \h03, 0, 2)
                   ELSE really_update_stream_format(g, \h03, 2, IF g.channels = 2 THEN 0 ELSE 2)
  <2>1. HasBits(g1, d)
    BY VerbsWire, StoreWires
  <2> HIDE DEF g1
  <2>2. HasBits(Put(g1, {}, {"slots34", "clock_amps", "gate", "pin25"}),
                d \cup {"slots34", "clock_amps", "gate", "pin25"})
    BY <2>1 DEF HasBits, Put
  <2> QED BY <2>2 DEF setup_TDM_amps34, g1
<1>3. \A g, d : HasBits(g, d) =>
        /\ HasBits(setup_amps12(g, TRUE), d \cup {"amps12"})
        /\ HasBits(setup_amps34(g, TRUE), d \cup {"amps34"})
  BY DEF setup_amps12, setup_amps34, Starts, HasBits, Put
<1>4. \A g, d : HasBits(g, d) =>
        HasBits(sync_converters_on(g, FALSE), d \cup {"sync2", "sync3"})
  <2> SUFFICES ASSUME NEW g, NEW d, HasBits(g, d)
               PROVE  HasBits(sync_converters_on(g, FALSE), d \cup {"sync2", "sync3"})
    OBVIOUS
  <2> DEFINE h1 == save_and_clear_stream_format(save_and_clear_stream_format(g, \h02), \h03)
             h2 == Put(h1, {}, {"sync2", "sync3"})
  <2>1. HasBits(h1, d)
    BY StoreWires
  <2>2. HasBits(h2, d \cup {"sync2", "sync3"})
    <3> HIDE DEF h1
    <3> QED BY <2>1 DEF HasBits, Put
  <2>3. HasBits(update_from_save_stream_format(
            update_from_save_stream_format(h2, \h02, g.cvt[\h02]), \h03, g.cvt[\h03]),
          d \cup {"sync2", "sync3"})
    <3> HIDE DEF h2
    <3> QED BY <2>2, StoreWires
  <2> QED BY <2>3 DEF sync_converters_on
<1>5. \A g, d, null : HasBits(g, d) =>
        HasBits(sync_converters_off(g, null),
                (d \ {"sync2", "sync3", "src_headset"}) \cup {"src_amps"})
  <2> SUFFICES ASSUME NEW g, NEW d, NEW null, HasBits(g, d)
               PROVE  HasBits(sync_converters_off(g, null),
                (d \ {"sync2", "sync3", "src_headset"}) \cup {"src_amps"})
    OBVIOUS
  <2> DEFINE h1 == save_and_clear_stream_format(save_and_clear_stream_format(g, \h02), \h03)
             h2 == Put(h1, {"sync2", "sync3", "src_headset"}, {"src_amps"})
             e  == (d \ {"sync2", "sync3", "src_headset"}) \cup {"src_amps"}
  <2>1. HasBits(h1, d)
    BY StoreWires
  <2>2. HasBits(h2, e)
    <3> HIDE DEF h1
    <3> QED BY <2>1 DEF HasBits, Put
  <2>3. HasBits(update_from_save_stream_format(
            update_from_save_stream_format(h2, \h02, g.cvt[\h02]), \h03, g.cvt[\h03]), e)
    <3> HIDE DEF h2, e
    <3> QED BY <2>2, StoreWires
  <2> QED BY <2>2, <2>3 DEF sync_converters_off
<1>6. ASSUME NEW g, NEW d, HasBits(g, d)
      PROVE  HasBits(disable_TDM_amps34(disable_amps34(disable_TDM_amps12(disable_amps12(g)))),
                     d \ {"amps12", "slots12", "pin24", "gate", "amps34", "slots34",
                          "pads_amps", "src_amps", "clock_amps", "clock_headset", "pin25"})
  <2> DEFINE g1 == disable_amps12(g)
             g2 == disable_TDM_amps12(g1)
             g3 == disable_amps34(g2)
             g4 == disable_TDM_amps34(g3)
  <2>1. HasBits(g1, d \ {"amps12"})
    BY <1>6 DEF HasBits, Put, disable_amps12
  <2> HIDE DEF g1
  <2>2. HasBits(g2, (d \ {"amps12", "slots12", "pin24"}) \cup {"gate"})
    BY <2>1 DEF HasBits, Put, disable_TDM_amps12
  <2> HIDE DEF g2
  <2>3. HasBits(g3, (d \ {"amps12", "slots12", "pin24", "amps34"}) \cup {"gate"})
    BY <2>2 DEF HasBits, Put, disable_amps34
  <2> HIDE DEF g3
  <2>4. HasBits(g4, d \ {"amps12", "slots12", "pin24", "gate", "amps34", "slots34",
                         "pads_amps", "src_amps", "clock_amps", "clock_headset", "pin25"})
    BY <2>3 DEF HasBits, Put, disable_TDM_amps34
  <2> QED BY <2>4 DEF g1, g2, g3
<1>7. HasBits(play(h), b \cup SpeakerBit)
  <2> DEFINE h1 == setup_amps12(setup_TDM_amps12(h, FALSE), TRUE)
             h2 == setup_amps34(setup_TDM_amps34(h1, FALSE), TRUE)
  <2>1. HasBits(h1, (b \cup {"slots12", "pads_amps", "src_amps", "clock_amps", "gate", "pin24"})
                     \cup {"amps12"})
    BY <1>1, <1>3
  <2> DEFINE b1 == (b \cup {"slots12", "pads_amps", "src_amps", "clock_amps", "gate", "pin24"})
                     \cup {"amps12"}
  <2> HIDE DEF h1, b1
  <2>2. HasBits(h2, (b1 \cup {"slots34", "clock_amps", "gate", "pin25"}) \cup {"amps34"})
    BY <2>1, <1>2, <1>3 DEF b1
  <2> HIDE DEF h2
  <2>3. HasBits(sync_converters_on(h2, FALSE),
                ((b1 \cup {"slots34", "clock_amps", "gate", "pin25"}) \cup {"amps34"})
                  \cup {"sync2", "sync3"})
    BY <2>2, <1>4
  <2>4. ((b1 \cup {"slots34", "clock_amps", "gate", "pin25"}) \cup {"amps34"})
          \cup {"sync2", "sync3"} = b \cup SpeakerBit
    BY DEF b1, SpeakerBit
  <2> QED BY <2>3, <2>4 DEF play, h1, h2
<1>8. HasBits(amps_disable_streaming(h), b \ (SpeakerBit \cup {"src_headset", "clock_headset"}))
  <2> DEFINE d == (b \ {"sync2", "sync3", "src_headset"}) \cup {"src_amps"}
  <2>1. HasBits(sync_converters_off(h, FALSE), d)
    BY <1>5
  <2>2. HasBits(amps_disable_streaming(h),
          d \ {"amps12", "slots12", "pin24", "gate", "amps34", "slots34",
               "pads_amps", "src_amps", "clock_amps", "clock_headset", "pin25"})
    <3> HIDE DEF d
    <3> QED BY <2>1, <1>6 DEF amps_disable_streaming
  <2>3. d \ {"amps12", "slots12", "pin24", "gate", "amps34", "slots34",
             "pads_amps", "src_amps", "clock_amps", "clock_headset", "pin25"}
          = b \ (SpeakerBit \cup {"src_headset", "clock_headset"})
    BY DEF SpeakerBit
  <2> QED BY <2>2, <2>3
<1>9. \E d : /\ HasBits(boot_amps(h), d)
             /\ d \cap {"slots12", "slots34", "amps12", "amps34", "clock_amps", "intmike"} = {}
             /\ "slots_out" \in d => "slots_out" \in b
  <2> DEFINE g1 == sync_converters_on(setup_amps34(setup_TDM_amps34(
                     setup_amps12(setup_TDM_amps12(h, TRUE), FALSE), TRUE), FALSE), TRUE)
             g2 == sync_converters_off(g1, TRUE)
             g3 == disable_TDM_amps34(disable_amps34(disable_TDM_amps12(disable_amps12(g2))))
             g4 == inputs_power_nids_off(volume_unmute(g3))
             NoOutput(d) == "slots_out" \in d => "slots_out" \in b
  <2>1. \E d : HasBits(g1, d) /\ NoOutput(d)
    <3>1. \A g, d, e : HasBits(g, d) /\ NoOutput(d) =>
            /\ \E f : HasBits(setup_amps12(g, e), f) /\ NoOutput(f)
            /\ \E f : HasBits(setup_amps34(g, e), f) /\ NoOutput(f)
      <4> SUFFICES ASSUME NEW g, NEW d, NEW e, HasBits(g, d), NoOutput(d)
                   PROVE  /\ \E f : HasBits(setup_amps12(g, e), f) /\ NoOutput(f)
                          /\ \E f : HasBits(setup_amps34(g, e), f) /\ NoOutput(f)
        OBVIOUS
      <4> DEFINE on12 == IF Starts(e) THEN {"amps12"} ELSE {}
                 on34 == IF Starts(e) THEN {"amps34"} ELSE {}
      <4>1. "slots_out" \notin on12 /\ "slots_out" \notin on34
        OBVIOUS
      <4>2. setup_amps12(g, e) = Put(g, {}, on12) /\ setup_amps34(g, e) = Put(g, {}, on34)
        BY DEF setup_amps12, setup_amps34
      <4> HIDE DEF on12, on34
      <4>3. HasBits(Put(g, {}, on12), (d \ {}) \cup on12)
        BY VerbsWire
      <4>4. HasBits(Put(g, {}, on34), (d \ {}) \cup on34)
        BY VerbsWire
      <4>5. NoOutput((d \ {}) \cup on12) /\ NoOutput((d \ {}) \cup on34)
        BY <4>1
      <4> HIDE DEF NoOutput
      <4> QED BY <4>2, <4>3, <4>4, <4>5
    <3>2. \A g, d : HasBits(g, d) /\ NoOutput(d)
                    => \E f : HasBits(sync_converters_on(g, TRUE), f) /\ NoOutput(f)
      <4> SUFFICES ASSUME NEW g, NEW d, HasBits(g, d), NoOutput(d)
                   PROVE  \E f : HasBits(sync_converters_on(g, TRUE), f) /\ NoOutput(f)
        OBVIOUS
      <4> DEFINE k1 == save_and_clear_stream_format(save_and_clear_stream_format(g, \h02), \h03)
                 k2 == Put(k1, {}, {"sync2", "sync3"})
      <4>1. HasBits(k1, d)
        BY StoreWires
      <4>2. HasBits(k2, (d \ {}) \cup {"sync2", "sync3"})
        <5> HIDE DEF k1
        <5> QED BY <4>1, VerbsWire
      <4>3. HasBits(WriteStream(WriteStream(k2, \h02, 0, 0), \h03, 0, 2),
                    (d \ {}) \cup {"sync2", "sync3"})
        <5> HIDE DEF k2
        <5> QED BY <4>2, VerbsWire
      <4> QED BY <4>3 DEF sync_converters_on
    <3> DEFINE k1 == setup_TDM_amps12(h, TRUE)
               k2 == setup_amps12(k1, FALSE)
               k3 == setup_TDM_amps34(k2, TRUE)
               k4 == setup_amps34(k3, FALSE)
    <3>3. \E f : HasBits(k1, f) /\ NoOutput(f)
      <4> DEFINE on1 == {"slots12", "pads_amps", "src_amps", "clock_amps", "gate", "pin24"}
      <4>1. HasBits(k1, b \cup on1)
        BY <1>1
      <4>2. NoOutput(b \cup on1)
        OBVIOUS
      <4> HIDE DEF NoOutput, k1, on1
      <4> QED BY <4>1, <4>2
    <3> HIDE DEF k1
    <3>4. \E f : HasBits(k2, f) /\ NoOutput(f)
      BY <3>1, <3>3
    <3> HIDE DEF k2
    <3>5. \E f : HasBits(k3, f) /\ NoOutput(f)
      <4> DEFINE on2 == {"slots34", "clock_amps", "gate", "pin25"}
      <4>1. PICK d : HasBits(k2, d) /\ NoOutput(d)
        BY <3>4
      <4>2. HasBits(k3, d \cup on2)
        BY <1>2, <4>1
      <4>3. NoOutput(d \cup on2)
        BY <4>1
      <4> HIDE DEF NoOutput, k3, on2
      <4> QED BY <4>2, <4>3
    <3> HIDE DEF k3
    <3>6. \E f : HasBits(k4, f) /\ NoOutput(f)
      BY <3>1, <3>5
    <3> HIDE DEF k4
    <3>7. \E f : HasBits(sync_converters_on(k4, TRUE), f) /\ NoOutput(f)
      BY <3>2, <3>6
    <3> QED BY <3>7 DEF k1, k2, k3, k4
  <2> HIDE DEF g1
  <2>2. PICK d : HasBits(g1, d) /\ NoOutput(d)
    BY <2>1
  <2> DEFINE e == (d \ {"sync2", "sync3", "src_headset"}) \cup {"src_amps"}
             f == e \ {"amps12", "slots12", "pin24", "gate", "amps34", "slots34",
                       "pads_amps", "src_amps", "clock_amps", "clock_headset", "pin25"}
  <2>3. HasBits(g2, e)
    BY <2>2, <1>5
  <2> HIDE DEF g2, e
  <2>4. HasBits(g3, f)
    BY <2>3, <1>6
  <2>5. /\ f \cap {"slots12", "slots34", "amps12", "amps34", "clock_amps"} = {}
        /\ "slots_out" \in f => "slots_out" \in b
    BY <2>2 DEF e
  <2> HIDE DEF g3, f
  <2>6. HasBits(g4, (f \cup {"intmike_unmuted", "linein_unmuted"}) \ {"intmike", "linein"})
    BY <2>4 DEF HasBits, Put, inputs_power_nids_off, volume_unmute
  <2>7. g4 = boot_amps(h)
    BY DEF boot_amps, g1, g2, g3
  <2> HIDE DEF g4
  <2> DEFINE on4 == (f \cup {"intmike_unmuted", "linein_unmuted"}) \ {"intmike", "linein"}
  <2>8. on4 \cap {"slots12", "slots34", "amps12", "amps34", "clock_amps", "intmike"} = {}
    BY <2>5
  <2>9. "slots_out" \in on4 => "slots_out" \in b
    BY <2>5
  <2>10. HasBits(boot_amps(h), on4)
    BY <2>6, <2>7
  <2>11. "slots_out" \notin on4 \/ "slots_out" \in b
    BY <2>9
  <2> HIDE DEF on4
  <2> WITNESS on4
  <2> QED BY <2>8, <2>10, <2>11
<1> QED BY <1>7, <1>8, <1>9

\* The fields of the internal inputs; those of the microphone among them.
MikeBit  == {"intmike", "pad_intmike", "pin_intmike", "dmic_intmike", "intmike_unmuted"}
InputBit == MikeBit \cup {"linein", "pad_linein", "pin_linein", "dmic_linein",
                          "linein_unmuted", "conn_off"}

\* The fields that are on in the hardware h are those of b, but for the inputs.
ButInputs(h, b) == "bits" \in DOMAIN h /\ h.bits \ InputBit = b \ InputBit

\* The functions of the internal inputs change no other fields, ...
LEMMA InputsWire ==
  ASSUME NEW h, NEW b, ButInputs(h, b)
  PROVE  /\ ButInputs(inputs_power_nids_off(h), b)
         /\ ButInputs(intmike_linein_resetup(h), b)
         /\ ButInputs(intmike_linein_disable(h), b)
         /\ ButInputs(capture(h), b)
         /\ ButInputs(capturestop(h), b)
         /\ ButInputs(volume_unmute(h), b)
         /\ ButInputs(boot_inputs_off(h), b)
         /\ ButInputs(boot_intmike(h), b)
<1>1. ASSUME NEW g, ButInputs(g, b)
      PROVE  /\ \A off, enabled : off \subseteq InputBit /\ enabled \subseteq InputBit
                  => ButInputs(Put(g, off, enabled), b)
             /\ \A n, tag, ch : ButInputs(WriteStream(g, n, tag, ch), b)
             /\ \A n, s : ButInputs([g EXCEPT !.hw[n] = s], b)
             /\ \A n, u, ch : ButInputs(really_update_stream_format(g, n, u, ch), b)
  <2>1. HasBits(g, g.bits)
    BY <1>1 DEF ButInputs, HasBits
  <2>2. \A off, enabled : off \subseteq InputBit /\ enabled \subseteq InputBit
          => ButInputs(Put(g, off, enabled), b)
    BY <1>1 DEF ButInputs, Put
  <2>3. \A k : HasBits(k, g.bits) => ButInputs(k, b)
    BY <1>1 DEF ButInputs, HasBits
  <2> QED BY <2>1, <2>2, <2>3, VerbsWire, StoreWires
<1>2. \A g : ButInputs(g, b) =>
        /\ ButInputs(inputs_power_nids_on(g), b)
        /\ ButInputs(inputs_power_nids_off(g), b)
        /\ ButInputs(intmike_volume_setup(g), b)
        /\ ButInputs(linein_volume_setup(g), b)
        /\ ButInputs(intmike_volume_mute(g), b)
        /\ ButInputs(linein_volume_mute(g), b)
        /\ ButInputs(volume_unmute(g), b)
  BY <1>1
  DEF InputBit, MikeBit, inputs_power_nids_on, inputs_power_nids_off, intmike_volume_setup,
      linein_volume_setup, intmike_volume_mute, linein_volume_mute, volume_unmute
<1>3. \A g : ButInputs(g, b) =>
        /\ ButInputs(intmike_stream_on_nid(g), b)
        /\ ButInputs(linein_format_setup_disable(g), b)
        /\ ButInputs(linein_format_setup_enable(g), b)
        /\ ButInputs(linein_stream_on_nid(g), b)
        /\ ButInputs(linein_stream_conn_off(g), b)
        /\ ButInputs(linein_stream_off_nid(g), b)
        /\ ButInputs(linein_stream_reset_nid_off(g), b)
  BY <1>1
  DEF InputBit, MikeBit, intmike_stream_on_nid, linein_format_setup_disable,
      linein_format_setup_enable, linein_stream_on_nid, linein_stream_conn_off,
      linein_stream_off_nid, linein_stream_reset_nid_off
<1>4. \A g : ButInputs(g, b) =>
        /\ ButInputs(intmike_stream_conn_off(g), b)
        /\ ButInputs(intmike_stream_off_nid(g), b)
        /\ ButInputs(intmike_stream_conn_off_disable(g), b)
        /\ ButInputs(intmike_stream_conn_off_enable(g), b)
        /\ ButInputs(intmike_stream_reset_nid_on(g), b)
        /\ ButInputs(intmike_format_setup_disable(g), b)
  BY <1>1
  DEF InputBit, MikeBit, intmike_stream_conn_off, intmike_stream_off_nid,
      intmike_stream_conn_off_disable, intmike_stream_conn_off_enable,
      intmike_stream_reset_nid_on, intmike_format_setup_disable
<1>5. \A g, down : ButInputs(g, b) => ButInputs(intmike_format_setup_enable(g, down), b)
  BY <1>1 DEF InputBit, MikeBit, intmike_format_setup_enable
<1>6. ButInputs(intmike_linein_disable(h), b)
  BY <1>2, <1>3, <1>4 DEF intmike_linein_disable
<1>7. ButInputs(capture(h), b)
  BY <1>2, <1>3, <1>5 DEF capture
<1>8. ButInputs(capturestop(h), b)
  BY <1>2, <1>3, <1>4 DEF capturestop
<1>9. ButInputs(intmike_linein_resetup(h), b)
  BY <1>1, <1>2, <1>3, <1>4, <1>5 DEF intmike_linein_resetup
<1>10. \A g : ButInputs(g, b) => ButInputs(boot_inputs_off(g), b)
  BY <1>2, <1>3, <1>4 DEF boot_inputs_off
<1>11. ButInputs(boot_intmike(h), b)
  BY <1>1, <1>2, <1>3, <1>5, <1>10 DEF boot_intmike
<1> QED BY <1>2, <1>6, <1>7, <1>8, <1>9, <1>10, <1>11

\* ... and leave the microphone set up whole, or without power.
LEMMA InputsEnd ==
  ASSUME NEW h, NEW b, HasBits(h, b)
  PROVE  /\ "bits" \in DOMAIN capture(h) /\ MikeBit \subseteq capture(h).bits
         /\ "intmike" \notin inputs_power_nids_off(h).bits
         /\ "intmike" \notin capturestop(h).bits
         /\ "intmike" \notin intmike_linein_disable(h).bits
         /\ "intmike" \notin boot_inputs_off(h).bits
<1>1. ASSUME NEW g, "bits" \in DOMAIN g
      PROVE  /\ "bits" \in DOMAIN inputs_power_nids_off(g)
             /\ "intmike" \notin inputs_power_nids_off(g).bits
  BY <1>1 DEF inputs_power_nids_off, Put
<1>2. \A g, c : ButInputs(g, c) => "bits" \in DOMAIN g
  BY DEF ButInputs
<1>3. ButInputs(h, b)
  BY DEF HasBits, ButInputs
<1>4. "bits" \in DOMAIN capture(h) /\ MikeBit \subseteq capture(h).bits
  <2> DEFINE h1 == really_update_stream_format(inputs_power_nids_on(h), \h22, 1, 0)
             h2 == intmike_format_setup_enable(inputs_power_nids_on(h), FALSE)
             h3 == intmike_volume_setup(h2)
             h4 == intmike_stream_on_nid(h3)
  <2>1. HasBits(inputs_power_nids_on(h), b \cup {"intmike", "linein"})
    BY DEF HasBits, Put, inputs_power_nids_on
  <2>2. HasBits(h1, b \cup {"intmike", "linein"})
    BY <2>1, StoreWires
  <2> HIDE DEF h1
  <2>3. "bits" \in DOMAIN h2 /\ {"intmike", "dmic_intmike"} \subseteq h2.bits
    <3>1. h2 = Put(h1, {}, {"dmic_intmike"})
      BY DEF intmike_format_setup_enable, h1
    <3> HIDE DEF h2
    <3> QED BY <2>2, <3>1 DEF HasBits, Put
  <2> HIDE DEF h2
  <2>4. "bits" \in DOMAIN h3 /\ {"intmike", "dmic_intmike"} \subseteq h3.bits
    BY <2>3 DEF intmike_volume_setup, Put
  <2> HIDE DEF h3
  <2>5. /\ "bits" \in DOMAIN h4
        /\ {"intmike", "dmic_intmike", "pad_intmike", "pin_intmike"} \subseteq h4.bits
    BY <2>4 DEF intmike_stream_on_nid, Put
  <2> HIDE DEF h4
  <2>6. "bits" \in DOMAIN volume_unmute(h4) /\ MikeBit \subseteq volume_unmute(h4).bits
    BY <2>5 DEF volume_unmute, Put, MikeBit
  <2> QED BY <2>6 DEF capture, h4, h3, h2
<1>5. "intmike" \notin capturestop(h).bits
  <2> DEFINE h1 == linein_stream_conn_off(intmike_stream_conn_off(h))
             h2 == linein_stream_reset_nid_off(intmike_stream_reset_nid_on(h1))
             h3 == linein_format_setup_disable(linein_volume_mute(
                     intmike_format_setup_disable(intmike_volume_mute(h2))))
  <2>1. "bits" \in DOMAIN h3
    <3> DEFINE k == intmike_format_setup_disable(intmike_volume_mute(h2))
    <3>1. "bits" \in DOMAIN h1
      BY DEF HasBits, linein_stream_conn_off, intmike_stream_conn_off, WriteStream, Put
    <3> HIDE DEF h1
    <3>2. "bits" \in DOMAIN h2
      BY <3>1 DEF linein_stream_reset_nid_off, intmike_stream_reset_nid_on, WriteStream, Put
    <3> HIDE DEF h2
    <3>3. "bits" \in DOMAIN k
      BY <3>2 DEF intmike_format_setup_disable, intmike_volume_mute, Put
    <3> HIDE DEF k
    <3>4. "bits" \in DOMAIN linein_format_setup_disable(linein_volume_mute(k))
      BY <3>3 DEF linein_format_setup_disable, linein_volume_mute, Put
    <3> QED BY <3>4 DEF k
  <2>2. capturestop(h) = inputs_power_nids_off(h3)
    BY DEF capturestop
  <2> HIDE DEF h3
  <2> QED BY <2>1, <2>2, <1>1
<1>6. ASSUME NEW g, "bits" \in DOMAIN g
      PROVE  /\ "bits" \in DOMAIN intmike_format_setup_disable(g)
             /\ "intmike" \notin intmike_format_setup_disable(g).bits
  BY <1>6 DEF intmike_format_setup_disable, Put
<1>7. ASSUME NEW g, "bits" \in DOMAIN g, "intmike" \notin g.bits
      PROVE  "intmike" \notin linein_format_setup_disable(linein_volume_setup(g)).bits
  BY <1>7 DEF linein_format_setup_disable, linein_volume_setup, Put
<1>8. "intmike" \notin intmike_linein_disable(h).bits
  <2> DEFINE h1 == linein_stream_conn_off(intmike_stream_conn_off(h))
             h2 == linein_stream_off_nid(intmike_stream_off_nid(h1))
             h3 == intmike_volume_setup(h2)
  <2>1. "bits" \in DOMAIN h1
    BY DEF HasBits, linein_stream_conn_off, intmike_stream_conn_off, WriteStream, Put
  <2> HIDE DEF h1
  <2>2. "bits" \in DOMAIN h2
    BY <2>1 DEF linein_stream_off_nid, intmike_stream_off_nid, WriteStream, Put
  <2> HIDE DEF h2
  <2>3. "bits" \in DOMAIN h3
    BY <2>2 DEF intmike_volume_setup, Put
  <2> HIDE DEF h3
  <2>4. "intmike" \notin linein_format_setup_disable(linein_volume_setup(
                           intmike_format_setup_disable(h3))).bits
    BY <2>3, <1>6, <1>7
  <2> QED BY <2>4 DEF intmike_linein_disable, h1, h2, h3
<1>9. "intmike" \notin boot_inputs_off(h).bits
  <2> DEFINE h1 == linein_stream_conn_off(intmike_stream_conn_off(
                     linein_format_setup_disable(linein_volume_setup(h))))
  <2>1. "bits" \in DOMAIN h1
    <3>1. "bits" \in DOMAIN linein_format_setup_disable(linein_volume_setup(h))
      BY DEF HasBits, linein_format_setup_disable, linein_volume_setup, Put
    <3> QED BY <3>1 DEF linein_stream_conn_off, intmike_stream_conn_off, WriteStream, Put
  <2> HIDE DEF h1
  <2>2. "intmike" \notin linein_stream_off_nid(intmike_stream_off_nid(h1)).bits
    BY <2>1 DEF linein_stream_off_nid, intmike_stream_off_nid, WriteStream, Put
  <2> QED BY <2>2 DEF boot_inputs_off, h1
<1> QED BY <1>1, <1>4, <1>5, <1>8, <1>9 DEF HasBits

\* The headset's output and input.
LEMMA HeadsetWires ==
  ASSUME NEW h, NEW b, HasBits(h, b)
  PROVE  /\ HasBits(headset_amp_format_setup(h),
                    b \cup {"slots_out", "pads_headset", "src_headset", "clock_headset", "gate",
                            "pin2c"})
         /\ \A full : LET g == headset_amp_format_setup_disable(h, full)
                      IN /\ HasBits(g, g.bits) /\ "slots_out" \notin g.bits
                         /\ \A u \in Unit \ {"headphones"} :
                              Wired(u) \subseteq g.bits <=> Wired(u) \subseteq b
         /\ HasBits(headset_mike_format_setup_enable(h),
                    (b \ {"clock_amps"}) \cup {"slots_in", "clock_headset", "gate", "pin3c"})
         /\ HasBits(headset_mike_format_setup_disable(h), (b \ {"slots_in", "pin3c"}) \cup {"gate"})
         /\ HasBits(headset_amp_disable_and_mike_format_setup_disable(h),
                    (b \ {"slots_in", "pin3c", "pads_headset", "src_headset"}) \cup {"gate"})
<1>1. ASSUME NEW n, NEW u, NEW ch, NEW off, NEW enabled
      PROVE  HasBits(Put(really_update_stream_format(h, n, u, ch), off, enabled),
                     (b \ off) \cup enabled)
  BY StoreWires, VerbsWire
<1>2. ASSUME NEW n, NEW off, NEW enabled
      PROVE  HasBits(Put([h EXCEPT !.hw[n] = Silent], off, enabled), (b \ off) \cup enabled)
  BY VerbsWire
<1>3. ASSUME NEW full
      PROVE  LET g == headset_amp_format_setup_disable(h, full)
             IN /\ HasBits(g, g.bits) /\ "slots_out" \notin g.bits
                /\ \A u \in Unit \ {"headphones"} :
                     Wired(u) \subseteq g.bits <=> Wired(u) \subseteq b
  <2> DEFINE off == {"slots_out", "pin2c", "clock_amps"}
                      \cup (IF full THEN {"pads_headset", "src_headset", "clock_headset", "gate"}
                            ELSE {})
             enabled == IF full THEN {} ELSE {"clock_headset", "gate"}
             d == (b \ off) \cup enabled
  <2>1. HasBits(headset_amp_format_setup_disable(h, full), d)
    <3> HIDE DEF off, enabled
    <3>1. HasBits(Put([h EXCEPT !.hw[\h0a] = Silent], off, enabled), d)
      BY <1>2
    <3> QED BY <3>1 DEF headset_amp_format_setup_disable, off, enabled
  <2>2. "slots_out" \notin d
    OBVIOUS
  <2>3. \A u \in Unit \ {"headphones"} : Wired(u) \subseteq d <=> Wired(u) \subseteq b
    BY DEF Unit, Wired
  <2> HIDE DEF d
  <2> QED BY <2>1, <2>2, <2>3 DEF HasBits
<1>4. HasBits(headset_amp_format_setup(h),
              b \cup {"slots_out", "pads_headset", "src_headset", "clock_headset", "gate", "pin2c"})
  <2>1. (b \ {}) \cup {"slots_out", "pads_headset", "src_headset", "clock_headset", "gate", "pin2c"}
          = b \cup {"slots_out", "pads_headset", "src_headset", "clock_headset", "gate", "pin2c"}
    OBVIOUS
  <2> QED BY <1>1, <2>1 DEF headset_amp_format_setup
<1> QED BY <1>1, <1>2, <1>3, <1>4
    DEF headset_mike_format_setup_enable, headset_mike_format_setup_disable,
        headset_amp_disable_and_mike_format_setup_disable

-----------------------------------------------------------------------------
(* What the functions leave of the sound's registers in the headset chip.  *)

\* The chip d has the registers of the sound of the chip c.
SameSound(c, d) ==
  /\ {"pll", "oscillator", "hp_muted", "buffers", "down", "mike_slots", "adc_muted"}
       \subseteq DOMAIN d
  /\ d.pll = c.pll /\ d.oscillator = c.oscillator
  /\ d.hp_muted = c.hp_muted /\ d.buffers = c.buffers /\ d.down = c.down
  /\ d.mike_slots = c.mike_slots /\ d.adc_muted = c.adc_muted

\* The functions of the jack leave them alone.
LEMMA JackKeepsSound ==
  ASSUME NEW c, NEW d, SameSound(c, d)
  PROVE  /\ SameSound(c, button_detect_interrupts_off(d))
         /\ SameSound(c, set_hpout_clamp_disable(d))
         /\ SameSound(c, complete_jack_detect(d))
         /\ SameSound(c, power_hs_bias_on(d))
         /\ SameSound(c, enable_hs_auto_int_on(d))
         /\ SameSound(c, unplug_interrupt_setup(d))
         /\ SameSound(c, set_hpout_pulldown_off(d))
         /\ SameSound(c, headset_detect_on(d))
         /\ SameSound(c, headset_detect_off(d))
         /\ SameSound(c, enable_hs_auto_int_off(d))
         /\ SameSound(c, set_hpout_pulldown_on(d))
         /\ SameSound(c, set_hpout_clamp_enable(d))
         /\ SameSound(c, headset_mike_detect_off(d))
         /\ SameSound(c, power_hs_bias_off(d))
         /\ SameSound(c, enable_hsbias_auto_clamp_on(d))
         /\ SameSound(c, enable_hsbias_auto_clamp_off(d))
         /\ SameSound(c, setup_button_detect(d))
         /\ SameSound(c, power_hs_bias_button_on(d))
         /\ SameSound(c, handle_button_detect(d))
         /\ SameSound(c, mike_connected(d))
         /\ SameSound(c, plugin_interrupt_setup(d))
         /\ SameSound(c, headset_detect2_off(d))
         /\ SameSound(c, disable_button_interrupts(d))
         /\ SameSound(c, unplug_headset_detect_off(d))
         /\ SameSound(c, headset_switch_control(d))
         /\ SameSound(c, configure_headset_button_interrupts(d))
         /\ SameSound(c, hsbias_sense_on(d))
<1> USE DEF SameSound
<1>1. /\ SameSound(c, button_detect_interrupts_off(d))
      /\ SameSound(c, set_hpout_clamp_disable(d))
      /\ SameSound(c, complete_jack_detect(d))
      /\ SameSound(c, power_hs_bias_on(d))
      /\ SameSound(c, enable_hs_auto_int_on(d))
      /\ SameSound(c, unplug_interrupt_setup(d))
  BY DEF button_detect_interrupts_off, set_hpout_clamp_disable, complete_jack_detect,
         power_hs_bias_on, enable_hs_auto_int_on, unplug_interrupt_setup
<1>2. /\ SameSound(c, set_hpout_pulldown_off(d))
      /\ SameSound(c, headset_detect_on(d))
      /\ SameSound(c, headset_detect_off(d))
      /\ SameSound(c, enable_hs_auto_int_off(d))
      /\ SameSound(c, set_hpout_pulldown_on(d))
      /\ SameSound(c, set_hpout_clamp_enable(d))
      /\ SameSound(c, headset_mike_detect_off(d))
  BY DEF set_hpout_pulldown_off, headset_detect_on, headset_detect_off,
         enable_hs_auto_int_off, set_hpout_pulldown_on, set_hpout_clamp_enable,
         headset_mike_detect_off
<1>3. /\ SameSound(c, power_hs_bias_off(d))
      /\ SameSound(c, enable_hsbias_auto_clamp_on(d))
      /\ SameSound(c, enable_hsbias_auto_clamp_off(d))
      /\ SameSound(c, setup_button_detect(d))
      /\ SameSound(c, power_hs_bias_button_on(d))
      /\ SameSound(c, handle_button_detect(d))
      /\ SameSound(c, mike_connected(d))
  BY DEF power_hs_bias_off, enable_hsbias_auto_clamp_on, enable_hsbias_auto_clamp_off,
         setup_button_detect, power_hs_bias_button_on, handle_button_detect, mike_connected
<1>4. /\ SameSound(c, plugin_interrupt_setup(d))
      /\ SameSound(c, headset_detect2_off(d))
      /\ SameSound(c, disable_button_interrupts(d))
      /\ SameSound(c, unplug_headset_detect_off(d))
      /\ SameSound(c, headset_switch_control(d))
      /\ SameSound(c, configure_headset_button_interrupts(d))
      /\ SameSound(c, hsbias_sense_on(d))
  BY DEF plugin_interrupt_setup, headset_detect2_off, disable_button_interrupts,
         unplug_headset_detect_off, headset_switch_control,
         configure_headset_button_interrupts, hsbias_sense_on
<1> HIDE DEF SameSound
<1> QED BY <1>1, <1>2, <1>3, <1>4

\* So do the jack events.
LEMMA EventsKeepSound ==
  ASSUME NEW c, NEW d, SameSound(c, d)
  PROVE  /\ SameSound(c, plugin_handle_detect(d))
         /\ SameSound(c, plugin_complete_detect(d))
         /\ \A mike : SameSound(c, headset_type_detect(d, mike))
         /\ SameSound(c, headset_button_detect(d))
         /\ SameSound(c, headset_mike_buttons_enable(d))
         /\ \A mike : SameSound(c, unplug_detect(d, mike))
         /\ SameSound(c, unplug_detect_end(d))
<1>1. SameSound(c, plugin_handle_detect(d)) /\ SameSound(c, plugin_complete_detect(d))
  BY JackKeepsSound DEF plugin_handle_detect, plugin_complete_detect
<1>2. \A mike : SameSound(c, headset_type_detect(d, mike))
  BY JackKeepsSound DEF headset_type_detect
<1>3. SameSound(c, headset_button_detect(d)) /\ SameSound(c, headset_mike_buttons_enable(d))
  BY JackKeepsSound DEF headset_button_detect, headset_mike_buttons_enable
<1>4. \A mike : SameSound(c, unplug_detect(d, mike))
  BY JackKeepsSound DEF unplug_detect
<1>5. SameSound(c, unplug_detect_end(d))
  BY JackKeepsSound DEF unplug_detect_end
<1> QED BY <1>1, <1>2, <1>3, <1>4, <1>5

\* The chip c has all the registers of the sound.
HasSound(c) == SameSound(c, c)

\* The parts of the chip that the headset's output and input turn on and off.
LEMMA SoundChips ==
  ASSUME NEW c, HasSound(c)
  PROVE  /\ LET d == headset_enable_on(set_power_state_on(headset_play_setup_on(c), FALSE))
            IN /\ HasSound(d) /\ Chipped(d, "clock") /\ Chipped(d, "headphones")
               /\ Chipped(d, "headset_mike") <=> Chipped(c, "headset_mike")
         /\ LET d == headset_disable(power_off_codec_output(headset_enable_off(c)))
            IN /\ HasSound(d) /\ ~Chipped(d, "clock") /\ ~Chipped(d, "headphones")
               /\ Chipped(d, "headset_mike") <=> Chipped(c, "headset_mike")
         /\ LET d == headset_mike_adc_unmutevol(set_power_state_on(mike_enable(
                       input_set_output_sample_rate(c)), TRUE), TRUE)
            IN /\ HasSound(d) /\ Chipped(d, "headset_mike")
               /\ Chipped(d, "clock") <=> Chipped(c, "clock")
               /\ Chipped(d, "headphones") <=> Chipped(c, "headphones")
         /\ LET d == mike_disable(power_off_codec_input(headset_mike_adc_unmutevol(c, FALSE)))
            IN /\ HasSound(d) /\ ~Chipped(d, "headset_mike")
               /\ Chipped(d, "clock") <=> Chipped(c, "clock")
               /\ Chipped(d, "headphones") <=> Chipped(c, "headphones")
<1> USE DEF HasSound, SameSound, Chipped, OutputBlock, InputBlock
<1>1. LET d == headset_enable_on(set_power_state_on(headset_play_setup_on(c), FALSE))
      IN /\ HasSound(d) /\ Chipped(d, "clock") /\ Chipped(d, "headphones")
         /\ Chipped(d, "headset_mike") <=> Chipped(c, "headset_mike")
  <2> DEFINE c1 == configure_serial_port(power_onoff(configure_int_mclk(c), TRUE))
             c2 == setup_audio_output(output_set_input_sample_rate(c1))
             c3 == buffers_onoff(c2, TRUE)
             d  == headset_enable_on(set_power_state_on(c3, FALSE))
  <2>1. /\ HasSound(c1) /\ c1.pll /\ c1.oscillator /\ c1.down = c.down
        /\ c1.mike_slots = c.mike_slots /\ c1.adc_muted = c.adc_muted
    BY DEF configure_serial_port, power_onoff, configure_int_mclk
  <2> HIDE DEF c1
  <2>2. /\ HasSound(c2) /\ c2.pll /\ c2.oscillator /\ c2.down = c.down
        /\ c2.mike_slots = c.mike_slots /\ c2.adc_muted = c.adc_muted
    BY <2>1 DEF setup_audio_output, output_set_input_sample_rate
  <2> HIDE DEF c2
  <2>3. /\ HasSound(c3) /\ c3.pll /\ c3.oscillator /\ c3.down = c.down /\ c3.buffers
        /\ c3.mike_slots = c.mike_slots /\ c3.adc_muted = c.adc_muted
    BY <2>2 DEF buffers_onoff
  <2> HIDE DEF c3
  <2>4. /\ HasSound(d) /\ d.pll /\ d.oscillator /\ d.down = c.down \ OutputBlock /\ d.buffers
        /\ ~d.hp_muted /\ d.mike_slots = c.mike_slots /\ d.adc_muted = c.adc_muted
    BY <2>3 DEF headset_enable_on, set_power_state_on
  <2>5. d = headset_enable_on(set_power_state_on(headset_play_setup_on(c), FALSE))
    BY DEF headset_play_setup_on, c1, c2, c3
  <2> HIDE DEF d
  <2> QED BY <2>4, <2>5
<1>2. LET d == headset_disable(power_off_codec_output(headset_enable_off(c)))
      IN /\ HasSound(d) /\ ~Chipped(d, "clock") /\ ~Chipped(d, "headphones")
         /\ Chipped(d, "headset_mike") <=> Chipped(c, "headset_mike")
  <2> DEFINE c1 == power_off_codec_output(headset_enable_off(c))
             d  == headset_disable(c1)
  <2>1. /\ HasSound(c1) /\ c1.down = c.down \cup OutputBlock
        /\ c1.mike_slots = c.mike_slots /\ c1.adc_muted = c.adc_muted
    BY DEF power_off_codec_output, headset_enable_off
  <2> HIDE DEF c1
  <2>2. /\ HasSound(d) /\ ~d.pll /\ ~d.buffers /\ d.down = c.down \cup OutputBlock
        /\ d.mike_slots = c.mike_slots /\ d.adc_muted = c.adc_muted
    BY <2>1 DEF headset_disable, power_onoff, buffers_onoff
  <2> HIDE DEF d
  <2>3. HasSound(d) /\ ~Chipped(d, "clock") /\ ~Chipped(d, "headphones")
    BY <2>2
  <2>4. Chipped(d, "headset_mike") <=> Chipped(c, "headset_mike")
    BY <2>2
  <2> QED BY <2>3, <2>4 DEF d, c1
<1>3. LET d == headset_mike_adc_unmutevol(set_power_state_on(mike_enable(
                 input_set_output_sample_rate(c)), TRUE), TRUE)
      IN /\ HasSound(d) /\ Chipped(d, "headset_mike")
         /\ Chipped(d, "clock") <=> Chipped(c, "clock")
         /\ Chipped(d, "headphones") <=> Chipped(c, "headphones")
  <2> DEFINE c1 == mike_enable(input_set_output_sample_rate(c))
             d  == headset_mike_adc_unmutevol(set_power_state_on(c1, TRUE), TRUE)
  <2>1. /\ HasSound(c1) /\ c1.pll = c.pll /\ c1.oscillator = c.oscillator /\ c1.mike_slots
        /\ c1.hp_muted = c.hp_muted /\ c1.buffers = c.buffers /\ c1.down = c.down
    BY DEF mike_enable, input_set_output_sample_rate
  <2> HIDE DEF c1
  <2>2. /\ HasSound(d) /\ d.pll = c.pll /\ d.oscillator = c.oscillator /\ d.mike_slots
        /\ d.hp_muted = c.hp_muted /\ d.buffers = c.buffers /\ d.down = c.down \ InputBlock
        /\ ~d.adc_muted
    BY <2>1 DEF headset_mike_adc_unmutevol, set_power_state_on
  <2> HIDE DEF d
  <2> QED BY <2>2 DEF d, c1
<1>4. LET d == mike_disable(power_off_codec_input(headset_mike_adc_unmutevol(c, FALSE)))
      IN /\ HasSound(d) /\ ~Chipped(d, "headset_mike")
         /\ Chipped(d, "clock") <=> Chipped(c, "clock")
         /\ Chipped(d, "headphones") <=> Chipped(c, "headphones")
  <2> DEFINE d == mike_disable(power_off_codec_input(headset_mike_adc_unmutevol(c, FALSE)))
  <2>1. /\ HasSound(d) /\ d.pll = c.pll /\ d.oscillator = c.oscillator /\ ~d.mike_slots
        /\ d.hp_muted = c.hp_muted /\ d.buffers = c.buffers /\ d.down = c.down \cup InputBlock
    BY DEF mike_disable, power_off_codec_input, headset_mike_adc_unmutevol
  <2> HIDE DEF d
  <2> QED BY <2>1 DEF d
<1> HIDE DEF HasSound, SameSound, Chipped, OutputBlock, InputBlock
<1> QED BY <1>1, <1>2, <1>3, <1>4

\* The parts that an unplug turns off.
LEMMA UnplugChips ==
  ASSUME NEW c, HasSound(c)
  PROVE  /\ \A mike :
              LET off(e) == power_off_codec_output(headset_enable_off(e))
                  c1 == buffers_onoff(off(c), FALSE)
                  d  == off(IF mike THEN c1 ELSE power_onoff(c1, FALSE))
              IN /\ HasSound(d) /\ ~Chipped(d, "headphones")
                 /\ Chipped(d, "clock") <=> mike /\ Chipped(c, "clock")
                 /\ Chipped(d, "headset_mike") <=> Chipped(c, "headset_mike")
         /\ LET d == power_onoff(mike_disable(c), FALSE)
            IN /\ HasSound(d) /\ ~Chipped(d, "clock") /\ ~Chipped(d, "headset_mike")
               /\ Chipped(d, "headphones") <=> Chipped(c, "headphones")
<1> USE DEF HasSound, SameSound, Chipped, OutputBlock, InputBlock
<1> DEFINE off(e) == power_off_codec_output(headset_enable_off(e))
<1>1. ASSUME NEW e, HasSound(e)
      PROVE  /\ HasSound(off(e)) /\ off(e).pll = e.pll /\ off(e).oscillator = e.oscillator
             /\ off(e).hp_muted /\ off(e).buffers = e.buffers
             /\ off(e).down = e.down \cup OutputBlock
             /\ off(e).mike_slots = e.mike_slots /\ off(e).adc_muted = e.adc_muted
  BY <1>1 DEF power_off_codec_output, headset_enable_off
<1>2. ASSUME NEW mike
      PROVE  LET c1 == buffers_onoff(off(c), FALSE)
                 d  == off(IF mike THEN c1 ELSE power_onoff(c1, FALSE))
             IN /\ HasSound(d) /\ ~Chipped(d, "headphones")
                /\ Chipped(d, "clock") <=> mike /\ Chipped(c, "clock")
                /\ Chipped(d, "headset_mike") <=> Chipped(c, "headset_mike")
  <2> DEFINE c1 == buffers_onoff(off(c), FALSE)
             c2 == IF mike THEN c1 ELSE power_onoff(c1, FALSE)
             d  == off(c2)
  <2>1. /\ HasSound(off(c)) /\ off(c).pll = c.pll /\ off(c).oscillator = c.oscillator
        /\ off(c).down = c.down \cup OutputBlock
        /\ off(c).mike_slots = c.mike_slots /\ off(c).adc_muted = c.adc_muted
    BY <1>1
  <2> HIDE DEF off
  <2>2. /\ HasSound(c1) /\ c1.pll = c.pll /\ c1.oscillator = c.oscillator
        /\ c1.down = c.down \cup OutputBlock
        /\ c1.mike_slots = c.mike_slots /\ c1.adc_muted = c.adc_muted
    BY <2>1 DEF buffers_onoff
  <2> HIDE DEF c1
  <2>3. /\ HasSound(c2) /\ c2.down = c.down \cup OutputBlock
        /\ mike => c2.pll = c.pll /\ c2.oscillator = c.oscillator
        /\ ~mike => ~c2.pll
        /\ c2.mike_slots = c.mike_slots /\ c2.adc_muted = c.adc_muted
    BY <2>2 DEF power_onoff
  <2> HIDE DEF c2
  <2>4. /\ HasSound(d) /\ d.hp_muted /\ d.down = c.down \cup OutputBlock
        /\ mike => d.pll = c.pll /\ d.oscillator = c.oscillator
        /\ ~mike => ~d.pll
        /\ d.mike_slots = c.mike_slots /\ d.adc_muted = c.adc_muted
    BY <2>3, <1>1
  <2> HIDE DEF d
  <2>5. /\ HasSound(d) /\ ~Chipped(d, "headphones")
        /\ Chipped(d, "clock") <=> mike /\ Chipped(c, "clock")
    BY <2>4
  <2>6. Chipped(d, "headset_mike") <=> Chipped(c, "headset_mike")
    BY <2>4
  <2> QED BY <2>5, <2>6 DEF d, c2, c1
<1>3. LET d == power_onoff(mike_disable(c), FALSE)
      IN /\ HasSound(d) /\ ~Chipped(d, "clock") /\ ~Chipped(d, "headset_mike")
         /\ Chipped(d, "headphones") <=> Chipped(c, "headphones")
  BY DEF power_onoff, mike_disable
<1> HIDE DEF HasSound, SameSound, Chipped, OutputBlock, InputBlock
<1> QED BY <1>2, <1>3

-----------------------------------------------------------------------------
(* The units that the registers make up.                                   *)

\* The units all of whose registers are on in the hardware h.
Lit(h) == {u \in Unit : Wired(u) \subseteq h.bits /\ Chipped(h.chip, u)}

Whole(h) == {"bits", "chip"} \subseteq DOMAIN h /\ HasSound(h.chip)

\* A function that writes nothing but fields outside every unit.
LEMMA LitKept ==
  ASSUME NEW g, NEW h, Whole(h), NEW c, NEW b, HasChip(g, c), HasBits(g, b), SameSound(h.chip, c),
         \A u \in Unit : Wired(u) \subseteq b <=> Wired(u) \subseteq h.bits
  PROVE  Whole(g) /\ Lit(g) = Lit(h)
<1>1. HasSound(c) /\ \A u \in Unit : Chipped(c, u) <=> Chipped(h.chip, u)
  BY DEF HasSound, SameSound, Chipped, Unit
<1> QED BY <1>1 DEF Whole, Lit, HasChip, HasBits

\* The function group's power and the streams belong to no unit.
LEMMA StreamsKeepUnits ==
  ASSUME NEW h, Whole(h)
  PROVE  /\ Whole(Put(h, {}, {"afg"})) /\ Lit(Put(h, {}, {"afg"})) = Lit(h)
         /\ Whole(Put(h, {"afg"}, {})) /\ Lit(Put(h, {"afg"}, {})) = Lit(h)
         /\ \A n, tag, fmt : /\ Whole(store_stream_format(h, n, tag, fmt))
                             /\ Lit(store_stream_format(h, n, tag, fmt)) = Lit(h)
         /\ \A n, tag, ch, fmt : /\ Whole(setup_stream(h, n, tag, ch, fmt))
                                 /\ Lit(setup_stream(h, n, tag, ch, fmt)) = Lit(h)
         /\ \A fmt : Whole(store_playback(h, fmt)) /\ Lit(store_playback(h, fmt)) = Lit(h)
<1>1. HasBits(h, h.bits) /\ HasChip(h, h.chip) /\ SameSound(h.chip, h.chip)
  BY DEF Whole, HasBits, HasChip, HasSound
<1>2. ASSUME NEW g, HasBits(g, h.bits), HasChip(g, h.chip)
      PROVE  Whole(g) /\ Lit(g) = Lit(h)
  BY <1>1, <1>2, LitKept
<1>3. ASSUME NEW off \in SUBSET {"afg"}, NEW enabled \in SUBSET {"afg"}
      PROVE  Whole(Put(h, off, enabled)) /\ Lit(Put(h, off, enabled)) = Lit(h)
  <2>1. \A u \in Unit : Wired(u) \subseteq (h.bits \ off) \cup enabled <=> Wired(u) \subseteq h.bits
    BY DEF Unit, Wired
  <2>2. /\ HasBits(Put(h, off, enabled), (h.bits \ off) \cup enabled)
        /\ HasChip(Put(h, off, enabled), h.chip)
    BY <1>1, VerbsWire, VerbsSpare
  <2> QED BY <1>1, <2>1, <2>2, LitKept
<1>4. ASSUME NEW fmt
      PROVE  Whole(store_playback(h, fmt)) /\ Lit(store_playback(h, fmt)) = Lit(h)
  <2> DEFINE store(g, n) == store_stream_format(g, n, Tag(n), fmt)
             k == store(store(store(h, \h02), \h03), \h0a)
  <2>1. HasBits(k, h.bits) /\ HasChip(k, h.chip)
    BY <1>1, StoreWires, StoreSpares
  <2>2. /\ HasBits([k EXCEPT !.channels = IF fmt = \h4031 THEN 2 ELSE 4], h.bits)
        /\ HasChip([k EXCEPT !.channels = IF fmt = \h4031 THEN 2 ELSE 4], h.chip)
    <3> HIDE DEF k
    <3> QED BY <2>1 DEF HasBits, HasChip
  <2> QED BY <1>2, <2>2 DEF store_playback
<1>5. \A n, tag, fmt : /\ HasBits(store_stream_format(h, n, tag, fmt), h.bits)
                       /\ HasChip(store_stream_format(h, n, tag, fmt), h.chip)
  BY <1>1, StoreWires, StoreSpares
<1>6. \A n, tag, ch, fmt : /\ HasBits(setup_stream(h, n, tag, ch, fmt), h.bits)
                           /\ HasChip(setup_stream(h, n, tag, ch, fmt), h.chip)
  BY <1>1, SetUpWires, SetUpSpares
<1> QED BY <1>2, <1>3, <1>4, <1>5, <1>6

\* An access to the chip.
LEMMA OnChipUnits ==
  ASSUME NEW h, Whole(h), NEW c, SameSound(h.chip, c)
  PROVE  Whole(OnChip(h, c)) /\ Lit(OnChip(h, c)) = Lit(h)
<1>1. HasChip(OnChip(h, c), c) /\ HasBits(OnChip(h, c), h.bits \cup {"afg"})
  BY DEF Whole, HasChip, HasBits, OnChip, Put
<1>2. \A u \in Unit : Wired(u) \subseteq h.bits \cup {"afg"} <=> Wired(u) \subseteq h.bits
  BY DEF Unit, Wired
<1> QED BY <1>1, <1>2, LitKept

\* The speakers.
LEMMA SpeakerUnits ==
  ASSUME NEW h, Whole(h)
  PROVE  /\ Whole(play(h)) /\ Lit(play(h)) = Lit(h) \cup {"speakers"}
         /\ Whole(amps_disable_streaming(h))
         /\ Lit(amps_disable_streaming(h)) = Lit(h) \ {"speakers"}
<1> DEFINE off == SpeakerBit \cup {"src_headset", "clock_headset"}
<1>1. HasBits(h, h.bits) /\ HasChip(h, h.chip)
  BY DEF Whole, HasBits, HasChip
<1>2. /\ HasBits(play(h), h.bits \cup SpeakerBit) /\ HasChip(play(h), h.chip)
      /\ HasBits(amps_disable_streaming(h), h.bits \ off)
      /\ HasChip(amps_disable_streaming(h), h.chip)
  BY <1>1, SpeakersWire, SpeakersSpare
<1>3. \A u \in Unit : Wired(u) \subseteq h.bits \cup SpeakerBit
                        <=> u = "speakers" \/ Wired(u) \subseteq h.bits
  BY DEF Unit, Wired, SpeakerBit
<1>4. \A u \in Unit : Wired(u) \subseteq h.bits \ off
                        <=> u # "speakers" /\ Wired(u) \subseteq h.bits
  BY DEF Unit, Wired, SpeakerBit
<1>5. Chipped(h.chip, "speakers")
  BY DEF Chipped
<1> HIDE DEF off
<1>6. Lit(play(h)) = Lit(h) \cup {"speakers"}
  BY <1>2, <1>3, <1>5 DEF Lit, HasBits, HasChip, Unit
<1>7. Lit(amps_disable_streaming(h)) = Lit(h) \ {"speakers"}
  BY <1>2, <1>4 DEF Lit, HasBits, HasChip
<1> QED BY <1>2, <1>6, <1>7 DEF Whole, HasBits, HasChip

\* The internal inputs.
LEMMA InputUnits ==
  ASSUME NEW h, Whole(h)
  PROVE  /\ Whole(capture(h)) /\ Lit(capture(h)) = Lit(h) \cup {"internal_mike"}
         /\ Whole(capturestop(h)) /\ Lit(capturestop(h)) = Lit(h) \ {"internal_mike"}
         /\ Whole(inputs_power_nids_off(h))
         /\ Lit(inputs_power_nids_off(h)) = Lit(h) \ {"internal_mike"}
         /\ Whole(intmike_linein_disable(h))
         /\ Lit(intmike_linein_disable(h)) = Lit(h) \ {"internal_mike"}
         /\ Whole(inputs_power_nids_off(intmike_linein_resetup(h)))
         /\ Lit(inputs_power_nids_off(intmike_linein_resetup(h))) = Lit(h) \ {"internal_mike"}
<1>1. HasBits(h, h.bits) /\ HasChip(h, h.chip) /\ ButInputs(h, h.bits)
  BY DEF Whole, HasBits, HasChip, ButInputs
<1>2. ASSUME NEW g, ButInputs(g, h.bits), HasChip(g, h.chip)
      PROVE  /\ Whole(g)
             /\ MikeBit \subseteq g.bits => Lit(g) = Lit(h) \cup {"internal_mike"}
             /\ "intmike" \notin g.bits => Lit(g) = Lit(h) \ {"internal_mike"}
  <2>1. \A x : x \notin InputBit => (x \in g.bits <=> x \in h.bits)
    BY <1>2 DEF ButInputs
  <2>2. \A u \in Unit \ {"internal_mike"} : Wired(u) \cap InputBit = {}
    BY DEF Unit, Wired, InputBit, MikeBit
  <2>3. \A u \in Unit \ {"internal_mike"} : Wired(u) \subseteq g.bits <=> Wired(u) \subseteq h.bits
    BY <2>1, <2>2
  <2>4. /\ Wired("internal_mike") = MikeBit /\ "intmike" \in MikeBit
        /\ Chipped(h.chip, "internal_mike")
    BY DEF Wired, MikeBit, Chipped
  <2> QED BY <1>2, <2>3, <2>4 DEF Whole, Lit, ButInputs, HasChip, Unit
<1>3. /\ ButInputs(capture(h), h.bits) /\ HasChip(capture(h), h.chip)
      /\ MikeBit \subseteq capture(h).bits
  BY <1>1, InputsWire, InputsSpare, InputsEnd
<1>4. /\ ButInputs(capturestop(h), h.bits) /\ HasChip(capturestop(h), h.chip)
      /\ "intmike" \notin capturestop(h).bits
  BY <1>1, InputsWire, InputsSpare, InputsEnd
<1>5. /\ ButInputs(inputs_power_nids_off(h), h.bits) /\ HasChip(inputs_power_nids_off(h), h.chip)
      /\ "intmike" \notin inputs_power_nids_off(h).bits
  BY <1>1, InputsWire, InputsSpare, InputsEnd
<1>6. /\ ButInputs(intmike_linein_disable(h), h.bits) /\ HasChip(intmike_linein_disable(h), h.chip)
      /\ "intmike" \notin intmike_linein_disable(h).bits
  BY <1>1, InputsWire, InputsSpare, InputsEnd
<1>7. LET g == inputs_power_nids_off(intmike_linein_resetup(h))
      IN ButInputs(g, h.bits) /\ HasChip(g, h.chip) /\ "intmike" \notin g.bits
  <2> DEFINE k == intmike_linein_resetup(h)
  <2>1. ButInputs(k, h.bits) /\ HasChip(k, h.chip)
    BY <1>1, InputsWire, InputsSpare
  <2> HIDE DEF k
  <2>2. HasBits(k, k.bits)
    BY <2>1 DEF ButInputs, HasBits
  <2>3. /\ ButInputs(inputs_power_nids_off(k), h.bits) /\ HasChip(inputs_power_nids_off(k), h.chip)
        /\ "intmike" \notin inputs_power_nids_off(k).bits
    BY <2>1, <2>2, InputsWire, InputsSpare, InputsEnd
  <2> QED BY <2>3 DEF k
<1> QED BY <1>2, <1>3, <1>4, <1>5, <1>6, <1>7

\* An access that sets the chip to c.
LEMMA OnChipSets ==
  ASSUME NEW g, NEW b, HasBits(g, b), NEW d, HasChip(g, d), NEW c
  PROVE  HasBits(OnChip(g, c), b \cup {"afg"}) /\ HasChip(OnChip(g, c), c)
BY DEF HasBits, HasChip, OnChip, Put

\* The headset's output and input.
LEMMA HeadsetUnits ==
  ASSUME NEW h, Whole(h)
  PROVE  /\ Whole(enable_headset_streaming(h))
         /\ Lit(enable_headset_streaming(h)) = Lit(h) \cup HeadphonesOn
         /\ Whole(disable_headset_streaming(h))
         /\ Lit(disable_headset_streaming(h)) = Lit(h) \ HeadphonesOn
         /\ Whole(enable_headset_mike_streaming(h))
         /\ Lit(enable_headset_mike_streaming(h)) = Lit(h) \cup {"headset_mike"}
         /\ Whole(disable_headset_mike_streaming(h))
         /\ Lit(disable_headset_mike_streaming(h)) = Lit(h) \ {"headset_mike"}
<1> USE DEF HeadphonesOn
<1>1. HasBits(h, h.bits) /\ HasChip(h, h.chip) /\ HasSound(h.chip)
  BY DEF Whole, HasBits, HasChip
<1>2. \A c, d : \A u \in {"speakers", "internal_mike"} : Chipped(c, u) <=> Chipped(d, u)
  BY DEF Chipped
<1>3. /\ Whole(enable_headset_streaming(h))
      /\ Lit(enable_headset_streaming(h)) = Lit(h) \cup HeadphonesOn
  <2> DEFINE c == headset_enable_on(set_power_state_on(headset_play_setup_on(h.chip), FALSE))
             on_bits == {"slots_out", "pads_headset", "src_headset",
                         "clock_headset", "gate", "pin2c"}
             b == (h.bits \cup on_bits) \cup {"afg"}
  <2>1. /\ HasSound(c) /\ Chipped(c, "clock") /\ Chipped(c, "headphones")
        /\ Chipped(c, "headset_mike") <=> Chipped(h.chip, "headset_mike")
    BY <1>1, SoundChips
  <2>2. HasBits(enable_headset_streaming(h), b) /\ HasChip(enable_headset_streaming(h), c)
    <3> DEFINE g == headset_amp_format_setup(h)
    <3>1. enable_headset_streaming(h) = OnChip(g, c)
      BY DEF enable_headset_streaming
    <3>2. HasBits(g, h.bits \cup on_bits) /\ HasChip(g, h.chip)
      BY <1>1, HeadsetWires, HeadsetSpares
    <3> HIDE DEF g, c, on_bits
    <3> QED BY <3>1, <3>2, OnChipSets
  <2>3. \A u \in Unit : Wired(u) \subseteq b <=> u = "headphones" \/ Wired(u) \subseteq h.bits
    BY DEF Unit, Wired
  <2>4. Wired("clock") = {}
    BY DEF Wired
  <2> HIDE DEF c, b
  <2> QED BY <2>1, <2>2, <2>3, <2>4, <1>2 DEF Whole, Lit, HasBits, HasChip, Unit
<1>4. /\ Whole(disable_headset_streaming(h))
      /\ Lit(disable_headset_streaming(h)) = Lit(h) \ HeadphonesOn
  <2> DEFINE c == headset_disable(power_off_codec_output(headset_enable_off(h.chip)))
             g == OnChip(h, c)
  <2>1. /\ HasSound(c) /\ ~Chipped(c, "clock") /\ ~Chipped(c, "headphones")
        /\ Chipped(c, "headset_mike") <=> Chipped(h.chip, "headset_mike")
    BY <1>1, SoundChips
  <2>2. HasBits(g, h.bits \cup {"afg"}) /\ HasChip(g, c)
    BY <1>1, OnChipSets
  <2> HIDE DEF g, c
  <2> DEFINE b == headset_amp_format_setup_disable(g, TRUE).bits
  <2>3. /\ HasBits(headset_amp_format_setup_disable(g, TRUE), b)
        /\ \A u \in Unit \ {"headphones"} :
             Wired(u) \subseteq b <=> Wired(u) \subseteq h.bits \cup {"afg"}
    BY <2>2, HeadsetWires
  <2> HIDE DEF b
  <2>4. HasBits(disable_headset_streaming(h), b) /\ HasChip(disable_headset_streaming(h), c)
    BY <2>2, <2>3, HeadsetSpares DEF disable_headset_streaming, g, c
  <2>5. \A u \in Unit \ {"headphones"} : Wired(u) \subseteq b <=> Wired(u) \subseteq h.bits
    BY <2>3 DEF Unit, Wired
  <2> QED BY <2>1, <2>4, <2>5, <1>2 DEF Whole, Lit, HasBits, HasChip, Unit
<1>5. /\ Whole(enable_headset_mike_streaming(h))
      /\ Lit(enable_headset_mike_streaming(h)) = Lit(h) \cup {"headset_mike"}
  <2> DEFINE c == headset_mike_adc_unmutevol(set_power_state_on(mike_enable(
                    input_set_output_sample_rate(h.chip)), TRUE), TRUE)
             b == ((h.bits \ {"clock_amps"}) \cup {"slots_in", "clock_headset", "gate", "pin3c"})
                    \cup {"afg"}
  <2>1. /\ HasSound(c) /\ Chipped(c, "headset_mike")
        /\ Chipped(c, "clock") <=> Chipped(h.chip, "clock")
        /\ Chipped(c, "headphones") <=> Chipped(h.chip, "headphones")
    BY <1>1, SoundChips
  <2>2. HasBits(enable_headset_mike_streaming(h), b) /\ HasChip(enable_headset_mike_streaming(h), c)
    <3> DEFINE g == headset_mike_format_setup_enable(h)
               d == (h.bits \ {"clock_amps"}) \cup {"slots_in", "clock_headset", "gate", "pin3c"}
    <3>1. enable_headset_mike_streaming(h) = OnChip(g, c)
      BY DEF enable_headset_mike_streaming
    <3>2. HasBits(g, d) /\ HasChip(g, h.chip)
      BY <1>1, HeadsetWires, HeadsetSpares
    <3> HIDE DEF g, c, d
    <3>3. HasBits(OnChip(g, c), d \cup {"afg"}) /\ HasChip(OnChip(g, c), c)
      BY <3>2, OnChipSets
    <3> QED BY <3>1, <3>3 DEF d
  <2>3. \A u \in Unit : Wired(u) \subseteq b <=> u = "headset_mike" \/ Wired(u) \subseteq h.bits
    BY DEF Unit, Wired
  <2> HIDE DEF c, b
  <2> QED BY <2>1, <2>2, <2>3, <1>2 DEF Whole, Lit, HasBits, HasChip, Unit
<1>6. /\ Whole(disable_headset_mike_streaming(h))
      /\ Lit(disable_headset_mike_streaming(h)) = Lit(h) \ {"headset_mike"}
  <2> DEFINE c == mike_disable(power_off_codec_input(headset_mike_adc_unmutevol(h.chip, FALSE)))
             g == OnChip(h, c)
             b == ((h.bits \cup {"afg"}) \ {"slots_in", "pin3c"}) \cup {"gate"}
  <2>1. /\ HasSound(c) /\ ~Chipped(c, "headset_mike")
        /\ Chipped(c, "clock") <=> Chipped(h.chip, "clock")
        /\ Chipped(c, "headphones") <=> Chipped(h.chip, "headphones")
    BY <1>1, SoundChips
  <2>2. HasBits(g, h.bits \cup {"afg"}) /\ HasChip(g, c)
    BY <1>1, OnChipSets
  <2>3. /\ HasBits(disable_headset_mike_streaming(h), b)
        /\ HasChip(disable_headset_mike_streaming(h), c)
    <3>1. disable_headset_mike_streaming(h) = headset_mike_format_setup_disable(g)
      BY DEF disable_headset_mike_streaming
    <3> DEFINE d == h.bits \cup {"afg"}
    <3> HIDE DEF g, c, d
    <3>2. HasBits(g, d) /\ HasChip(g, c)
      BY <2>2 DEF d
    <3>3. /\ HasBits(headset_mike_format_setup_disable(g),
                     (d \ {"slots_in", "pin3c"}) \cup {"gate"})
          /\ HasChip(headset_mike_format_setup_disable(g), c)
      BY <3>2, HeadsetWires, HeadsetSpares
    <3> QED BY <3>1, <3>3 DEF d
  <2>4. \A u \in Unit \ {"headset_mike"} : Wired(u) \subseteq b <=> Wired(u) \subseteq h.bits
    BY DEF Unit, Wired
  <2> HIDE DEF c, b
  <2> QED BY <2>1, <2>3, <2>4, <1>2 DEF Whole, Lit, HasBits, HasChip, Unit
<1> QED BY <1>3, <1>4, <1>5, <1>6

\* What an unplug turns off.
LEMMA UnplugUnits ==
  ASSUME NEW h, Whole(h)
  PROVE  /\ \A mike : /\ Whole(unplug_headset_output(h, mike))
                      /\ Lit(unplug_headset_output(h, mike))
                           = Lit(h) \ (IF mike THEN {"headphones"} ELSE HeadphonesOn)
         /\ Whole(unplug_headset_input(h))
         /\ Lit(unplug_headset_input(h)) = Lit(h) \ {"clock", "headset_mike", "internal_mike"}
<1> USE DEF HeadphonesOn
<1>1. HasBits(h, h.bits) /\ HasChip(h, h.chip) /\ HasSound(h.chip)
  BY DEF Whole, HasBits, HasChip
<1>2. \A c, d : \A u \in {"speakers", "internal_mike"} : Chipped(c, u) <=> Chipped(d, u)
  BY DEF Chipped
<1>3. ASSUME NEW mike
      PROVE  /\ Whole(unplug_headset_output(h, mike))
             /\ Lit(unplug_headset_output(h, mike))
                  = Lit(h) \ (IF mike THEN {"headphones"} ELSE HeadphonesOn)
  <2> DEFINE off(e) == power_off_codec_output(headset_enable_off(e))
             c1 == buffers_onoff(off(h.chip), FALSE)
             c  == off(IF mike THEN c1 ELSE power_onoff(c1, FALSE))
             g  == headset_amp_format_setup_disable(h, ~mike)
  <2>1. /\ HasSound(c) /\ ~Chipped(c, "headphones")
        /\ Chipped(c, "clock") <=> mike /\ Chipped(h.chip, "clock")
        /\ Chipped(c, "headset_mike") <=> Chipped(h.chip, "headset_mike")
    BY <1>1, UnplugChips
  <2> DEFINE b == g.bits
  <2>2. /\ HasBits(g, b)
        /\ \A u \in Unit \ {"headphones"} : Wired(u) \subseteq b <=> Wired(u) \subseteq h.bits
    BY <1>1, HeadsetWires
  <2>3. HasChip(g, h.chip)
    BY <1>1, HeadsetSpares
  <2>4. unplug_headset_output(h, mike) = OnChip(g, c)
    BY DEF unplug_headset_output
  <2> HIDE DEF g, c, b
  <2>5. /\ HasBits(unplug_headset_output(h, mike), b \cup {"afg"})
        /\ HasChip(unplug_headset_output(h, mike), c)
    BY <2>2, <2>3, <2>4, OnChipSets
  <2>6. \A u \in Unit \ {"headphones"} :
          Wired(u) \subseteq b \cup {"afg"} <=> Wired(u) \subseteq h.bits
    BY <2>2 DEF Unit, Wired
  <2> QED BY <2>1, <2>5, <2>6, <1>2 DEF Whole, Lit, HasBits, HasChip, Unit
<1>4. /\ Whole(unplug_headset_input(h))
      /\ Lit(unplug_headset_input(h)) = Lit(h) \ {"clock", "headset_mike", "internal_mike"}
  <2> DEFINE c == power_onoff(mike_disable(h.chip), FALSE)
             g == OnChip(h, c)
             k == headset_amp_disable_and_mike_format_setup_disable(g)
             b == ((h.bits \cup {"afg"})
                    \ {"slots_in", "pin3c", "pads_headset", "src_headset"}) \cup {"gate"}
  <2>1. /\ HasSound(c) /\ ~Chipped(c, "clock") /\ ~Chipped(c, "headset_mike")
        /\ Chipped(c, "headphones") <=> Chipped(h.chip, "headphones")
    BY <1>1, UnplugChips
  <2>2. HasBits(g, h.bits \cup {"afg"}) /\ HasChip(g, c)
    BY <1>1, OnChipSets
  <2> HIDE DEF g, c
  <2>3. HasBits(k, b) /\ HasChip(k, c)
    BY <2>2, HeadsetWires, HeadsetSpares
  <2>4. \A u \in Unit \ {"headset_mike"} : Wired(u) \subseteq b <=> Wired(u) \subseteq h.bits
    BY DEF Unit, Wired
  <2>5. unplug_headset_input(h) = inputs_power_nids_off(intmike_linein_resetup(k))
    BY DEF unplug_headset_input, k, g, c
  <2> HIDE DEF k, b
  <2>6. Whole(k) /\ Lit(k) = Lit(h) \ {"clock", "headset_mike"}
    BY <2>1, <2>3, <2>4, <1>2 DEF Whole, Lit, HasBits, HasChip, Unit
  <2> QED BY <2>5, <2>6, InputUnits
<1> QED BY <1>3, <1>4

\* After the boot nothing is on.
LEMMA BootUnits ==
  ASSUME NEW plugged, NEW mike
  PROVE  LET h == boot_setup(plugged, mike) IN Whole(h) /\ Lit(h) = {}
<1> DEFINE h1 == boot_intmike(reset)
           h2 == IF plugged THEN boot_headset(h1, mike) ELSE boot_amps(h1)
           h3 == IF plugged /\ mike THEN boot_headset_mike(h2) ELSE h2
           h4 == really_update_stream_format(volume_unmute(h3), \h22, 0, 0)
           \* What is so from the reset on.
           Silenced(h) == /\ Whole(h) /\ "slots12" \notin h.bits
                          /\ ~h.chip.pll /\ h.chip.down = Block
<1>1. ASSUME NEW g, NEW h, Silenced(h), HasChip(g, h.chip), ButInputs(g, h.bits)
      PROVE  Silenced(g)
  <2>1. "slots12" \in g.bits => "slots12" \in h.bits
    BY <1>1 DEF ButInputs, InputBit, MikeBit
  <2> QED BY <1>1, <2>1 DEF HasChip, ButInputs, Whole
<1>2. ASSUME NEW h, Silenced(h)
      PROVE  HasBits(h, h.bits) /\ HasChip(h, h.chip) /\ ButInputs(h, h.bits)
  BY <1>2 DEF HasBits, HasChip, ButInputs, Whole
<1>3. ASSUME NEW h, Silenced(h), NEW c, SameSound(h.chip, c)
      PROVE  Silenced(OnChip(h, c))
  <2>1. HasBits(OnChip(h, c), h.bits \cup {"afg"}) /\ HasChip(OnChip(h, c), c)
    BY <1>2, <1>3, OnChipSets
  <2> QED BY <1>3, <2>1 DEF HasBits, HasChip, Whole, HasSound, SameSound
<1>4. Silenced(h1)
  <2>1. Silenced(reset)
    BY DEF Whole, HasSound, SameSound, reset, inithw
  <2> QED BY <1>1, <1>2, <2>1, InputsWire, InputsSpare
<1> HIDE DEF h1
<1>5. Silenced(boot_headset(h1, mike))
  <2> DEFINE c == headset_type_detect(plugin_complete_detect(plugin_handle_detect(h1.chip)), mike)
             d == IF mike THEN headset_button_detect(c) ELSE c
  <2>1. SameSound(h1.chip, h1.chip)
    BY <1>4 DEF Whole, HasSound
  <2>2. SameSound(h1.chip, c)
    BY <2>1, EventsKeepSound
  <2> HIDE DEF c
  <2>3. SameSound(h1.chip, d)
    BY <2>2, EventsKeepSound
  <2>4. boot_headset(h1, mike) = OnChip(h1, d)
    BY DEF boot_headset, c
  <2> HIDE DEF d
  <2> QED BY <1>3, <1>4, <2>3, <2>4
<1>6. Silenced(boot_amps(h1))
  <2>1. HasChip(boot_amps(h1), h1.chip)
    BY <1>2, <1>4, SpeakersSpare
  <2>2. \E d : HasBits(boot_amps(h1), d) /\ d \cap {"slots12"} = {}
    BY <1>2, <1>4, SpeakersWire
  <2> QED BY <1>4, <2>1, <2>2 DEF HasBits, HasChip, Whole
<1>7. Silenced(h2)
  BY <1>5, <1>6
<1> HIDE DEF h2
<1>8. Silenced(boot_headset_mike(h2))
  <2> DEFINE k == intmike_linein_disable(h2)
             g == headset_mike_format_setup_enable(k)
             b == (k.bits \ {"clock_amps"}) \cup {"slots_in", "clock_headset", "gate", "pin3c"}
             c == mike_enable(input_set_output_sample_rate(g.chip))
  <2>1. Silenced(k)
    BY <1>1, <1>2, <1>7, InputsWire, InputsSpare
  <2> HIDE DEF k
  <2>2. HasBits(g, b) /\ HasChip(g, k.chip)
    BY <1>2, <2>1, HeadsetWires, HeadsetSpares
  <2> HIDE DEF g
  <2>3. Silenced(g)
    BY <2>1, <2>2 DEF HasBits, HasChip, Whole
  <2>4. HasSound(c) /\ ~c.pll /\ c.down = Block
    BY <2>3 DEF Whole, HasSound, SameSound, mike_enable, input_set_output_sample_rate
  <2> DEFINE d == headset_mike_buttons_enable(c)
  <2>5. boot_headset_mike(h2) = OnChip(g, d)
    BY DEF boot_headset_mike, g, k
  <2> HIDE DEF c
  <2>6. SameSound(c, d)
    BY <2>4, EventsKeepSound DEF HasSound
  <2> HIDE DEF d
  <2>7. HasBits(OnChip(g, d), g.bits \cup {"afg"}) /\ HasChip(OnChip(g, d), d)
    BY <1>2, <2>3, OnChipSets
  <2> QED BY <2>3, <2>4, <2>5, <2>6, <2>7 DEF HasBits, HasChip, Whole, HasSound, SameSound
<1>9. Silenced(h3)
  BY <1>7, <1>8
<1> HIDE DEF h3
<1>10. Silenced(h4)
  <2> DEFINE g == volume_unmute(h3)
  <2>1. ButInputs(g, h3.bits) /\ HasChip(g, h3.chip)
    BY <1>2, <1>9, InputsWire, VerbsSpare DEF volume_unmute
  <2> HIDE DEF g
  <2>2. Silenced(g)
    BY <1>1, <1>9, <2>1
  <2>3. HasBits(h4, g.bits) /\ HasChip(h4, g.chip)
    BY <1>2, <2>2, StoreWires, StoreSpares DEF g
  <2>4. ButInputs(h4, g.bits)
    BY <2>3 DEF HasBits, ButInputs
  <2> QED BY <1>1, <2>2, <2>3, <2>4
<1> HIDE DEF h4
<1>11. Silenced(boot_inputs_off(h4)) /\ "intmike" \notin boot_inputs_off(h4).bits
  BY <1>1, <1>2, <1>10, InputsWire, InputsSpare, InputsEnd
<1>12. boot_setup(plugged, mike) = boot_inputs_off(h4)
  BY DEF boot_setup, h1, h2, h3, h4
<1>13. ASSUME NEW h, Silenced(h), "intmike" \notin h.bits
       PROVE  Lit(h) = {}
  <2>1. "asp_in" \in Block \cap OutputBlock /\ "adc" \in Block \cap InputBlock
    BY DEF Block, OutputBlock, InputBlock
  <2>2. \A u \in {"clock", "headphones", "headset_mike"} : ~Chipped(h.chip, u)
    BY <1>13, <2>1 DEF Chipped
  <2>3. "slots12" \in Wired("speakers") /\ "intmike" \in Wired("internal_mike")
    BY DEF Wired
  <2> QED BY <1>13, <2>2, <2>3 DEF Lit, Unit
<1> HIDE DEF Silenced
<1>14. Whole(boot_inputs_off(h4))
  BY <1>11 DEF Silenced
<1> QED BY <1>11, <1>12, <1>13, <1>14

-----------------------------------------------------------------------------
(* StreamPath implements AudioRoute.                                       *)

\* Every action takes the step of AudioRoute that it is named after.
LEMMA RouteStep == [PathNext]_pathVars => [Next]_vars
<1> SUFFICES ASSUME [PathNext]_pathVars PROVE [Next]_vars
  OBVIOUS
<1> USE DEF Next
<1>1. CASE WorkerStep
  BY <1>1
<1>2. CASE MovePlug
  BY <1>2
<1>3. CASE PathEventStep
  <2>1. EventStep
    BY <1>3
    DEF PathEventStep, EventStep, Plugged, PathPluginHandleDetect, PathPluginCompleteDetect,
        PathTypeDetectEvent, PathButtonDetectEvent, PathPluginWhilePlaying, PathPluginInputs,
        PathUnplugEvent, PathUnplugHeadsetOff, PathUnplugAmpsOn
  <2> QED BY <2>1
<1>4. CASE PathPcmStep
  <2>1. PcmStep
    BY <1>4
    DEF PathPcmStep, PcmStep, PathHeadsetOutputOn, PathHeadsetInputOn, PathHeadsetInputOff,
        PathHeadsetOutputOff, PathInternalSetUp, PathInternalCleanUp, PathHookUnblock
  <2> QED BY <2>1
<1>5. ASSUME NEW s \in Stream, PathPrepare(s) \/ PathCleanup(s)
      PROVE  PcmCall
  BY <1>5 DEF PathPrepare, PathCleanup, PcmCall
<1>6. CASE UNCHANGED pathVars
  BY <1>6 DEF pathVars
<1> QED BY <1>1, <1>2, <1>3, <1>4, <1>5, <1>6 DEF PathNext

-----------------------------------------------------------------------------
(* The jack's registers at every place of a jack event.                    *)

USE DEF Stream, Headset, Unit, Cause, Place

\* Until a plug has been sensed, and after an unplug has been handled, a plug
\* interrupts; otherwise an unplug does.
Tip ==
  IF \/ headset = "none" /\ cause # "unplug" /\ event # "unplug"
     \/ cause = "plug"
     \/ event \in {"plug", "sense"}
  THEN \ha0 ELSE \hc0

\* The buttons of a headset with a microphone are listened to.
Listening == have_mike /\ cause \in {"none", "unplug"} /\ event \in {"none", "unplug"}

Buttons == IF cause = "buttons" \/ event = "buttons" THEN \he7 ELSE \hff

Detecting == IF cause = "type" \/ event = "type" THEN \h01 ELSE \h03

Armed ==
  /\ Listening => Jack(path, Tip, \hdc, TRUE, Detecting)
  /\ ~Listening => Jack(path, Tip, Buttons, FALSE, Detecting)

\* A step that changes none of this, and leaves the chip alone.
LEMMA ArmedKept ==
  ASSUME Armed, Tip' = Tip, Buttons' = Buttons, Detecting' = Detecting,
         Listening' <=> Listening,
         \A tip, button, bias, int :
           Jack(path, tip, button, bias, int) => Jack(path', tip, button, bias, int)
  PROVE  Armed'
BY DEF Armed

\* A response that is taken from the bus or from the list.
LEMMA ArmedHandled ==
  ASSUME TypeOK, Single, cause # "none", NEW thread, Handle(thread),
         UNCHANGED <<headset, have_mike>>
  PROVE  /\ Tip' = Tip /\ Buttons' = Buttons /\ Detecting' = Detecting
         /\ Listening' <=> Listening
<1> USE DEF TypeOK, Single, Handle, Tip, Buttons, Detecting, Listening
<1>1. event = "none" /\ event' = cause /\ cause' = "none"
  OBVIOUS
<1>2. (Listening' <=> Listening) /\ Tip' = Tip
  BY <1>1
<1>3. Buttons' = Buttons /\ Detecting' = Detecting
  BY <1>1
<1> QED BY <1>2, <1>3

\* The worker.
LEMMA ArmedByWorker ==
  ASSUME TypeOK, Single, Armed, WorkerStep, path' = path
  PROVE  Armed'
<1> USE DEF bus, doing, jack, flags, call, hist
<1> DEFINE Same == /\ Tip' = Tip /\ Buttons' = Buttons /\ Detecting' = Detecting
                   /\ Listening' <=> Listening
<1>1. CASE UnsolStore
  <2>1. Same
    BY <1>1 DEF UnsolStore, Tip, Buttons, Detecting, Listening
  <2> QED BY <2>1, ArmedKept
<1>2. CASE UnsolHandle
  <2>1. Same
    BY <1>2, ArmedHandled DEF UnsolHandle
  <2> QED BY <2>1, ArmedKept
<1>3. CASE UnsolList
  <2>1. CASE stored
    <3>1. Same
      BY <1>3, <2>1, ArmedHandled DEF UnsolList, Drain, Single
    <3> QED BY <3>1, ArmedKept
  <2>2. CASE ~stored
    <3>1. Same
      BY <1>3, <2>2 DEF UnsolList, Drain, Tip, Buttons, Detecting, Listening
    <3> QED BY <3>1, ArmedKept
  <2> QED BY <2>1, <2>2
<1>4. CASE UnsolUnblock
  <2>1. Same
    BY <1>4 DEF UnsolUnblock, Tip, Buttons, Detecting, Listening
  <2> QED BY <2>1, ArmedKept
<1> QED BY <1>1, <1>2, <1>3, <1>4 DEF WorkerStep

\* The user.
LEMMA ArmedByUser ==
  ASSUME TypeOK, Known, Armed, MovePlug, path' = path
  PROVE  Armed'
<1> USE DEF MovePlug, Busy, doing, jack, flags, call
<1>1. Tip' = Tip
  BY DEF Tip
<1>2. Buttons' = Buttons /\ Detecting' = Detecting
  BY DEF Buttons, Detecting
<1>3. Listening' <=> Listening
  BY DEF Listening, Known
<1> QED BY <1>1, <1>2, <1>3, ArmedKept

\* The jack events: each writes what its place asks for.
LEMMA ArmedByEvent ==
  ASSUME TypeOK, Single, Known, Armed, PathEventStep
  PROVE  Armed'
<1> USE DEF TypeOK, Single, Known, Plugging, Unplugging, Plugged, Registers,
            bus, doing, jack, flags, call, hist
<1> DEFINE Goal == Armed'
<1>1. Armed => "chip" \in DOMAIN path
  BY DEF Armed, Jack
<1>2. ASSUME NEW d, path' = OnChip(path, d), NEW tip, NEW button, NEW bias, NEW int,
             JackIs(d, tip, button, bias, int)
      PROVE  Jack(path', tip, button, bias, int)
  BY <1>1, <1>2, ChipWritten
<1>3. CASE PathPluginHandleDetect
  <2> USE DEF PathPluginHandleDetect, PluginHandleDetect, At
  <2>1. JackIs(path.chip, \ha0, \hff, FALSE, \h03)
    BY <1>3 DEF Armed, Jack, Tip, Listening, Buttons, Detecting
  <2>2. JackIs(plugin_handle_detect(path.chip), \ha0, \hff, FALSE, \h03)
    BY <2>1, EventsSetJack
  <2>3. Jack(path', \ha0, \hff, FALSE, \h03)
    BY <1>3, <2>2, <1>2
  <2>4. ~Listening' /\ Tip' = \ha0 /\ Buttons' = \hff /\ Detecting' = \h03
    BY <1>3 DEF Tip, Listening, Buttons, Detecting
  <2> QED BY <2>3, <2>4 DEF Armed
<1>4. CASE PathPluginCompleteDetect
  <2> USE DEF PathPluginCompleteDetect, PluginCompleteDetect, Return
  <2>1. JackIs(path.chip, \ha0, \hff, FALSE, \h03)
    BY <1>4 DEF Armed, Jack, Tip, Listening, Buttons, Detecting
  <2>2. JackIs(plugin_complete_detect(path.chip), \hc0, \hff, FALSE, \h01)
    BY <2>1, EventsSetJack
  <2>3. Jack(path', \hc0, \hff, FALSE, \h01)
    BY <1>4, <2>2, <1>2
  <2>4. ~Listening' /\ Tip' = \hc0 /\ Buttons' = \hff /\ Detecting' = \h01
    BY <1>4 DEF Tip, Listening, Buttons, Detecting
  <2> QED BY <2>3, <2>4 DEF Armed
<1>5. CASE PathTypeDetectEvent
  <2> USE DEF PathTypeDetectEvent, TypeDetectEvent
  <2>1. JackIs(path.chip, \hc0, \hff, FALSE, \h01)
    BY <1>5 DEF Armed, Jack, Tip, Listening, Buttons, Detecting, At, Return
  <2>2. CASE headset = "mic"
    <3>1. have_mike' /\ JackIs(headset_type_detect(path.chip, have_mike'), \hc0, \he7, FALSE, \h03)
      BY <1>5, <2>1, <2>2, EventsSetJack
    <3>2. Jack(path', \hc0, \he7, FALSE, \h03)
      BY <1>5, <3>1, <1>2
    <3>3. ~Listening' /\ Tip' = \hc0 /\ Buttons' = \he7 /\ Detecting' = \h03
      BY <1>5, <2>2 DEF Tip, Listening, Buttons, Detecting, Return
    <3> QED BY <3>2, <3>3 DEF Armed
  <2>3. CASE headset # "mic"
    <3>1. ~have_mike'
      BY <1>5, <2>3 DEF At
    <3>2. JackIs(headset_type_detect(path.chip, have_mike'), \hc0, \hff, FALSE, \h03)
      BY <2>1, <3>1, EventsSetJack
    <3>3. Jack(path', \hc0, \hff, FALSE, \h03)
      BY <1>5, <3>2, <1>2
    <3>4. ~Listening' /\ Tip' = \hc0 /\ Buttons' = \hff /\ Detecting' = \h03
      BY <1>5, <2>3, <3>1 DEF Tip, Listening, Buttons, Detecting, At
    <3> QED BY <3>3, <3>4 DEF Armed
  <2> QED BY <2>2, <2>3
<1>6. CASE PathButtonDetectEvent
  <2> USE DEF PathButtonDetectEvent, ButtonDetectEvent, At
  <2>1. JackIs(path.chip, \hc0, \he7, FALSE, \h03)
    BY <1>6 DEF Armed, Jack, Tip, Listening, Buttons, Detecting
  <2>2. JackIs(headset_button_detect(path.chip), \hc0, \hff, FALSE, \h03)
    BY <2>1, EventsSetJack
  <2>3. Jack(path', \hc0, \hff, FALSE, \h03)
    BY <1>6, <2>2, <1>2
  <2>4. ~Listening' /\ Tip' = \hc0 /\ Buttons' = \hff /\ Detecting' = \h03
    BY <1>6 DEF Tip, Listening, Buttons, Detecting
  <2> QED BY <2>3, <2>4 DEF Armed
<1>7. CASE PathPluginWhilePlaying
  <2> USE DEF PathPluginWhilePlaying, PluginWhilePlaying, At
  <2>1. Jack(path, \hc0, \hff, FALSE, \h03)
    BY <1>7 DEF Armed, Tip, Listening, Buttons, Detecting
  <2>2. HasChip(amps_disable_streaming(path), path.chip)
    BY <1>1, SpeakersSpare DEF HasChip
  <2>3. Jack(enable_headset_streaming(amps_disable_streaming(path)), \hc0, \hff, FALSE, \h03)
    BY <2>1, <2>2, SparedJack, HeadsetKeepsJack
  <2>4. Jack(path', \hc0, \hff, FALSE, \h03)
    BY <1>7, <2>1, <2>3
  <2>5. ~Listening' /\ Tip' = \hc0 /\ Buttons' = \hff /\ Detecting' = \h03
    BY <1>7 DEF Tip, Listening, Buttons, Detecting
  <2> QED BY <2>4, <2>5 DEF Armed
<1>8. CASE PathPluginInputs
  <2> USE DEF PathPluginInputs, PluginInputs, Return
  <2> DEFINE h1 == inputs_power_nids_off(path)
             h2 == intmike_linein_disable(h1)
  <2>1. Jack(path, \hc0, \hff, FALSE, \h03)
    BY <1>8 DEF Armed, Tip, Listening, Buttons, Detecting
  <2>2. HasChip(h1, path.chip)
    BY <1>1, InputsSpare DEF HasChip
  <2>3. HasChip(h2, path.chip)
    BY <2>2, InputsSpare
  <2>4. Jack(h1, \hc0, \hff, FALSE, \h03) /\ Jack(h2, \hc0, \hff, FALSE, \h03)
    BY <2>1, <2>2, <2>3, SparedJack
  <2>5. JackIs(headset_mike_buttons_enable(h2.chip), \hc0, \hdc, TRUE, \h03)
    <3> HIDE DEF h2
    <3> QED BY <2>4, EventsSetJack DEF Jack
  <2>6. Jack(OnChip(h2, headset_mike_buttons_enable(h2.chip)), \hc0, \hdc, TRUE, \h03)
    <3> HIDE DEF h2
    <3> QED BY <2>4, <2>5, ChipWritten DEF Jack
  <2>7. /\ have_mike => Jack(path', \hc0, \hdc, TRUE, \h03)
        /\ ~have_mike => Jack(path', \hc0, \hff, FALSE, \h03)
    BY <1>8, <2>4, <2>6
  <2>8. (Listening' <=> have_mike) /\ Tip' = \hc0 /\ Buttons' = \hff /\ Detecting' = \h03
    BY <1>8 DEF Tip, Listening, Buttons, Detecting
  <2> QED BY <2>7, <2>8 DEF Armed
<1>9. CASE PathUnplugEvent
  <2> USE DEF PathUnplugEvent, UnplugEvent, At
  <2>1. /\ have_mike => JackIs(path.chip, \hc0, \hdc, TRUE, \h03)
        /\ ~have_mike => JackIs(path.chip, \hc0, \hff, FALSE, \h03)
    BY <1>9 DEF Armed, Jack, Tip, Listening, Buttons, Detecting
  <2>2. JackIs(unplug_detect(path.chip, have_mike), \ha0, \hff, FALSE, \h03)
    <3>1. CASE have_mike
      <4>1. JackIs(path.chip, \hc0, \hdc, TRUE, \h03)
        BY <2>1, <3>1
      <4> QED BY <3>1, <4>1, EventsSetJack, Zenon
    <3>2. CASE ~have_mike
      BY <2>1, <3>2, EventsSetJack
    <3> QED BY <3>1, <3>2
  <2>3. Jack(path', \ha0, \hff, FALSE, \h03)
    BY <1>9, <2>2, <1>2
  <2>4. ~Listening' /\ Tip' = \ha0 /\ Buttons' = \hff /\ Detecting' = \h03
    BY <1>9 DEF Tip, Listening, Buttons, Detecting
  <2> QED BY <2>3, <2>4 DEF Armed
<1>10. CASE PathUnplugHeadsetOff
  <2> USE DEF PathUnplugHeadsetOff, UnplugHeadsetOff, At
  <2>1. Jack(path, \ha0, \hff, FALSE, \h03)
    BY <1>10 DEF Armed, Tip, Listening, Buttons, Detecting
  <2>2. Jack(unplug_headset_output(path, have_mike), \ha0, \hff, FALSE, \h03)
    BY <2>1, HeadsetKeepsJack
  <2>3. Jack(path', \ha0, \hff, FALSE, \h03)
    BY <1>10, <2>1, <2>2
  <2>4. ~Listening' /\ Tip' = \ha0 /\ Buttons' = \hff /\ Detecting' = \h03
    BY <1>10 DEF Tip, Listening, Buttons, Detecting
  <2> QED BY <2>3, <2>4 DEF Armed
<1>11. CASE PathUnplugAmpsOn
  <2> USE DEF PathUnplugAmpsOn, UnplugAmpsOn, At
  <2> DEFINE h1 == IF active["playback"] THEN play(path) ELSE path
             h2 == IF have_mike THEN unplug_headset_input(h1) ELSE inputs_power_nids_off(h1)
  <2>1. Jack(path, \ha0, \hff, FALSE, \h03)
    BY <1>11 DEF Armed, Tip, Listening, Buttons, Detecting
  <2>2. HasChip(h1, path.chip)
    BY <1>1, SpeakersSpare DEF HasChip
  <2>3. Jack(h1, \ha0, \hff, FALSE, \h03)
    BY <2>1, <2>2, SparedJack
  <2> HIDE DEF h1
  <2>4. HasChip(inputs_power_nids_off(h1), path.chip)
    BY <2>2, InputsSpare
  <2>5. Jack(h2, \ha0, \hff, FALSE, \h03)
    BY <2>1, <2>3, <2>4, SparedJack, HeadsetKeepsJack
  <2> HIDE DEF h2
  <2>6. JackIs(unplug_detect_end(h2.chip), \ha0, \hff, FALSE, \h03)
    BY <2>5, EventsSetJack DEF Jack
  <2>7. Jack(OnChip(h2, unplug_detect_end(h2.chip)), \ha0, \hff, FALSE, \h03)
    BY <2>5, <2>6, ChipWritten DEF Jack
  <2>8. path' = OnChip(h2, unplug_detect_end(h2.chip))
    BY <1>11 DEF h1, h2
  <2>9. ~Listening' /\ Tip' = \ha0 /\ Buttons' = \hff /\ Detecting' = \h03
    BY <1>11 DEF Tip, Listening, Buttons, Detecting
  <2> QED BY <2>7, <2>8, <2>9 DEF Armed
<1>12. CASE UnplugReset /\ Registers(path)
  <2> USE DEF UnplugReset, Return
  <2>1. Jack(path, \ha0, \hff, FALSE, \h03)
    BY <1>12 DEF Armed, Tip, Listening, Buttons, Detecting
  <2>2. ~Listening'
    BY <1>12, Zenon DEF Listening
  <2>3. Tip' = \ha0 /\ Buttons' = \hff /\ Detecting' = \h03
    BY <1>12 DEF Tip, Buttons, Detecting
  <2> QED BY <1>12, <2>1, <2>2, <2>3 DEF Armed
<1> QED BY <1>3, <1>4, <1>5, <1>6, <1>7, <1>8, <1>9, <1>10, <1>11, <1>12 DEF PathEventStep

\* The PCM operations.
LEMMA ArmedByPcm ==
  ASSUME TypeOK, Single, Armed, PathPcmStep
  PROVE  Armed'
<1> USE DEF Registers, bus, doing, jack, flags, call, hist
<1> DEFINE Same == /\ Tip' = Tip /\ Buttons' = Buttons /\ Detecting' = Detecting
                   /\ Listening' <=> Listening
           Left(g) == \A tip, button, bias, int :
                        Jack(path, tip, button, bias, int) => Jack(g, tip, button, bias, int)
<1>1. HasChip(path, path.chip)
  BY DEF Armed, Jack, HasChip
<1>2. \A g : HasChip(g, path.chip) => Left(g)
  BY SparedJack
<1>3. ASSUME UNCHANGED <<headset, cause, event, have_mike>>
      PROVE  Same
  BY <1>3 DEF Tip, Buttons, Detecting, Listening
<1>4. CASE PathHeadsetOutputOn
  <2>1. Left(path')
    BY <1>4, HeadsetKeepsJack DEF PathHeadsetOutputOn
  <2>2. Same
    BY <1>4, <1>3 DEF PathHeadsetOutputOn, HeadsetOutputOn
  <2> QED BY <2>1, <2>2, ArmedKept
<1>5. CASE PathInternalSetUp
  <2> DEFINE h == Put(path, {}, {"afg"})
  <2>1. HasChip(h, path.chip)
    BY <1>1, VerbsSpare
  <2>2. HasChip(play(h), path.chip) /\ HasChip(capture(h), path.chip)
    <3> HIDE DEF h
    <3> QED BY <2>1, SpeakersSpare, InputsSpare
  <2>3. Left(path')
    BY <1>5, <1>2, <2>2 DEF PathInternalSetUp
  <2>4. Same
    BY <1>5, <1>3 DEF PathInternalSetUp, InternalSetUp
  <2> QED BY <2>3, <2>4, ArmedKept
<1>6. CASE PathHeadsetInputOn \/ PathHeadsetInputOff \/ PathHeadsetOutputOff
  <2>1. Left(path')
    BY <1>6, HeadsetKeepsJack
    DEF PathHeadsetInputOn, PathHeadsetInputOff, PathHeadsetOutputOff
  <2>2. Same
    BY <1>6, <1>3 DEF PathHeadsetInputOn, HeadsetInputOn, PathHeadsetInputOff, HeadsetInputOff,
                      PathHeadsetOutputOff, HeadsetOutputOff
  <2> QED BY <2>1, <2>2, ArmedKept
<1>7. CASE PathInternalCleanUp
  <2> DEFINE h == Put(amps_disable_streaming(path), {"afg"}, {})
  <2>1. HasChip(h, path.chip)
    BY <1>1, SpeakersSpare, VerbsSpare
  <2>2. HasChip(inputs_power_nids_off(h), path.chip)
    <3> HIDE DEF h
    <3> QED BY <2>1, InputsSpare
  <2>3. HasChip(capturestop(path), path.chip)
    BY <1>1, InputsSpare
  <2>4. Left(path')
    BY <1>7, <1>2, <2>2, <2>3 DEF PathInternalCleanUp
  <2>5. Same
    BY <1>7, <1>3 DEF PathInternalCleanUp, InternalCleanUp
  <2> QED BY <2>4, <2>5, ArmedKept
<1>8. CASE PathHookUnblock
  <2>1. HasChip(path', path.chip)
    BY <1>8, <1>1, SetUpSpares DEF PathHookUnblock
  <2>2. Same
    BY <1>8, <1>3 DEF PathHookUnblock, HookUnblock
  <2> QED BY <1>2, <2>1, <2>2, ArmedKept
<1>9. CASE (BlockUnsol \/ HeadsetMark \/ RealDrain \/ RealUnblock \/ HookDrain \/ HookDone)
            /\ Registers(path)
  <2>1. CASE BlockUnsol \/ HeadsetMark \/ RealUnblock \/ HookDone
    BY <1>9, <2>1, <1>3, ArmedKept DEF BlockUnsol, HeadsetMark, RealUnblock, HookDone
  <2>2. CASE RealDrain \/ HookDrain
    <3>1. Drain("pcm") /\ UNCHANGED <<headset, have_mike>>
      BY <2>2 DEF RealDrain, HookDrain
    <3>2. CASE stored
      <4>1. Same
        BY <3>1, <3>2, ArmedHandled DEF Drain, Single
      <4> QED BY <1>9, <4>1, ArmedKept
    <3>3. CASE ~stored
      <4>1. Same
        BY <3>1, <3>3, <1>3 DEF Drain
      <4> QED BY <1>9, <4>1, ArmedKept
    <3> QED BY <3>2, <3>3
  <2> QED BY <1>9, <2>1, <2>2
<1> QED BY <1>4, <1>5, <1>6, <1>7, <1>8, <1>9 DEF PathPcmStep

\* The calls of the PCM operations store what is to be played.
LEMMA ArmedByCall ==
  ASSUME Armed, NEW s \in Stream, PathPrepare(s) \/ PathCleanup(s)
  PROVE  Armed'
<1> USE DEF Registers, bus, doing, jack, flags, call, hist
<1>1. UNCHANGED <<headset, cause, event, have_mike>>
  BY DEF PathPrepare, PathCleanup, Prepare, Cleanup, Begin
<1>2. /\ Tip' = Tip /\ Buttons' = Buttons /\ Detecting' = Detecting
      /\ Listening' <=> Listening
  BY <1>1 DEF Tip, Buttons, Detecting, Listening
<1>3. HasChip(path, path.chip)
  BY DEF Armed, Jack, HasChip
<1>4. \A fmt : HasChip(store_playback(path, fmt), path.chip)
  <2>1. ASSUME NEW fmt
        PROVE  HasChip(store_playback(path, fmt), path.chip)
    <3> DEFINE store(g, n) == store_stream_format(g, n, Tag(n), fmt)
               h == store(store(store(path, \h02), \h03), \h0a)
    <3>1. HasChip(h, path.chip)
      BY <1>3, StoreSpares
    <3>2. HasChip([h EXCEPT !.channels = IF fmt = \h4031 THEN 2 ELSE 4], path.chip)
      <4> HIDE DEF h
      <4> QED BY <3>1 DEF HasChip
    <3> QED BY <3>2 DEF store_playback
  <2> QED BY <2>1
<1>5. HasChip(path', path.chip)
  <2>1. CASE PathPrepare(s)
    BY <2>1, <1>3, <1>4, StoreSpares DEF PathPrepare
  <2>2. CASE PathCleanup(s)
    BY <2>2, <1>3 DEF PathCleanup
  <2> QED BY <2>1, <2>2
<1>6. \A tip, button, bias, int :
        Jack(path, tip, button, bias, int) => Jack(path', tip, button, bias, int)
  BY <1>5, SparedJack
<1> QED BY <1>2, <1>6, ArmedKept

-----------------------------------------------------------------------------
(* The units of AudioRoute are those of the registers.                     *)

Matched == Whole(path) /\ on = Lit(path)

\* Steps that leave the registers as they are, and the units.
LEMMA MatchedKept ==
  ASSUME Matched, on' = on, path' = path
  PROVE  Matched'
BY DEF Matched

\* The jack events.
LEMMA MatchedByEvent ==
  ASSUME Matched, PathEventStep
  PROVE  Matched'
<1> USE DEF Matched, Registers, flags
<1>1. HasSound(path.chip) /\ SameSound(path.chip, path.chip)
  BY DEF Whole, HasSound
<1>2. ASSUME NEW c, SameSound(path.chip, c), path' = OnChip(path, c), on' = on
      PROVE  Matched'
  BY <1>2, OnChipUnits
<1>3. CASE PathPluginHandleDetect \/ PathPluginCompleteDetect \/ PathButtonDetectEvent
  BY <1>3, <1>1, <1>2, EventsKeepSound
  DEF Plugged, PathPluginHandleDetect, PathPluginCompleteDetect, PathButtonDetectEvent,
      PluginHandleDetect, PluginCompleteDetect, ButtonDetectEvent
<1>4. CASE PathTypeDetectEvent
  BY <1>4, <1>1, <1>2, EventsKeepSound DEF Plugged, PathTypeDetectEvent, TypeDetectEvent
<1>5. CASE PathPluginWhilePlaying
  <2> DEFINE h == amps_disable_streaming(path)
  <2>1. Whole(h) /\ Lit(h) = Lit(path) \ {"speakers"}
    BY SpeakerUnits
  <2> HIDE DEF h
  <2>2. /\ Whole(enable_headset_streaming(h))
        /\ Lit(enable_headset_streaming(h)) = (Lit(path) \ {"speakers"}) \cup HeadphonesOn
    BY <2>1, HeadsetUnits
  <2>3. path' = IF active["playback"] THEN enable_headset_streaming(h) ELSE path
    BY <1>5 DEF PathPluginWhilePlaying, h
  <2>4. on' = IF active["playback"] THEN (on \ {"speakers"}) \cup HeadphonesOn ELSE on
    BY <1>5 DEF PathPluginWhilePlaying, PluginWhilePlaying
  <2> QED BY <2>2, <2>3, <2>4
<1>6. CASE PathPluginInputs
  <2> DEFINE h1 == inputs_power_nids_off(path)
             h2 == intmike_linein_disable(h1)
             c  == headset_mike_buttons_enable(h2.chip)
  <2>1. Whole(h1) /\ Lit(h1) = Lit(path) \ {"internal_mike"}
    BY InputUnits
  <2>2. path' = IF have_mike THEN OnChip(h2, c) ELSE h1
    BY <1>6 DEF PathPluginInputs
  <2> HIDE DEF h1
  <2>3. Whole(h2) /\ Lit(h2) = Lit(path) \ {"internal_mike"}
    BY <2>1, InputUnits
  <2> HIDE DEF h2
  <2>4. SameSound(h2.chip, c)
    BY <2>3, EventsKeepSound DEF Whole, HasSound
  <2> HIDE DEF c
  <2>5. Whole(OnChip(h2, c)) /\ Lit(OnChip(h2, c)) = Lit(path) \ {"internal_mike"}
    BY <2>3, <2>4, OnChipUnits
  <2>6. on' = on \ {"internal_mike"}
    BY <1>6 DEF PathPluginInputs, PluginInputs
  <2> QED BY <2>1, <2>2, <2>5, <2>6
<1>7. CASE PathUnplugEvent
  BY <1>7, <1>1, <1>2, EventsKeepSound DEF Plugged, PathUnplugEvent, UnplugEvent
<1>8. CASE PathUnplugHeadsetOff
  <2>1. path' = IF active["playback"] THEN unplug_headset_output(path, have_mike) ELSE path
    BY <1>8 DEF PathUnplugHeadsetOff
  <2>2. on' = IF ~active["playback"] THEN on
              ELSE on \ (IF have_mike THEN {"headphones"} ELSE HeadphonesOn)
    BY <1>8 DEF PathUnplugHeadsetOff, UnplugHeadsetOff
  <2> QED BY <2>1, <2>2, UnplugUnits
<1>9. CASE PathUnplugAmpsOn
  <2> DEFINE h1 == IF active["playback"] THEN play(path) ELSE path
             h2 == IF have_mike THEN unplug_headset_input(h1) ELSE inputs_power_nids_off(h1)
             c  == unplug_detect_end(h2.chip)
             amps == IF active["playback"] THEN {"speakers"} ELSE {}
             mike == IF have_mike THEN {"clock", "headset_mike"} ELSE {}
  <2>1. Whole(h1) /\ Lit(h1) = Lit(path) \cup amps
    BY SpeakerUnits
  <2>2. path' = OnChip(h2, c)
    BY <1>9 DEF PathUnplugAmpsOn
  <2> HIDE DEF h1
  <2>3. Whole(h2) /\ Lit(h2) = (Lit(h1) \ mike) \ {"internal_mike"}
    BY <2>1, UnplugUnits, InputUnits
  <2> HIDE DEF h2
  <2>4. SameSound(h2.chip, c)
    BY <2>3, EventsKeepSound DEF Whole, HasSound
  <2> HIDE DEF c
  <2>5. Whole(OnChip(h2, c)) /\ Lit(OnChip(h2, c)) = Lit(h2)
    BY <2>3, <2>4, OnChipUnits
  <2>6. on' = ((on \cup amps) \ mike) \ {"internal_mike"}
    BY <1>9 DEF PathUnplugAmpsOn, UnplugAmpsOn
  <2> QED BY <2>1, <2>2, <2>3, <2>5, <2>6
<1>10. CASE UnplugReset /\ Registers(path)
  BY <1>10 DEF UnplugReset
<1> QED BY <1>3, <1>4, <1>5, <1>6, <1>7, <1>8, <1>9, <1>10 DEF PathEventStep

\* The PCM operations.
LEMMA MatchedByPcm ==
  ASSUME TypeOK, Matched, PathPcmStep
  PROVE  Matched'
<1> USE DEF Matched, Registers, flags
<1>1. stream \in {"playback", "capture"}
  BY DEF TypeOK, Stream
<1>2. CASE PathHeadsetOutputOn
  <2>1. path' = IF headset_enable /\ OutputNeeded THEN enable_headset_streaming(path) ELSE path
    BY <1>2 DEF PathHeadsetOutputOn
  <2>2. on' = IF headset_enable /\ OutputNeeded THEN on \cup HeadphonesOn ELSE on
    BY <1>2 DEF PathHeadsetOutputOn, HeadsetOutputOn, Enabled
  <2> QED BY <2>1, <2>2, HeadsetUnits
<1>3. CASE PathInternalSetUp
  <2> DEFINE h == Put(path, {}, {"afg"})
  <2>1. Whole(h) /\ Lit(h) = Lit(path)
    BY StreamsKeepUnits
  <2>2. path' = IF stream = "playback" THEN play(h) ELSE capture(h)
    BY <1>3 DEF PathInternalSetUp
  <2> HIDE DEF h
  <2>3. on' = on \cup (IF stream = "playback" THEN {"speakers"} ELSE {"internal_mike"})
    BY <1>3 DEF PathInternalSetUp, InternalSetUp
  <2> QED BY <2>1, <2>2, <2>3, SpeakerUnits, InputUnits
<1>4. CASE PathHeadsetInputOn \/ PathHeadsetInputOff \/ PathHeadsetOutputOff
  <2>1. CASE PathHeadsetInputOn
    <3>1. path' = IF headset_enable /\ setup_needed["capture"]
                  THEN enable_headset_mike_streaming(path) ELSE path
      BY <2>1 DEF PathHeadsetInputOn
    <3>2. on' = IF headset_enable /\ setup_needed["capture"]
                THEN on \cup {"headset_mike"} ELSE on
      BY <2>1 DEF PathHeadsetInputOn, HeadsetInputOn, Enabled
    <3> QED BY <3>1, <3>2, HeadsetUnits
  <2>2. CASE PathHeadsetInputOff
    BY <2>2, HeadsetUnits DEF PathHeadsetInputOff, HeadsetInputOff
  <2>3. CASE PathHeadsetOutputOff
    BY <2>3, HeadsetUnits DEF PathHeadsetOutputOff, HeadsetOutputOff
  <2> QED BY <1>4, <2>1, <2>2, <2>3
<1>5. CASE PathInternalCleanUp
  <2> DEFINE h1 == amps_disable_streaming(path)
             h2 == Put(h1, {"afg"}, {})
  <2>1. Whole(h1) /\ Lit(h1) = Lit(path) \ {"speakers"}
    BY SpeakerUnits
  <2>2. path' = IF stream = "playback" THEN inputs_power_nids_off(h2) ELSE capturestop(path)
    BY <1>5 DEF PathInternalCleanUp
  <2> HIDE DEF h1
  <2>3. Whole(h2) /\ Lit(h2) = Lit(h1)
    BY <2>1, StreamsKeepUnits
  <2> HIDE DEF h2
  <2>4. on' = on \ (IF stream = "playback" THEN {"speakers", "internal_mike"}
                    ELSE {"internal_mike"})
    BY <1>5 DEF PathInternalCleanUp, InternalCleanUp
  <2>5. /\ Whole(inputs_power_nids_off(h2))
        /\ Lit(inputs_power_nids_off(h2)) = Lit(h2) \ {"internal_mike"}
        /\ Whole(capturestop(path)) /\ Lit(capturestop(path)) = Lit(path) \ {"internal_mike"}
    BY <2>3, InputUnits
  <2> QED BY <2>1, <2>2, <2>3, <2>4, <2>5
<1>6. CASE PathHookUnblock
  BY <1>6, StreamsKeepUnits DEF PathHookUnblock, HookUnblock
<1>7. CASE (BlockUnsol \/ HeadsetMark \/ RealDrain \/ RealUnblock \/ HookDrain \/ HookDone)
            /\ Registers(path)
  BY <1>7 DEF BlockUnsol, HeadsetMark, RealDrain, RealUnblock, HookDrain, HookDone
<1> QED BY <1>2, <1>3, <1>4, <1>5, <1>6, <1>7 DEF PathPcmStep

\* Their calls, the worker and the user turn nothing on or off.
LEMMA MatchedByOthers ==
  ASSUME Matched,
         \/ WorkerStep /\ Registers(path)
         \/ MovePlug /\ Registers(path)
         \/ \E s \in Stream : PathPrepare(s) \/ PathCleanup(s)
         \/ UNCHANGED pathVars
  PROVE  Matched'
<1> USE DEF Matched, Registers, flags
<1>1. CASE WorkerStep /\ Registers(path)
  BY <1>1 DEF WorkerStep, UnsolHandle, UnsolStore, UnsolList, UnsolUnblock
<1>2. CASE MovePlug /\ Registers(path)
  BY <1>2 DEF MovePlug
<1>3. ASSUME NEW s \in Stream, PathPrepare(s)
      PROVE  Matched'
  <2>1. on' = on
    BY <1>3 DEF PathPrepare, Prepare, Begin
  <2>2. \E n, tag, fmt : \/ path' = store_stream_format(path, n, tag, fmt)
                         \/ path' = store_playback(path, fmt)
    BY <1>3 DEF PathPrepare
  <2> QED BY <2>1, <2>2, StreamsKeepUnits
<1>4. ASSUME NEW s \in Stream, PathCleanup(s)
      PROVE  Matched'
  BY <1>4 DEF PathCleanup, Cleanup, Begin
<1>5. CASE UNCHANGED pathVars
  BY <1>5 DEF pathVars, vars
<1> QED BY <1>1, <1>2, <1>3, <1>4, <1>5

-----------------------------------------------------------------------------
(* The theorems.                                                           *)

PathInv == UnitsInv /\ Armed

\* The initial state satisfies the inductive invariant.
LEMMA PathInvInit == PathInit => PathInv
<1> SUFFICES ASSUME PathInit PROVE PathInv
  OBVIOUS
<1> USE DEF PathInit
<1>1. UnitsInv
  BY UnitsInit
<1>2. /\ headset # "none" /\ have_mike => Jack(path, \hc0, \hdc, TRUE, \h03)
      /\ headset # "none" /\ ~have_mike => Jack(path, \hc0, \hff, FALSE, \h03)
      /\ headset = "none" => Jack(path, \ha0, \hff, FALSE, \h03)
  BY BootSetsJack
<1>3. Known /\ cause = "none" /\ event = "none"
  BY <1>1 DEF UnitsInv, Inv, Init
<1>4. /\ Listening <=> headset = "mic"
      /\ have_mike <=> headset = "mic"
      /\ Tip = IF headset = "none" THEN \ha0 ELSE \hc0
      /\ Buttons = \hff /\ Detecting = \h03
  BY <1>3 DEF Known, Listening, Tip, Buttons, Detecting
<1> QED BY <1>1, <1>2, <1>4 DEF PathInv, Armed

\* Every step keeps it.
LEMMA PathInvStep == PathInv /\ [PathNext]_pathVars => PathInv'
<1> SUFFICES ASSUME PathInv, [PathNext]_pathVars PROVE PathInv'
  OBVIOUS
<1>1. UnitsInv' /\ TypeOK /\ Single /\ Known /\ Armed
  BY RouteStep, UnitsStep DEF PathInv, UnitsInv, Inv
<1>2. CASE WorkerStep /\ Registers(path)
  BY <1>1, <1>2, ArmedByWorker DEF PathInv, Registers
<1>3. CASE MovePlug /\ Registers(path)
  BY <1>1, <1>3, ArmedByUser DEF PathInv, Registers
<1>4. CASE PathEventStep
  BY <1>1, <1>4, ArmedByEvent DEF PathInv
<1>5. CASE PathPcmStep
  BY <1>1, <1>5, ArmedByPcm DEF PathInv
<1>6. ASSUME NEW s \in Stream, PathPrepare(s) \/ PathCleanup(s)
      PROVE  PathInv'
  BY <1>1, <1>6, ArmedByCall DEF PathInv
<1>7. CASE UNCHANGED pathVars
  <2>1. UNCHANGED <<headset, cause, event, have_mike, path>>
    BY <1>7 DEF pathVars, vars, bus, doing, jack, hist
  <2>2. /\ Tip' = Tip /\ Buttons' = Buttons /\ Detecting' = Detecting
        /\ Listening' <=> Listening
    BY <2>1 DEF Tip, Buttons, Detecting, Listening
  <2> QED BY <1>1, <2>1, <2>2, ArmedKept DEF PathInv
<1> QED BY <1>2, <1>3, <1>4, <1>5, <1>6, <1>7 DEF PathNext

\* The inductive invariant holds in every reachable state.
THEOREM PathInvariance == PathSpec => []PathInv
<1> QED BY PathInvInit, PathInvStep, PTL DEF PathSpec

\* The registers are written in the steps of AudioRoute, so that whatever is proved
\* of Spec is true of PathSpec.
LEMMA PathIsARoute == PathSpec => Spec
<1>1. PathInit => Init
  BY DEF PathInit
<1> QED BY <1>1, RouteStep, PTL DEF PathSpec, Spec

\* A unit is on for AudioRoute when and only when all its registers are: what is
\* proved of the units is true of the hardware, for every amplifier, however
\* operations and jack events overlap.
THEOREM UnitsAreRegisters == PathSpec => []UnitsMatchRegisters
<1>1. PathInit => Matched
  BY BootUnits DEF PathInit, Init, Matched
<1>2. TypeOK /\ Matched /\ [PathNext]_pathVars => Matched'
  BY MatchedByEvent, MatchedByPcm, MatchedByOthers DEF PathNext
<1>3. PathSpec => []TypeOK
  <2>1. UnitsInv => TypeOK
    BY DEF UnitsInv, Inv
  <2> QED BY <2>1, PathIsARoute, UnitsInvariance, PTL
<1>4. Matched => UnitsMatchRegisters
  BY DEF Matched, Lit, UnitsMatchRegisters
<1> QED BY <1>1, <1>2, <1>3, <1>4, PTL DEF PathSpec

\* The registers of the codec and of the headset chip, at rest while a stream
\* plays, are on for the output of the jack and for no other, unless an operation
\* overlapped a jack event or the plug moved during one or under a capture.
THEOREM RegistersFollowJack ==
  PathSpec => [](AtRest /\ active["playback"] /\ ~(crossed \/ during \/ swapped)
                   => \A u \in {"speakers", "headphones", "clock"} :
                        u \in OutputOf(headset)
                          <=> Wired(u) \subseteq path.bits /\ Chipped(path.chip, u))
<1> DEFINE Follows ==
             AtRest /\ active["playback"] /\ ~(crossed \/ during \/ swapped)
               => \A u \in {"speakers", "headphones", "clock"} :
                    u \in OutputOf(headset)
                      <=> Wired(u) \subseteq path.bits /\ Chipped(path.chip, u)
<1>1. OutputFollowsJack /\ UnitsMatchRegisters => Follows
  <2> SUFFICES ASSUME OutputFollowsJack, UnitsMatchRegisters,
                      AtRest, active["playback"], ~(crossed \/ during \/ swapped),
                      NEW u \in {"speakers", "headphones", "clock"}
               PROVE  u \in OutputOf(headset)
                        <=> Wired(u) \subseteq path.bits /\ Chipped(path.chip, u)
    OBVIOUS
  <2>1. on \cap {"speakers", "headphones", "clock"} = OutputOf(headset)
    BY DEF OutputFollowsJack, OutputFollows
  <2>2. u \in on <=> Wired(u) \subseteq path.bits /\ Chipped(path.chip, u)
    BY DEF UnitsMatchRegisters
  <2> QED BY <2>1, <2>2
<1> HIDE DEF Follows
<1>2. PathSpec => []Follows
  BY <1>1, PathIsARoute, OutputIsOfTheJack, UnitsAreRegisters, PTL
<1> QED BY <1>2 DEF Follows

\* At rest the chip waits for the other move of the plug, whatever came before:
\* streams opened and closed, plugs moved, operations called during a jack event.
THEOREM JackStaysArmed == PathSpec => []JackArmed
<1>1. PathInv => JackArmed
  <2> SUFFICES ASSUME PathInv, AtRest
               PROVE  /\ path.chip.tip_mask = IF headset = "none" THEN \ha0 ELSE \hc0
                      /\ path.chip.button_mask = IF headset = "mic" THEN \hdc ELSE \hff
                      /\ path.chip.bias_sense = (headset = "mic")
                      /\ path.chip.auto_int = \h03
    BY DEF JackArmed
  <2>1. cause = "none" /\ event = "none" /\ Known
    BY DEF PathInv, UnitsInv, Inv, AtRest, Busy
  <2>2. /\ Listening <=> headset = "mic"
        /\ Tip = IF headset = "none" THEN \ha0 ELSE \hc0
        /\ Buttons = \hff /\ Detecting = \h03
    BY <2>1 DEF Known, Listening, Tip, Buttons, Detecting
  <2>3. CASE headset = "mic"
    BY <2>2, <2>3 DEF PathInv, Armed, Jack, JackIs
  <2>4. CASE headset # "mic"
    BY <2>2, <2>4 DEF PathInv, Armed, Jack, JackIs
  <2> QED BY <2>3, <2>4
<1> QED BY <1>1, PathInvariance, PTL
=============================================================================
