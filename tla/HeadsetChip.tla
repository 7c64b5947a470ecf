------------------------------ MODULE HeadsetChip ------------------------------
(***************************************************************************)
(* The registers of the cs42l83 headset chip that decide whether the plug, *)
(* the buttons, the headphones and the microphone work, and what each      *)
(* function of patch_cirrus_real84_i2c.h leaves in them.  A chip is a      *)
(* record; an operator named after a function maps the chip before the     *)
(* call to the chip after it.  Registers of divisors, volumes and frame    *)
(* layouts, which are always written with the same values, are one field   *)
(* that says whether they have been written, or are left out.              *)
(*                                                                         *)
(* Definitions whose name starts with Bug are mutations of the definition  *)
(* that follows them; nothing but the mutation runs uses them.             *)
(***************************************************************************)
EXTENDS Integers

\* The blocks register 0x1101 powers down, from bit 7 to bit 2.
OutputBlock == {"asp_in", "mixer", "hp_out"}
InputBlock  == {"asp_out", "adc"}
Block       == OutputBlock \cup InputBlock

Chip == [
  mic_detect  : {\h01, \h03, \h07, \h9b, \h9f, \h1f},  \* 0x1b74
  level       : {\h9f, \hb5},                          \* 0x1b75
  hs_switch   : {\h00, \h42, \h82, \hc2},              \* 0x1120
  auto_int    : {\h01, \h03},                          \* 0x131b
  tip_mask    : {\ha0, \hc0},                          \* 0x1b79
  button_mask : {\hff, \he7, \hdc},                    \* 0x1b7a
  bias_sense  : BOOLEAN,                               \* 0x1b70, bit 7
  bias_clamp  : BOOLEAN,                               \* 0x1b70: 0x03 or 0x46
  clamped     : BOOLEAN,                               \* 0x1f06, bit 2 clear
  pulled_down : BOOLEAN,                               \* 0x1f06, bit 7 clear
  down        : SUBSET Block,                          \* 0x1101
  dividers    : BOOLEAN,                               \* 0x1009 to 0x1206
  pll         : BOOLEAN,                               \* 0x1501
  oscillator  : BOOLEAN,                               \* 0x1107
  serial_port : BOOLEAN,                               \* 0x2502 to 0x2506, 0x1208
  rates       : SUBSET {"output", "input"},            \* 0x1209
  buffers     : BOOLEAN,                               \* 0x2a01
  hp_muted    : BOOLEAN,                               \* 0x2001, bits 3 and 2
  mike_slots  : BOOLEAN,                               \* 0x2901 and 0x2902
  adc_muted   : BOOLEAN]                               \* 0x1d03

-----------------------------------------------------------------------------
(* The jack: detection, its interrupts and the bias of the microphone. *)

button_detect_interrupts_off(c) == [c EXCEPT !.button_mask = \hff]

set_hpout_clamp_disable(c) == [c EXCEPT !.clamped = FALSE, !.pulled_down = TRUE]

complete_jack_detect(c) == [c EXCEPT !.level = \hb5, !.mic_detect = \h01]

power_hs_bias_on(c) == [c EXCEPT !.hs_switch = \h00, !.mic_detect = \h07]

enable_hs_auto_int_on(c) == [c EXCEPT !.auto_int = \h01]

\* Mutation: the plug stays the one that interrupts.
Bugunplug_interrupt_setup(c) == [c EXCEPT !.tip_mask = \ha0]

\* From now on an unplug interrupts, and a plug does not.
unplug_interrupt_setup(c) == [c EXCEPT !.tip_mask = \hc0]

set_hpout_pulldown_off(c) == [c EXCEPT !.pulled_down = FALSE]

headset_detect_on(c) == [c EXCEPT !.hs_switch = \hc2]

headset_detect_off(c) == [c EXCEPT !.hs_switch = \h82]

enable_hs_auto_int_off(c) == [c EXCEPT !.auto_int = \h03]

set_hpout_pulldown_on(c) == [c EXCEPT !.clamped = FALSE, !.pulled_down = TRUE]

set_hpout_clamp_enable(c) == [c EXCEPT !.clamped = TRUE]

headset_mike_detect_off(c) == [c EXCEPT !.mic_detect = \h07]

power_hs_bias_off(c) == [c EXCEPT !.hs_switch = \h82, !.mic_detect = \h03]

enable_hsbias_auto_clamp_on(c) == [c EXCEPT !.bias_clamp = TRUE, !.bias_sense = FALSE]

\* Four functions of the same writes: off0, off1, off2 and off3.
enable_hsbias_auto_clamp_off(c) == [c EXCEPT !.bias_clamp = FALSE, !.bias_sense = FALSE]

\* Mutation: the mask is inverted.
Bugsetup_button_detect(c) == [c EXCEPT !.button_mask = \h18, !.mic_detect = \h9b]

setup_button_detect(c) == [c EXCEPT !.button_mask = \he7, !.mic_detect = \h9b]

power_hs_bias_button_on(c) == [c EXCEPT !.hs_switch = \h82, !.mic_detect = \h9f]

\* The mask must be the one of setup_button_detect, else nothing is done.
handle_button_detect(c) ==
  IF c.button_mask = \he7 THEN [c EXCEPT !.button_mask = \hff, !.mic_detect = \h1f] ELSE c

mike_connected(c) == [c EXCEPT !.level = \hb5, !.mic_detect = \h1f]

\* From now on a plug interrupts, and an unplug does not.
plugin_interrupt_setup(c) == [c EXCEPT !.tip_mask = \ha0]

headset_detect2_off(c) == [c EXCEPT !.button_mask = \hff, !.mic_detect = \h03]

disable_button_interrupts(c) == [c EXCEPT !.button_mask = \hff]

unplug_headset_detect_off(c) == [c EXCEPT !.hs_switch = \h82]

headset_switch_control(c) == [c EXCEPT !.hs_switch = \h42]

configure_headset_button_interrupts(c) == [c EXCEPT !.button_mask = \hdc]

hsbias_sense_on(c) == [c EXCEPT !.bias_sense = TRUE]

-----------------------------------------------------------------------------
(* The sound: clock, output and input. *)

\* It starts the PLL before cs42l83_power_onoff does.
configure_int_mclk(c) == [c EXCEPT !.dividers = TRUE, !.pll = TRUE, !.serial_port = FALSE]

power_onoff(c, onflag) == [c EXCEPT !.pll = onflag, !.oscillator = onflag]

configure_serial_port(c) == [c EXCEPT !.serial_port = TRUE]

output_set_input_sample_rate(c) == [c EXCEPT !.rates = @ \cup {"output"}]

setup_audio_output(c) ==
  [c EXCEPT !.clamped = TRUE, !.pulled_down = TRUE, !.hp_muted = TRUE]

buffers_onoff(c, onflag) == [c EXCEPT !.buffers = onflag]

headset_enable_on(c) == [c EXCEPT !.hp_muted = FALSE]

headset_enable_off(c) == [c EXCEPT !.hp_muted = TRUE]

\* The masks 0x81 and 0x04 for the input, 0x61 and 0x08 for the output.
set_power_state_on(c, instate) ==
  [c EXCEPT !.down = @ \ (IF instate THEN InputBlock ELSE OutputBlock)]

power_off_codec_output(c) == [c EXCEPT !.down = @ \cup OutputBlock]

power_off_codec_input(c) == [c EXCEPT !.down = @ \cup InputBlock]

input_set_output_sample_rate(c) ==
  [c EXCEPT !.rates = @ \cup {"input"}]

mike_enable(c) == [c EXCEPT !.mike_slots = TRUE]

mike_disable(c) == [c EXCEPT !.mike_slots = FALSE]

headset_mike_adc_unmutevol(c, unmute) == [c EXCEPT !.adc_muted = ~unmute]

-----------------------------------------------------------------------------
(* What the calls of patch_cirrus_real84.h and of the boot do with them. *)

\* cs42l83_inithw, cs42l83_mic_detect, cs42l83_tip_sense and the plug-in
\* interrupt, on a chip out of reset.
inithw ==
  [mic_detect |-> \h03, level |-> \h9f, hs_switch |-> \h42, auto_int |-> \h03,
   tip_mask |-> \ha0, button_mask |-> \hff, bias_sense |-> FALSE, bias_clamp |-> TRUE,
   clamped |-> TRUE, pulled_down |-> TRUE, down |-> Block,
   dividers |-> FALSE, pll |-> FALSE, oscillator |-> FALSE, serial_port |-> FALSE,
   rates |-> {}, buffers |-> FALSE, hp_muted |-> TRUE, mike_slots |-> FALSE,
   adc_muted |-> FALSE]

\* cs_8409_plugin_handle_detect.
plugin_handle_detect(c) == set_hpout_clamp_disable(button_detect_interrupts_off(c))

\* cs_8409_plugin_complete_detect when the tip is sensed; the last step starts the
\* detection of the type.
plugin_complete_detect(c) ==
  headset_detect_on(set_hpout_pulldown_off(unplug_interrupt_setup(enable_hs_auto_int_on(
    power_hs_bias_on(complete_jack_detect(c))))))

\* cs_8409_headset_type_detect_event, for a headset with a microphone or without.
headset_type_detect(c, have_mike) ==
  LET c1 == set_hpout_clamp_enable(set_hpout_pulldown_on(headset_detect_off(
              enable_hs_auto_int_off(c))))
      c2 == power_hs_bias_off(enable_hsbias_auto_clamp_off(enable_hsbias_auto_clamp_on(c1)))
  IN IF have_mike
     THEN enable_hsbias_auto_clamp_off(power_hs_bias_button_on(setup_button_detect(c2)))
     ELSE power_hs_bias_off(headset_mike_detect_off(c1))

\* cs_8409_headset_button_detect_event.
headset_button_detect(c) == mike_connected(handle_button_detect(c))

\* cs_8409_headset_mike_buttons_enable.
headset_mike_buttons_enable(c) ==
  hsbias_sense_on(enable_hsbias_auto_clamp_off(configure_headset_button_interrupts(c)))

\* The first calls of cs_8409_unplug_handle_disconnect.
unplug_detect(c, have_mike) ==
  LET c1 == headset_detect2_off(enable_hs_auto_int_off(plugin_interrupt_setup(c)))
  IN IF have_mike
     THEN disable_button_interrupts(enable_hsbias_auto_clamp_off(power_hs_bias_off(c1)))
     ELSE c1

\* Its last calls.
unplug_detect_end(c) == headset_switch_control(unplug_headset_detect_off(c))
=============================================================================
