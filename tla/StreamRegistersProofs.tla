-------------------------- MODULE StreamRegistersProofs --------------------------
(***************************************************************************)
(* Proofs about StreamPath for every amplifier, any number of moves of the *)
(* plug and of repeated prepares, and PCM operations that may overlap a    *)
(* jack event: the registers have their types, what is off is quiet, what  *)
(* is on has its clock, and the converters have the streams that are       *)
(* stored for them.                                                        *)
(*                                                                         *)
(* Each function of the driver is summed up by what it writes: Writes and  *)
(* the predicates made of it.  The predicates Quiet to Recorded are about  *)
(* the registers and a set of units that are on; the lemmas show how each  *)
(* function changes the set for which they hold.                           *)
(***************************************************************************)
EXTENDS StreamPathProofs

-----------------------------------------------------------------------------
(* The types of the registers, and what the functions leave of them.       *)

\* A register of the chip takes any of its values.
LEMMA RegisterTypes ==
  ASSUME NEW c \in Chip
  PROVE  /\ \A v \in {\h01, \h03, \h07, \h9b, \h9f, \h1f} : [c EXCEPT !.mic_detect = v] \in Chip
         /\ \A v \in {\h9f, \hb5} : [c EXCEPT !.level = v] \in Chip
         /\ \A v \in {\h00, \h42, \h82, \hc2} : [c EXCEPT !.hs_switch = v] \in Chip
         /\ \A v \in {\h01, \h03} : [c EXCEPT !.auto_int = v] \in Chip
         /\ \A v \in {\ha0, \hc0} : [c EXCEPT !.tip_mask = v] \in Chip
         /\ \A v \in {\hff, \he7, \hdc} : [c EXCEPT !.button_mask = v] \in Chip
         /\ \A v \in SUBSET Block : [c EXCEPT !.down = v] \in Chip
         /\ \A v \in SUBSET {"output", "input"} : [c EXCEPT !.rates = v] \in Chip
         /\ \A v \in BOOLEAN : [c EXCEPT !.bias_sense = v] \in Chip
         /\ \A v \in BOOLEAN : [c EXCEPT !.bias_clamp = v] \in Chip
         /\ \A v \in BOOLEAN : [c EXCEPT !.clamped = v] \in Chip
         /\ \A v \in BOOLEAN : [c EXCEPT !.pulled_down = v] \in Chip
         /\ \A v \in BOOLEAN : [c EXCEPT !.dividers = v] \in Chip
         /\ \A v \in BOOLEAN : [c EXCEPT !.pll = v] \in Chip
         /\ \A v \in BOOLEAN : [c EXCEPT !.oscillator = v] \in Chip
         /\ \A v \in BOOLEAN : [c EXCEPT !.serial_port = v] \in Chip
         /\ \A v \in BOOLEAN : [c EXCEPT !.buffers = v] \in Chip
         /\ \A v \in BOOLEAN : [c EXCEPT !.hp_muted = v] \in Chip
         /\ \A v \in BOOLEAN : [c EXCEPT !.mike_slots = v] \in Chip
         /\ \A v \in BOOLEAN : [c EXCEPT !.adc_muted = v] \in Chip
<1>1. \A v \in {\h01, \h03, \h07, \h9b, \h9f, \h1f} : [c EXCEPT !.mic_detect = v] \in Chip
  BY SMT DEF Chip
<1>2. \A v \in {\h9f, \hb5} : [c EXCEPT !.level = v] \in Chip
  BY SMT DEF Chip
<1>3. \A v \in {\h00, \h42, \h82, \hc2} : [c EXCEPT !.hs_switch = v] \in Chip
  BY SMT DEF Chip
<1>4. \A v \in {\h01, \h03} : [c EXCEPT !.auto_int = v] \in Chip
  BY SMT DEF Chip
<1>5. \A v \in {\ha0, \hc0} : [c EXCEPT !.tip_mask = v] \in Chip
  BY SMT DEF Chip
<1>6. \A v \in {\hff, \he7, \hdc} : [c EXCEPT !.button_mask = v] \in Chip
  BY SMT DEF Chip
<1>7. \A v \in SUBSET Block : [c EXCEPT !.down = v] \in Chip
  BY SMT DEF Chip
<1>8. \A v \in SUBSET {"output", "input"} : [c EXCEPT !.rates = v] \in Chip
  BY SMT DEF Chip
<1>9. \A v \in BOOLEAN : [c EXCEPT !.bias_sense = v] \in Chip
  BY SMT DEF Chip
<1>10. \A v \in BOOLEAN : [c EXCEPT !.bias_clamp = v] \in Chip
  BY SMT DEF Chip
<1>11. \A v \in BOOLEAN : [c EXCEPT !.clamped = v] \in Chip
  BY SMT DEF Chip
<1>12. \A v \in BOOLEAN : [c EXCEPT !.pulled_down = v] \in Chip
  BY SMT DEF Chip
<1>13. \A v \in BOOLEAN : [c EXCEPT !.dividers = v] \in Chip
  BY SMT DEF Chip
<1>14. \A v \in BOOLEAN : [c EXCEPT !.pll = v] \in Chip
  BY SMT DEF Chip
<1>15. \A v \in BOOLEAN : [c EXCEPT !.oscillator = v] \in Chip
  BY SMT DEF Chip
<1>16. \A v \in BOOLEAN : [c EXCEPT !.serial_port = v] \in Chip
  BY SMT DEF Chip
<1>17. \A v \in BOOLEAN : [c EXCEPT !.buffers = v] \in Chip
  BY SMT DEF Chip
<1>18. \A v \in BOOLEAN : [c EXCEPT !.hp_muted = v] \in Chip
  BY SMT DEF Chip
<1>19. \A v \in BOOLEAN : [c EXCEPT !.mike_slots = v] \in Chip
  BY SMT DEF Chip
<1>20. \A v \in BOOLEAN : [c EXCEPT !.adc_muted = v] \in Chip
  BY SMT DEF Chip
<1> QED BY <1>1, <1>2, <1>3, <1>4, <1>5, <1>6, <1>7, <1>8, <1>9, <1>10, <1>11, <1>12, <1>13,
           <1>14, <1>15, <1>16, <1>17, <1>18, <1>19, <1>20, Zenon

\* The functions of the jack write what the registers can hold.
LEMMA JackTypes ==
  ASSUME NEW c \in Chip
  PROVE  /\ button_detect_interrupts_off(c) \in Chip
         /\ set_hpout_clamp_disable(c) \in Chip
         /\ complete_jack_detect(c) \in Chip
         /\ power_hs_bias_on(c) \in Chip
         /\ enable_hs_auto_int_on(c) \in Chip
         /\ unplug_interrupt_setup(c) \in Chip
         /\ set_hpout_pulldown_off(c) \in Chip
         /\ headset_detect_on(c) \in Chip
         /\ headset_detect_off(c) \in Chip
         /\ enable_hs_auto_int_off(c) \in Chip
         /\ set_hpout_pulldown_on(c) \in Chip
         /\ set_hpout_clamp_enable(c) \in Chip
         /\ headset_mike_detect_off(c) \in Chip
         /\ power_hs_bias_off(c) \in Chip
         /\ enable_hsbias_auto_clamp_on(c) \in Chip
         /\ enable_hsbias_auto_clamp_off(c) \in Chip
         /\ setup_button_detect(c) \in Chip
         /\ power_hs_bias_button_on(c) \in Chip
         /\ handle_button_detect(c) \in Chip
         /\ mike_connected(c) \in Chip
         /\ plugin_interrupt_setup(c) \in Chip
         /\ headset_detect2_off(c) \in Chip
         /\ disable_button_interrupts(c) \in Chip
         /\ unplug_headset_detect_off(c) \in Chip
         /\ headset_switch_control(c) \in Chip
         /\ configure_headset_button_interrupts(c) \in Chip
         /\ hsbias_sense_on(c) \in Chip
<1> TRUE \in BOOLEAN /\ FALSE \in BOOLEAN
  OBVIOUS
<1>1. button_detect_interrupts_off(c) \in Chip
  BY SMT DEF button_detect_interrupts_off, Chip
<1>2. set_hpout_clamp_disable(c) \in Chip
  BY RegisterTypes, Zenon DEF set_hpout_clamp_disable
<1>3. complete_jack_detect(c) \in Chip
  <2> DEFINE d == [c EXCEPT !.level = \hb5]
  <2>1. d \in Chip
    BY SMT DEF Chip
  <2> HIDE DEF d
  <2>2. [d EXCEPT !.mic_detect = \h01] \in Chip
    BY <2>1, SMT DEF Chip
  <2> QED BY <2>2, Zenon DEF d, complete_jack_detect
<1>4. power_hs_bias_on(c) \in Chip
  <2> DEFINE d == [c EXCEPT !.hs_switch = \h00]
  <2>1. d \in Chip
    BY SMT DEF Chip
  <2> HIDE DEF d
  <2>2. [d EXCEPT !.mic_detect = \h07] \in Chip
    BY <2>1, SMT DEF Chip
  <2> QED BY <2>2, Zenon DEF d, power_hs_bias_on
<1>5. enable_hs_auto_int_on(c) \in Chip
  BY SMT DEF enable_hs_auto_int_on, Chip
<1>6. unplug_interrupt_setup(c) \in Chip
  BY SMT DEF unplug_interrupt_setup, Chip
<1>7. set_hpout_pulldown_off(c) \in Chip
  BY RegisterTypes, Zenon DEF set_hpout_pulldown_off
<1>8. headset_detect_on(c) \in Chip
  BY SMT DEF headset_detect_on, Chip
<1>9. headset_detect_off(c) \in Chip
  BY SMT DEF headset_detect_off, Chip
<1>10. enable_hs_auto_int_off(c) \in Chip
  BY SMT DEF enable_hs_auto_int_off, Chip
<1>11. set_hpout_pulldown_on(c) \in Chip
  BY RegisterTypes, Zenon DEF set_hpout_pulldown_on
<1>12. set_hpout_clamp_enable(c) \in Chip
  BY RegisterTypes, Zenon DEF set_hpout_clamp_enable
<1>13. headset_mike_detect_off(c) \in Chip
  BY SMT DEF headset_mike_detect_off, Chip
<1>14. power_hs_bias_off(c) \in Chip
  <2> DEFINE d == [c EXCEPT !.hs_switch = \h82]
  <2>1. d \in Chip
    BY SMT DEF Chip
  <2> HIDE DEF d
  <2>2. [d EXCEPT !.mic_detect = \h03] \in Chip
    BY <2>1, SMT DEF Chip
  <2> QED BY <2>2, Zenon DEF d, power_hs_bias_off
<1>15. enable_hsbias_auto_clamp_on(c) \in Chip
  BY RegisterTypes, Zenon DEF enable_hsbias_auto_clamp_on
<1>16. enable_hsbias_auto_clamp_off(c) \in Chip
  BY RegisterTypes, Zenon DEF enable_hsbias_auto_clamp_off
<1>17. setup_button_detect(c) \in Chip
  <2> DEFINE d == [c EXCEPT !.button_mask = \he7]
  <2>1. d \in Chip
    BY SMT DEF Chip
  <2> HIDE DEF d
  <2>2. [d EXCEPT !.mic_detect = \h9b] \in Chip
    BY <2>1, SMT DEF Chip
  <2> QED BY <2>2, Zenon DEF d, setup_button_detect
<1>18. power_hs_bias_button_on(c) \in Chip
  <2> DEFINE d == [c EXCEPT !.hs_switch = \h82]
  <2>1. d \in Chip
    BY SMT DEF Chip
  <2> HIDE DEF d
  <2>2. [d EXCEPT !.mic_detect = \h9f] \in Chip
    BY <2>1, SMT DEF Chip
  <2> QED BY <2>2, Zenon DEF d, power_hs_bias_button_on
<1>19. handle_button_detect(c) \in Chip
  <2> DEFINE d == [c EXCEPT !.button_mask = \hff]
  <2>1. d \in Chip
    BY SMT DEF Chip
  <2> HIDE DEF d
  <2>2. [d EXCEPT !.mic_detect = \h1f] \in Chip
    BY <2>1, SMT DEF Chip
  <2> QED BY <2>2, Zenon DEF d, handle_button_detect
<1>20. mike_connected(c) \in Chip
  <2> DEFINE d == [c EXCEPT !.level = \hb5]
  <2>1. d \in Chip
    BY SMT DEF Chip
  <2> HIDE DEF d
  <2>2. [d EXCEPT !.mic_detect = \h1f] \in Chip
    BY <2>1, SMT DEF Chip
  <2> QED BY <2>2, Zenon DEF d, mike_connected
<1>21. plugin_interrupt_setup(c) \in Chip
  BY SMT DEF plugin_interrupt_setup, Chip
<1>22. headset_detect2_off(c) \in Chip
  <2> DEFINE d == [c EXCEPT !.button_mask = \hff]
  <2>1. d \in Chip
    BY SMT DEF Chip
  <2> HIDE DEF d
  <2>2. [d EXCEPT !.mic_detect = \h03] \in Chip
    BY <2>1, SMT DEF Chip
  <2> QED BY <2>2, Zenon DEF d, headset_detect2_off
<1>23. disable_button_interrupts(c) \in Chip
  BY SMT DEF disable_button_interrupts, Chip
<1>24. unplug_headset_detect_off(c) \in Chip
  BY SMT DEF unplug_headset_detect_off, Chip
<1>25. headset_switch_control(c) \in Chip
  BY SMT DEF headset_switch_control, Chip
<1>26. configure_headset_button_interrupts(c) \in Chip
  BY SMT DEF configure_headset_button_interrupts, Chip
<1>27. hsbias_sense_on(c) \in Chip
  BY RegisterTypes, Zenon DEF hsbias_sense_on
<1> QED BY <1>1, <1>2, <1>3, <1>4, <1>5, <1>6, <1>7, <1>8, <1>9, <1>10, <1>11, <1>12, <1>13,
           <1>14, <1>15, <1>16, <1>17, <1>18, <1>19, <1>20, <1>21, <1>22, <1>23, <1>24, <1>25,
           <1>26, <1>27

\* The functions of the sound.
LEMMA SoundTypes ==
  ASSUME NEW c \in Chip, NEW flag \in BOOLEAN
  PROVE  /\ configure_int_mclk(c) \in Chip
         /\ configure_serial_port(c) \in Chip
         /\ output_set_input_sample_rate(c) \in Chip
         /\ setup_audio_output(c) \in Chip
         /\ headset_enable_on(c) \in Chip
         /\ headset_enable_off(c) \in Chip
         /\ power_off_codec_output(c) \in Chip
         /\ power_off_codec_input(c) \in Chip
         /\ input_set_output_sample_rate(c) \in Chip
         /\ mike_enable(c) \in Chip
         /\ mike_disable(c) \in Chip
         /\ power_onoff(c, flag) \in Chip
         /\ buffers_onoff(c, flag) \in Chip
         /\ set_power_state_on(c, flag) \in Chip
         /\ headset_mike_adc_unmutevol(c, flag) \in Chip
<1> TRUE \in BOOLEAN /\ FALSE \in BOOLEAN /\ (~flag) \in BOOLEAN
  OBVIOUS
<1>0. c.down \in SUBSET Block /\ c.rates \in SUBSET {"output", "input"}
  BY DEF Chip
<1>1. configure_int_mclk(c) \in Chip
  BY RegisterTypes, Zenon DEF configure_int_mclk
<1>2. configure_serial_port(c) \in Chip
  BY RegisterTypes, Zenon DEF configure_serial_port
<1>3. output_set_input_sample_rate(c) \in Chip
  <2> (c.rates \cup {"output"}) \in SUBSET {"output", "input"}
    BY <1>0 DEF Block, OutputBlock, InputBlock
  <2> QED BY RegisterTypes, Zenon DEF output_set_input_sample_rate
<1>4. setup_audio_output(c) \in Chip
  BY RegisterTypes, Zenon DEF setup_audio_output
<1>5. headset_enable_on(c) \in Chip
  BY RegisterTypes, Zenon DEF headset_enable_on
<1>6. headset_enable_off(c) \in Chip
  BY RegisterTypes, Zenon DEF headset_enable_off
<1>7. power_off_codec_output(c) \in Chip
  <2> (c.down \cup OutputBlock) \in SUBSET Block
    BY <1>0 DEF Block, OutputBlock, InputBlock
  <2> QED BY RegisterTypes, Zenon DEF power_off_codec_output
<1>8. power_off_codec_input(c) \in Chip
  <2> (c.down \cup InputBlock) \in SUBSET Block
    BY <1>0 DEF Block, OutputBlock, InputBlock
  <2> QED BY RegisterTypes, Zenon DEF power_off_codec_input
<1>9. input_set_output_sample_rate(c) \in Chip
  <2> (c.rates \cup {"input"}) \in SUBSET {"output", "input"}
    BY <1>0 DEF Block, OutputBlock, InputBlock
  <2> QED BY RegisterTypes, Zenon DEF input_set_output_sample_rate
<1>10. mike_enable(c) \in Chip
  BY RegisterTypes, Zenon DEF mike_enable
<1>11. mike_disable(c) \in Chip
  BY RegisterTypes, Zenon DEF mike_disable
<1>12. power_onoff(c, flag) \in Chip
  <2> DEFINE d == [c EXCEPT !.pll = flag]
  <2>1. d \in Chip
    BY RegisterTypes, Zenon
  <2>2. power_onoff(c, flag) = [d EXCEPT !.oscillator = flag]
    BY DEF power_onoff, Chip
  <2> HIDE DEF d
  <2>3. \A v \in BOOLEAN : [d EXCEPT !.oscillator = v] \in Chip
    BY <2>1, RegisterTypes
  <2> QED BY <2>2, <2>3
<1>13. buffers_onoff(c, flag) \in Chip
  BY RegisterTypes, Zenon DEF buffers_onoff
<1>14. set_power_state_on(c, flag) \in Chip
  <2> (c.down \ (IF flag THEN InputBlock ELSE OutputBlock)) \in SUBSET Block
    BY <1>0 DEF Block, OutputBlock, InputBlock
  <2> QED BY RegisterTypes, Zenon DEF set_power_state_on
<1>15. headset_mike_adc_unmutevol(c, flag) \in Chip
  BY RegisterTypes, Zenon DEF headset_mike_adc_unmutevol
<1> QED BY <1>1, <1>2, <1>3, <1>4, <1>5, <1>6, <1>7, <1>8, <1>9, <1>10, <1>11, <1>12, <1>13,
           <1>14, <1>15

\* The jack events.
LEMMA EventTypes ==
  ASSUME NEW c \in Chip, NEW mike
  PROVE  /\ plugin_handle_detect(c) \in Chip
         /\ plugin_complete_detect(c) \in Chip
         /\ headset_type_detect(c, mike) \in Chip
         /\ headset_button_detect(c) \in Chip
         /\ headset_mike_buttons_enable(c) \in Chip
         /\ unplug_detect(c, mike) \in Chip
         /\ unplug_detect_end(c) \in Chip
<1>1. plugin_handle_detect(c) \in Chip
  BY JackTypes DEF plugin_handle_detect
<1>2. plugin_complete_detect(c) \in Chip
  BY JackTypes DEF plugin_complete_detect
<1>3. headset_type_detect(c, mike) \in Chip
  BY JackTypes DEF headset_type_detect
<1>4. headset_button_detect(c) \in Chip
  BY JackTypes DEF headset_button_detect
<1>5. headset_mike_buttons_enable(c) \in Chip
  BY JackTypes DEF headset_mike_buttons_enable
<1>6. unplug_detect(c, mike) \in Chip
  BY JackTypes DEF unplug_detect
<1>7. unplug_detect_end(c) \in Chip
  BY JackTypes DEF unplug_detect_end
<1> QED BY <1>1, <1>2, <1>3, <1>4, <1>5, <1>6, <1>7

Hardware == [bits : SUBSET Bit, hw : [Nid -> Stored], cvt : [Nid -> Stored],
             papl : [Nid -> Stored], channels : {0, 2, 4}, chip : Chip]

\* The hardware h but for its streams, of the converters in ns, and other registers.
Leaves(g, h, ns) ==
  /\ g \in Hardware
  /\ g.papl = h.papl /\ g.channels = h.channels
  /\ \A n \in Nid \ ns : g.hw[n] = h.hw[n]

\* A field of the hardware takes any of its values.
LEMMA FieldTypes ==
  ASSUME NEW h \in Hardware
  PROVE  /\ \A v \in SUBSET Bit : [h EXCEPT !.bits = v] \in Hardware
         /\ \A v \in [Nid -> Stored] : /\ [h EXCEPT !.hw = v] \in Hardware
                                       /\ [h EXCEPT !.cvt = v] \in Hardware
                                       /\ [h EXCEPT !.papl = v] \in Hardware
         /\ \A v \in {0, 2, 4} : [h EXCEPT !.channels = v] \in Hardware
         /\ \A v \in Chip : [h EXCEPT !.chip = v] \in Hardware
BY DEF Hardware

\* A stream with another tag and first channel.
LEMMA StreamSet ==
  ASSUME NEW s \in Stored, NEW tag, NEW ch
  PROVE  [s EXCEPT !.tag = tag, !.ch = ch] = [tag |-> tag, ch |-> ch, fmt |-> s.fmt]
<1>1. s = [tag |-> s.tag, ch |-> s.ch, fmt |-> s.fmt]
  BY DEF Stored
<1> DEFINE u == [tag |-> tag, ch |-> s.ch, fmt |-> s.fmt]
<1>2. [s EXCEPT !.tag = tag] = u
  BY <1>1
<1>3. [u EXCEPT !.ch = ch] = [tag |-> tag, ch |-> ch, fmt |-> s.fmt]
  OBVIOUS
<1> QED BY <1>2, <1>3, Zenon

\* What the verbs write.
LEMMA Verbs ==
  ASSUME NEW h \in Hardware
  PROVE  /\ \A off : \A enabled \in SUBSET Bit :
              Put(h, off, enabled) = [h EXCEPT !.bits = (h.bits \ off) \cup enabled]
         /\ \A n \in Nid, tag \in 0..3, ch \in {0, 2} :
              WriteStream(h, n, tag, ch)
                = [h EXCEPT !.hw = [h.hw EXCEPT ![n] = [tag |-> tag, ch |-> ch, fmt |-> h.hw[n].fmt]]]
         /\ \A n \in Nid, fmt \in Format \cup {0} :
              WriteFormat(h, n, fmt)
                = [h EXCEPT !.hw = [h.hw EXCEPT ![n] = [tag |-> h.hw[n].tag, ch |-> h.hw[n].ch, fmt |-> fmt]]]
<1>1. \A off : \A enabled \in SUBSET Bit :
              Put(h, off, enabled) = [h EXCEPT !.bits = (h.bits \ off) \cup enabled]
  BY DEF Put, Hardware
<1>2. ASSUME NEW n \in Nid, NEW tag \in 0..3, NEW ch \in {0, 2}
      PROVE  WriteStream(h, n, tag, ch)
               = [h EXCEPT !.hw = [h.hw EXCEPT ![n] = [tag |-> tag, ch |-> ch, fmt |-> h.hw[n].fmt]]]
  <2> DEFINE s == h.hw[n]
             s1 == [s EXCEPT !.tag = tag]
             s2 == [s1 EXCEPT !.ch = ch]
             w1 == [h.hw EXCEPT ![n] = s1]
             w2 == [w1 EXCEPT ![n] = s2]
             g == [h EXCEPT !.hw = w1]
  <2>1. h.hw \in [Nid -> Stored] /\ s \in Stored
    BY DEF Hardware
  <2>2. s2 = [tag |-> tag, ch |-> ch, fmt |-> s.fmt]
    BY <2>1, StreamSet, Zenon DEF s1, s2
  <2>3. w2 = [h.hw EXCEPT ![n] = s2] /\ w1[n] = s1
    BY <2>1
  <2>4. g.hw = w1 /\ [g EXCEPT !.hw = w2] = [h EXCEPT !.hw = w2]
    BY DEF Hardware
  <2>5. WriteStream(h, n, tag, ch) = [g EXCEPT !.hw = [g.hw EXCEPT ![n] = [g.hw[n] EXCEPT !.ch = ch]]]
    BY Zenon DEF WriteStream
  <2> HIDE DEF g, w2, w1, s2, s1, s
  <2> QED BY <2>2, <2>3, <2>4, <2>5, Zenon DEF w2, s2, s
<1>3. ASSUME NEW n \in Nid, NEW fmt \in Format \cup {0}
      PROVE  WriteFormat(h, n, fmt)
               = [h EXCEPT !.hw = [h.hw EXCEPT ![n] = [tag |-> h.hw[n].tag, ch |-> h.hw[n].ch, fmt |-> fmt]]]
  <2>1. [h.hw[n] EXCEPT !.fmt = fmt] = [tag |-> h.hw[n].tag, ch |-> h.hw[n].ch, fmt |-> fmt]
    BY DEF Hardware, Stored
  <2> QED BY <2>1, Zenon DEF WriteFormat
<1> QED BY <1>1, <1>2, <1>3

-----------------------------------------------------------------------------
(* What the functions write in the converters.                             *)

\* The hardware h, but that the stream of n has been set up where the cache differs.
SetsUp(g, h, n, tag, ch, fmt) ==
  /\ Leaves(g, h, {n})
  /\ <<h.cvt[n].tag, h.cvt[n].ch>> # <<tag, ch>> => g.hw[n].tag = tag /\ g.hw[n].ch = ch
  /\ <<h.cvt[n].tag, h.cvt[n].ch>> = <<tag, ch>>
       => g.hw[n].tag = h.hw[n].tag /\ g.hw[n].ch = h.hw[n].ch
  /\ h.cvt[n].fmt # fmt => g.hw[n].fmt = fmt
  /\ h.cvt[n].fmt = fmt => g.hw[n].fmt = h.hw[n].fmt
  /\ g.cvt = [h.cvt EXCEPT ![n] = [tag |-> tag, ch |-> ch, fmt |-> fmt]]

\* The kernel's set-up skips what its cache says is there.
LEMMA SetUpSets ==
  ASSUME NEW h \in Hardware, NEW n \in Nid,
         NEW tag \in 0..3, NEW ch \in {0, 2}, NEW fmt \in Format \cup {0}
  PROVE  SetsUp(setup_stream(h, n, tag, ch, fmt), h, n, tag, ch, fmt)
<1> DEFINE c == h.cvt[n]
           h1 == IF <<c.tag, c.ch>> # <<tag, ch>> THEN WriteStream(h, n, tag, ch) ELSE h
           h2 == IF c.fmt # fmt THEN WriteFormat(h1, n, fmt) ELSE h1
           f == [h2 EXCEPT !.cvt[n] = [tag |-> tag, ch |-> ch, fmt |-> fmt]]
<1>1. h.hw \in [Nid -> Stored] /\ h.hw[n] \in Stored /\ h.cvt \in [Nid -> Stored]
  BY DEF Hardware
<1>2. Leaves(h, h, {n})
  BY DEF Leaves
<1>3. /\ Leaves(h1, h, {n}) /\ h1.cvt = h.cvt
      /\ <<c.tag, c.ch>> # <<tag, ch>> => h1.hw[n].tag = tag /\ h1.hw[n].ch = ch
      /\ <<c.tag, c.ch>> = <<tag, ch>> => h1.hw[n].tag = h.hw[n].tag /\ h1.hw[n].ch = h.hw[n].ch
      /\ h1.hw[n].fmt = h.hw[n].fmt
  <2> DEFINE s == [tag |-> tag, ch |-> ch, fmt |-> h.hw[n].fmt]
  <2>1. CASE <<c.tag, c.ch>> # <<tag, ch>>
    <3>1. h1 = [h EXCEPT !.hw = [h.hw EXCEPT ![n] = s]]
      BY <2>1, Verbs
    <3>2. s \in Stored
      BY <1>1 DEF Stored
    <3>3. [h.hw EXCEPT ![n] = s] \in [Nid -> Stored]
      BY <1>1, <3>2
    <3>4. h1 \in Hardware
      BY <3>1, <3>3, FieldTypes
    <3>5. h1.hw = [h.hw EXCEPT ![n] = s] /\ h1.cvt = h.cvt /\ h1.papl = h.papl /\ h1.channels = h.channels
      BY <3>1 DEF Hardware
    <3> HIDE DEF h1
    <3> QED BY <1>1, <2>1, <3>4, <3>5 DEF Leaves
  <2>2. CASE <<c.tag, c.ch>> = <<tag, ch>>
    BY <1>2, <2>2
  <2> QED BY <2>1, <2>2
<1> HIDE DEF h1
<1>4. /\ Leaves(h2, h, {n}) /\ h2.cvt = h.cvt
      /\ h2.hw[n].tag = h1.hw[n].tag /\ h2.hw[n].ch = h1.hw[n].ch
      /\ c.fmt # fmt => h2.hw[n].fmt = fmt
      /\ c.fmt = fmt => h2.hw[n].fmt = h.hw[n].fmt
  <2> DEFINE s == [tag |-> h1.hw[n].tag, ch |-> h1.hw[n].ch, fmt |-> fmt]
  <2>0. h1.hw \in [Nid -> Stored] /\ h1.hw[n] \in Stored
    BY <1>3 DEF Leaves, Hardware
  <2>1. CASE c.fmt # fmt
    <3>1. h2 = [h1 EXCEPT !.hw = [h1.hw EXCEPT ![n] = s]]
      BY <1>3, <2>1, Verbs DEF Leaves
    <3>2. s \in Stored
      BY <2>0 DEF Stored
    <3>3. [h1.hw EXCEPT ![n] = s] \in [Nid -> Stored]
      BY <2>0, <3>2
    <3>4. h2 \in Hardware
      BY <1>3, <3>1, <3>3, FieldTypes DEF Leaves
    <3>5. h2.hw = [h1.hw EXCEPT ![n] = s] /\ h2.cvt = h1.cvt /\ h2.papl = h1.papl /\ h2.channels = h1.channels
      BY <1>3, <3>1 DEF Hardware, Leaves
    <3> HIDE DEF h2
    <3> QED BY <1>3, <2>0, <2>1, <3>4, <3>5 DEF Leaves
  <2>2. CASE c.fmt = fmt
    BY <1>3, <2>2
  <2> QED BY <2>1, <2>2
<1> HIDE DEF h2
<1>5. /\ Leaves(f, h, {n}) /\ f.hw = h2.hw
      /\ f.cvt = [h.cvt EXCEPT ![n] = [tag |-> tag, ch |-> ch, fmt |-> fmt]]
  <2> DEFINE v == [h.cvt EXCEPT ![n] = [tag |-> tag, ch |-> ch, fmt |-> fmt]]
  <2>1. f = [h2 EXCEPT !.cvt = v]
    BY <1>4
  <2>2. v \in [Nid -> Stored]
    BY <1>1 DEF Stored
  <2>3. f \in Hardware
    BY <1>4, <2>1, <2>2, FieldTypes DEF Leaves
  <2>4. f.cvt = v /\ f.hw = h2.hw /\ f.papl = h2.papl /\ f.channels = h2.channels
    BY <1>4, <2>1 DEF Leaves, Hardware
  <2> HIDE DEF f
  <2> QED BY <1>4, <2>3, <2>4 DEF Leaves
<1>6. setup_stream(h, n, tag, ch, fmt) = f
  BY DEF setup_stream, h1, h2
<1> HIDE DEF f
<1> QED BY <1>3, <1>4, <1>5, <1>6 DEF SetsUp

\* One after the other.
LEMMA LeavesAfter ==
  ASSUME NEW f, NEW g, NEW h, NEW ms, NEW ns, Leaves(f, g, ms), Leaves(g, h, ns), ms \subseteq ns
  PROVE  Leaves(f, h, ns)
BY DEF Leaves

\* The same streams, in the registers and in the kernel's cache.
Same(g, h) == Leaves(g, h, {}) /\ g.hw = h.hw /\ g.cvt = h.cvt

\* The stream of n is s.
Rewrites(g, h, n, s) == Leaves(g, h, {n}) /\ g.hw[n] = s /\ g.cvt = h.cvt

\* A verb writes the streams of the converter it names.
LEMMA VerbsLeave ==
  ASSUME NEW h \in Hardware
  PROVE  /\ \A off : \A enabled \in SUBSET Bit : Same(Put(h, off, enabled), h)
         /\ \A n \in Nid, tag \in 0..3, ch \in {0, 2} :
              Rewrites(WriteStream(h, n, tag, ch), h, n,
                       [tag |-> tag, ch |-> ch, fmt |-> h.hw[n].fmt])
         /\ \A n \in Nid, fmt \in Format \cup {0} :
              Rewrites(WriteFormat(h, n, fmt), h, n,
                       [tag |-> h.hw[n].tag, ch |-> h.hw[n].ch, fmt |-> fmt])
         /\ \A n \in Nid : Rewrites([h EXCEPT !.hw[n] = Silent], h, n, Silent)
         /\ \A c \in Chip : Same(OnChip(h, c), h) /\ OnChip(h, c).chip = c
<1>0. h.hw \in [Nid -> Stored] /\ h.bits \in SUBSET Bit
  BY DEF Hardware
<1>1. ASSUME NEW g \in Hardware, NEW off, NEW enabled \in SUBSET Bit
      PROVE  /\ Leaves(Put(g, off, enabled), g, {})
             /\ Put(g, off, enabled).hw = g.hw /\ Put(g, off, enabled).cvt = g.cvt
             /\ Put(g, off, enabled).chip = g.chip
  <2>1. Put(g, off, enabled) = [g EXCEPT !.bits = (g.bits \ off) \cup enabled]
    BY Verbs
  <2> DEFINE v == (g.bits \ off) \cup enabled
             f == [g EXCEPT !.bits = v]
  <2>2. v \in SUBSET Bit
    BY DEF Hardware
  <2> HIDE DEF v
  <2>3. f \in Hardware
    BY <2>2, FieldTypes
  <2>4. /\ f.hw = g.hw /\ f.cvt = g.cvt /\ f.papl = g.papl /\ f.channels = g.channels
        /\ f.chip = g.chip
    BY DEF Hardware
  <2>5. Put(g, off, enabled) = f
    BY <2>1 DEF v
  <2> HIDE DEF f
  <2> QED BY <2>3, <2>4, <2>5 DEF Leaves
<1>2. ASSUME NEW n \in Nid, NEW s \in Stored
      PROVE  LET g == [h EXCEPT !.hw = [h.hw EXCEPT ![n] = s]]
             IN Leaves(g, h, {n}) /\ g.hw[n] = s /\ g.cvt = h.cvt
  <2> DEFINE g == [h EXCEPT !.hw = [h.hw EXCEPT ![n] = s]]
  <2>1. [h.hw EXCEPT ![n] = s] \in [Nid -> Stored]
    BY <1>0
  <2>2. g \in Hardware
    BY <2>1, FieldTypes
  <2>3. g.hw = [h.hw EXCEPT ![n] = s] /\ g.cvt = h.cvt /\ g.papl = h.papl /\ g.channels = h.channels
    BY DEF Hardware
  <2> HIDE DEF g
  <2>4. Leaves(g, h, {n}) /\ g.hw[n] = s /\ g.cvt = h.cvt
    BY <1>0, <2>2, <2>3 DEF Leaves
  <2> QED BY <2>4 DEF g
<1>3. ASSUME NEW n \in Nid, NEW tag \in 0..3, NEW ch \in {0, 2}
      PROVE  /\ Leaves(WriteStream(h, n, tag, ch), h, {n})
             /\ WriteStream(h, n, tag, ch).hw[n] = [tag |-> tag, ch |-> ch, fmt |-> h.hw[n].fmt]
             /\ WriteStream(h, n, tag, ch).cvt = h.cvt
  <2> DEFINE s == [tag |-> tag, ch |-> ch, fmt |-> h.hw[n].fmt]
             f == [h EXCEPT !.hw = [h.hw EXCEPT ![n] = s]]
  <2>1. s \in Stored
    BY <1>0 DEF Stored
  <2>2. WriteStream(h, n, tag, ch) = f
    BY Verbs
  <2> HIDE DEF s
  <2>3. Leaves(f, h, {n}) /\ f.hw[n] = s /\ f.cvt = h.cvt
    BY <2>1, <1>2, Zenon
  <2> HIDE DEF f
  <2> QED BY <2>2, <2>3 DEF s
<1>4. ASSUME NEW n \in Nid, NEW fmt \in Format \cup {0}
      PROVE  /\ Leaves(WriteFormat(h, n, fmt), h, {n})
             /\ WriteFormat(h, n, fmt).hw[n] = [tag |-> h.hw[n].tag, ch |-> h.hw[n].ch, fmt |-> fmt]
             /\ WriteFormat(h, n, fmt).cvt = h.cvt
  <2> DEFINE s == [tag |-> h.hw[n].tag, ch |-> h.hw[n].ch, fmt |-> fmt]
             f == [h EXCEPT !.hw = [h.hw EXCEPT ![n] = s]]
  <2>1. s \in Stored
    BY <1>0 DEF Stored
  <2>2. WriteFormat(h, n, fmt) = f
    BY Verbs
  <2> HIDE DEF s
  <2>3. Leaves(f, h, {n}) /\ f.hw[n] = s /\ f.cvt = h.cvt
    BY <2>1, <1>2, Zenon
  <2> HIDE DEF f
  <2> QED BY <2>2, <2>3 DEF s
<1>5. ASSUME NEW n \in Nid
      PROVE  LET g == [h EXCEPT !.hw[n] = Silent]
             IN Leaves(g, h, {n}) /\ g.hw[n] = Silent /\ g.cvt = h.cvt
  <2>1. Silent \in Stored
    BY DEF Silent, Stored
  <2>2. [h EXCEPT !.hw[n] = Silent] = [h EXCEPT !.hw = [h.hw EXCEPT ![n] = Silent]]
    BY Zenon
  <2> QED BY <2>1, <2>2, <1>2
<1>6. ASSUME NEW c \in Chip
      PROVE  /\ Leaves(OnChip(h, c), h, {}) /\ OnChip(h, c).hw = h.hw
             /\ OnChip(h, c).cvt = h.cvt /\ OnChip(h, c).chip = c
  <2> DEFINE g == [h EXCEPT !.chip = c]
  <2>1. /\ g \in Hardware /\ g.papl = h.papl /\ g.channels = h.channels /\ g.chip = c
        /\ g.hw = h.hw /\ g.cvt = h.cvt
    BY FieldTypes DEF Hardware
  <2> HIDE DEF g
  <2>2. {"afg"} \in SUBSET Bit
    BY DEF Bit
  <2> DEFINE f == Put(g, {}, {"afg"})
  <2>3. Leaves(f, g, {}) /\ f.hw = g.hw /\ f.cvt = g.cvt /\ f.chip = g.chip
    BY <2>1, <2>2, <1>1
  <2>4. OnChip(h, c) = f
    BY DEF OnChip, g
  <2> HIDE DEF f
  <2> QED BY <2>1, <2>3, <2>4 DEF Leaves
<1>7. \A off : \A enabled \in SUBSET Bit : Same(Put(h, off, enabled), h)
  BY <1>1, Zenon DEF Same
<1>8. \A n \in Nid, tag \in 0..3, ch \in {0, 2} :
        Rewrites(WriteStream(h, n, tag, ch), h, n, [tag |-> tag, ch |-> ch, fmt |-> h.hw[n].fmt])
  BY <1>3, Zenon DEF Rewrites
<1>9. \A n \in Nid, fmt \in Format \cup {0} :
        Rewrites(WriteFormat(h, n, fmt), h, n,
                 [tag |-> h.hw[n].tag, ch |-> h.hw[n].ch, fmt |-> fmt])
  BY <1>4, Zenon DEF Rewrites
<1>10. \A n \in Nid : Rewrites([h EXCEPT !.hw[n] = Silent], h, n, Silent)
  BY <1>5, Zenon DEF Rewrites
<1>11. \A c \in Chip : Same(OnChip(h, c), h) /\ OnChip(h, c).chip = c
  BY <1>6, Zenon DEF Same
<1> QED BY <1>7, <1>8, <1>9, <1>10, <1>11, Zenon

\* The stored parameters of n, with the channel that is asked for.
Params(h, n, u, ch) ==
  [tag |-> h.papl[n].tag, ch |-> IF u = 2 THEN ch ELSE h.papl[n].ch, fmt |-> h.papl[n].fmt]

\* A stream with a format is stored for n.
Loaded(h, n) == h.papl[n].tag # 0 /\ h.papl[n].fmt # 0

\* The stream of n is updated: u is 0 to store it, 1 for the stored channel, 2 for ch.
Updates(g, h, n, u, ch) ==
  /\ Leaves(g, h, {n})
  /\ g.cvt = [h.cvt EXCEPT ![n] = Params(h, n, u, ch)]
  /\ u > 0 /\ Loaded(h, n) => g.hw[n] = Params(h, n, u, ch)

\* The stored parameters are written to the converter, whatever the cache says,
\* if a stream has been stored.
LEMMA ReallyUpdates ==
  ASSUME NEW h \in Hardware, NEW n \in Nid, NEW u \in 0..2, NEW ch \in {0, 2}
  PROVE  Updates(really_update_stream_format(h, n, u, ch), h, n, u, ch)
<1> DEFINE p == h.papl[n]
           q == IF u = 2 THEN ch ELSE p.ch
           x == IF u > 0 THEN Silent ELSE [h.cvt[n] EXCEPT !.fmt = 0]
           h1 == [h EXCEPT !.cvt = [h.cvt EXCEPT ![n] = x]]
           g == setup_stream(h1, n, p.tag, q, p.fmt)
<1>1. /\ h.cvt \in [Nid -> Stored] /\ h.cvt[n] \in Stored
      /\ p.tag \in 0..3 /\ p.ch \in {0, 2} /\ p.fmt \in Format \cup {0} /\ q \in {0, 2}
  <2>1. p \in Stored
    BY DEF Hardware
  <2> QED BY <2>1 DEF Hardware, Stored
<1>2. x \in Stored
  <2>1. Silent \in Stored
    BY DEF Silent, Stored
  <2>2. [h.cvt[n] EXCEPT !.fmt = 0] \in Stored
    BY <1>1 DEF Stored
  <2> QED BY <2>1, <2>2
<1>3. h1 \in Hardware
  <2>1. [h.cvt EXCEPT ![n] = x] \in [Nid -> Stored]
    BY <1>1, <1>2
  <2> QED BY <2>1, FieldTypes
<1>4. /\ h1.hw = h.hw /\ h1.papl = h.papl /\ h1.channels = h.channels
      /\ h1.cvt = [h.cvt EXCEPT ![n] = x]
  BY DEF Hardware
<1>5. really_update_stream_format(h, n, u, ch) = g
  BY Zenon DEF really_update_stream_format
<1>6. h1.cvt[n] = x
  BY <1>1, <1>4
<1> HIDE DEF h1, x, q, p
<1> DEFINE s == [tag |-> p.tag, ch |-> q, fmt |-> p.fmt]
<1>7. /\ Leaves(g, h1, {n}) /\ g.cvt = [h1.cvt EXCEPT ![n] = s]
      /\ <<x.tag, x.ch>> # <<p.tag, q>> => g.hw[n].tag = p.tag /\ g.hw[n].ch = q
      /\ x.fmt # p.fmt => g.hw[n].fmt = p.fmt
  <2> HIDE DEF g
  <2>1. /\ Leaves(g, h1, {n}) /\ g.cvt = [h1.cvt EXCEPT ![n] = s]
        /\ <<h1.cvt[n].tag, h1.cvt[n].ch>> # <<p.tag, q>> => g.hw[n].tag = p.tag /\ g.hw[n].ch = q
        /\ h1.cvt[n].fmt # p.fmt => g.hw[n].fmt = p.fmt
        /\ h1.cvt[n].fmt = p.fmt => g.hw[n].fmt = h1.hw[n].fmt
    <3> DEFINE a == p.tag
               b == p.fmt
    <3>1. a \in 0..3 /\ b \in Format \cup {0}
      BY <1>1
    <3> HIDE DEF a, b
    <3>2. SetsUp(setup_stream(h1, n, a, q, b), h1, n, a, q, b)
      BY <1>1, <1>3, <3>1, SetUpSets
    <3> QED BY <3>2 DEF SetsUp, g, s, a, b
  <2> QED BY <2>1, <1>6
<1>8. u > 0 /\ p.tag # 0 /\ p.fmt # 0 => g.hw[n] = s
  <2> SUFFICES ASSUME u > 0, p.tag # 0, p.fmt # 0 PROVE g.hw[n] = s
    OBVIOUS
  <2>1. x.tag = 0 /\ x.ch = 0 /\ x.fmt = 0
    BY DEF x, Silent
  <2>2. g.hw[n].tag = p.tag /\ g.hw[n].ch = q /\ g.hw[n].fmt = p.fmt
    BY <1>7, <2>1
  <2>3. g.hw[n] \in Stored
    BY <1>7 DEF Leaves, Hardware
  <2> HIDE DEF g
  <2> QED BY <2>2, <2>3 DEF Stored
<1>9. Leaves(g, h, {n}) /\ g.cvt = [h.cvt EXCEPT ![n] = s]
  BY <1>1, <1>4, <1>7 DEF Leaves
<1> HIDE DEF g
<1> QED BY <1>5, <1>8, <1>9 DEF p, q, s, Updates, Params, Loaded

Restores(g, h, n, p) ==
  Leaves(g, h, {n}) /\ (p.tag # 0 /\ h.hw[n].fmt = p.fmt => g.hw[n] = p)

\* A converter that has kept its format gets its stream back.
LEMMA SavedBack ==
  ASSUME NEW h \in Hardware, NEW n \in Nid, NEW p \in Stored
  PROVE  Restores(update_from_save_stream_format(h, n, p), h, n, p)
<1> DEFINE x == [tag |-> 0, ch |-> 0, fmt |-> h.cvt[n].fmt]
           h1 == [h EXCEPT !.cvt = [h.cvt EXCEPT ![n] = x]]
           g == setup_stream(h1, n, p.tag, p.ch, p.fmt)
<1>1. /\ h.cvt \in [Nid -> Stored] /\ h.cvt[n] \in Stored
      /\ p.tag \in 0..3 /\ p.ch \in {0, 2} /\ p.fmt \in Format \cup {0}
  BY DEF Hardware, Stored
<1>2. x \in Stored
  BY <1>1 DEF Stored
<1>3. h1 \in Hardware
  <2>1. [h.cvt EXCEPT ![n] = x] \in [Nid -> Stored]
    BY <1>1, <1>2
  <2> QED BY <2>1, FieldTypes
<1>4. /\ h1.hw = h.hw /\ h1.papl = h.papl /\ h1.channels = h.channels
      /\ h1.cvt = [h.cvt EXCEPT ![n] = x]
  BY DEF Hardware
<1>5. update_from_save_stream_format(h, n, p) = g
  <2> DEFINE s1 == [h.cvt[n] EXCEPT !.tag = 0]
             s2 == [s1 EXCEPT !.ch = 0]
             w1 == [h.cvt EXCEPT ![n] = s1]
             w2 == [w1 EXCEPT ![n] = s2]
             f == [h EXCEPT !.cvt = w1]
  <2>1. s2 = x
    BY <1>1, StreamSet, Zenon
  <2>2. w2 = [h.cvt EXCEPT ![n] = s2] /\ w1[n] = s1
    BY <1>1
  <2>3. f.cvt = w1 /\ [f EXCEPT !.cvt = w2] = [h EXCEPT !.cvt = w2]
    BY DEF Hardware
  <2>4. [h EXCEPT !.cvt[n].tag = 0, !.cvt[n].ch = 0]
          = [f EXCEPT !.cvt = [f.cvt EXCEPT ![n] = [f.cvt[n] EXCEPT !.ch = 0]]]
    BY Zenon
  <2> HIDE DEF f, w2, w1, s2, s1, x
  <2>5. [h EXCEPT !.cvt[n].tag = 0, !.cvt[n].ch = 0] = h1
    BY <2>1, <2>2, <2>3, <2>4, Zenon DEF w2, s2
  <2> QED BY <2>5, Zenon DEF update_from_save_stream_format
<1>6. h1.cvt[n] = x
  BY <1>1, <1>4
<1> HIDE DEF h1
<1>7. /\ Leaves(g, h1, {n})
      /\ <<0, 0>> # <<p.tag, p.ch>> => g.hw[n].tag = p.tag /\ g.hw[n].ch = p.ch
      /\ x.fmt # p.fmt => g.hw[n].fmt = p.fmt
      /\ x.fmt = p.fmt => g.hw[n].fmt = h1.hw[n].fmt
  <2> HIDE DEF g
  <2>1. /\ Leaves(g, h1, {n})
        /\ <<h1.cvt[n].tag, h1.cvt[n].ch>> # <<p.tag, p.ch>> => g.hw[n].tag = p.tag /\ g.hw[n].ch = p.ch
        /\ h1.cvt[n].fmt # p.fmt => g.hw[n].fmt = p.fmt
        /\ h1.cvt[n].fmt = p.fmt => g.hw[n].fmt = h1.hw[n].fmt
    <3> DEFINE a == p.tag
               b == p.fmt
               r == p.ch
    <3>1. a \in 0..3 /\ b \in Format \cup {0} /\ r \in {0, 2}
      BY <1>1
    <3> HIDE DEF a, b, r
    <3>2. SetsUp(setup_stream(h1, n, a, r, b), h1, n, a, r, b)
      BY <1>1, <1>3, <3>1, SetUpSets
    <3> QED BY <3>2 DEF SetsUp, g, a, b, r
  <2> QED BY <2>1, <1>6
<1>8. p.tag # 0 /\ h.hw[n].fmt = p.fmt => g.hw[n] = p
  <2> SUFFICES ASSUME p.tag # 0, h.hw[n].fmt = p.fmt PROVE g.hw[n] = p
    OBVIOUS
  <2>1. g.hw[n].tag = p.tag /\ g.hw[n].ch = p.ch /\ g.hw[n].fmt = p.fmt
    BY <1>4, <1>7
  <2>2. g.hw[n] \in Stored
    BY <1>7 DEF Leaves, Hardware
  <2> HIDE DEF g
  <2> QED BY <2>1, <2>2 DEF Stored
<1> HIDE DEF g
<1> QED BY <1>4, <1>5, <1>7, <1>8 DEF Leaves, Restores

\* What the headset's output and input, and an unplug, leave of the clock, the
\* buffers and the powered blocks of the chip.
LEMMA SoundSets ==
  ASSUME NEW c \in Chip
  PROVE  /\ LET d == headset_enable_on(set_power_state_on(headset_play_setup_on(c), FALSE))
            IN d \in Chip /\ d.down = c.down \ OutputBlock /\ d.pll /\ d.oscillator
         /\ LET d == headset_disable(power_off_codec_output(headset_enable_off(c)))
            IN /\ d \in Chip /\ d.down = c.down \cup OutputBlock
               /\ ~d.pll /\ ~d.oscillator /\ ~d.buffers
         /\ LET d == headset_mike_adc_unmutevol(set_power_state_on(mike_enable(
                       input_set_output_sample_rate(c)), TRUE), TRUE)
            IN /\ d \in Chip /\ d.down = c.down \ InputBlock
               /\ d.pll = c.pll /\ d.oscillator = c.oscillator /\ d.buffers = c.buffers
         /\ LET d == mike_disable(power_off_codec_input(headset_mike_adc_unmutevol(c, FALSE)))
            IN /\ d \in Chip /\ d.down = c.down \cup InputBlock
               /\ d.pll = c.pll /\ d.oscillator = c.oscillator /\ d.buffers = c.buffers
<1> USE DEF HasSound, SameSound
<1>0. HasSound(c)
  BY DEF Chip
<1>1. LET d == headset_enable_on(set_power_state_on(headset_play_setup_on(c), FALSE))
      IN d \in Chip /\ d.down = c.down \ OutputBlock /\ d.pll /\ d.oscillator
  <2> DEFINE c1 == configure_serial_port(power_onoff(configure_int_mclk(c), TRUE))
             c2 == setup_audio_output(output_set_input_sample_rate(c1))
             c3 == buffers_onoff(c2, TRUE)
             d  == headset_enable_on(set_power_state_on(c3, FALSE))
  <2>1. HasSound(c1) /\ c1.pll /\ c1.oscillator /\ c1.down = c.down
    BY <1>0 DEF configure_serial_port, power_onoff, configure_int_mclk
  <2> HIDE DEF c1
  <2>2. HasSound(c2) /\ c2.pll /\ c2.oscillator /\ c2.down = c.down
    BY <2>1 DEF setup_audio_output, output_set_input_sample_rate
  <2> HIDE DEF c2
  <2>3. HasSound(c3) /\ c3.pll /\ c3.oscillator /\ c3.down = c.down
    BY <2>2 DEF buffers_onoff
  <2> HIDE DEF c3
  <2>4. d.pll /\ d.oscillator /\ d.down = c.down \ OutputBlock
    BY <2>3 DEF headset_enable_on, set_power_state_on
  <2>5. d = headset_enable_on(set_power_state_on(headset_play_setup_on(c), FALSE))
    BY DEF headset_play_setup_on, c1, c2, c3
  <2>6. d \in Chip
    <3>1. \A e \in Chip : /\ configure_serial_port(power_onoff(configure_int_mclk(e), TRUE)) \in Chip
                          /\ setup_audio_output(output_set_input_sample_rate(e)) \in Chip
                          /\ buffers_onoff(e, TRUE) \in Chip
                          /\ headset_enable_on(set_power_state_on(e, FALSE)) \in Chip
      BY SoundTypes
    <3>2. c1 \in Chip
      BY <3>1 DEF c1
    <3>3. c2 \in Chip
      BY <3>1, <3>2 DEF c2
    <3>4. c3 \in Chip
      BY <3>1, <3>3 DEF c3
    <3> QED BY <3>1, <3>4
  <2> HIDE DEF d
  <2> QED BY <2>4, <2>5, <2>6
<1>2. LET d == headset_disable(power_off_codec_output(headset_enable_off(c)))
      IN /\ d \in Chip /\ d.down = c.down \cup OutputBlock
         /\ ~d.pll /\ ~d.oscillator /\ ~d.buffers
  <2> DEFINE c1 == headset_enable_off(c)
             c2 == power_off_codec_output(c1)
             d  == headset_disable(c2)
  <2>1. HasSound(c1) /\ c1.down = c.down
    BY <1>0 DEF headset_enable_off
  <2>2. c1 \in Chip
    BY SoundTypes, Zenon
  <2> HIDE DEF c1
  <2>3. HasSound(c2) /\ c2.down = c.down \cup OutputBlock
    BY <2>1 DEF power_off_codec_output
  <2>4. c2 \in Chip
    BY <2>2, SoundTypes, Zenon
  <2> HIDE DEF c2
  <2>5. ~d.pll /\ ~d.oscillator /\ ~d.buffers /\ d.down = c.down \cup OutputBlock
    BY <2>3 DEF headset_disable, power_onoff, buffers_onoff
  <2>6. d \in Chip
    <3>1. buffers_onoff(c2, FALSE) \in Chip
      BY <2>4, SoundTypes, Zenon
    <3>2. power_onoff(buffers_onoff(c2, FALSE), FALSE) \in Chip
      BY <3>1, SoundTypes, Zenon
    <3> QED BY <3>2 DEF headset_disable
  <2> HIDE DEF d
  <2> QED BY <2>5, <2>6 DEF d, c2, c1
<1>3. LET d == headset_mike_adc_unmutevol(set_power_state_on(mike_enable(
                 input_set_output_sample_rate(c)), TRUE), TRUE)
      IN /\ d \in Chip /\ d.down = c.down \ InputBlock
         /\ d.pll = c.pll /\ d.oscillator = c.oscillator /\ d.buffers = c.buffers
  <2> DEFINE c1 == input_set_output_sample_rate(c)
             c2 == mike_enable(c1)
             c3 == set_power_state_on(c2, TRUE)
             d  == headset_mike_adc_unmutevol(c3, TRUE)
  <2>1. c1 \in Chip
    BY SoundTypes, Zenon
  <2>2. /\ HasSound(c1) /\ c1.pll = c.pll /\ c1.oscillator = c.oscillator
        /\ c1.buffers = c.buffers /\ c1.down = c.down
    BY <1>0 DEF input_set_output_sample_rate
  <2> HIDE DEF c1
  <2>3. c2 \in Chip
    BY <2>1, SoundTypes, Zenon
  <2>4. /\ HasSound(c2) /\ c2.pll = c.pll /\ c2.oscillator = c.oscillator
        /\ c2.buffers = c.buffers /\ c2.down = c.down
    BY <2>2 DEF mike_enable
  <2> HIDE DEF c2
  <2>5. c3 \in Chip
    BY <2>3, SoundTypes, Zenon
  <2>6. /\ HasSound(c3) /\ c3.pll = c.pll /\ c3.oscillator = c.oscillator
        /\ c3.buffers = c.buffers /\ c3.down = c.down \ InputBlock
    BY <2>4 DEF set_power_state_on
  <2> HIDE DEF c3
  <2>7. d \in Chip
    BY <2>5, SoundTypes, Zenon
  <2>8. /\ d.pll = c.pll /\ d.oscillator = c.oscillator
        /\ d.buffers = c.buffers /\ d.down = c.down \ InputBlock
    BY <2>6 DEF headset_mike_adc_unmutevol
  <2> HIDE DEF d
  <2> QED BY <2>7, <2>8 DEF d, c3, c2, c1
<1>4. LET d == mike_disable(power_off_codec_input(headset_mike_adc_unmutevol(c, FALSE)))
      IN /\ d \in Chip /\ d.down = c.down \cup InputBlock
         /\ d.pll = c.pll /\ d.oscillator = c.oscillator /\ d.buffers = c.buffers
  <2> DEFINE c1 == headset_mike_adc_unmutevol(c, FALSE)
             c2 == power_off_codec_input(c1)
             d  == mike_disable(c2)
  <2>1. c1 \in Chip
    BY SoundTypes, Zenon
  <2>2. /\ HasSound(c1) /\ c1.pll = c.pll /\ c1.oscillator = c.oscillator
        /\ c1.buffers = c.buffers /\ c1.down = c.down
    BY <1>0 DEF headset_mike_adc_unmutevol
  <2> HIDE DEF c1
  <2>3. c2 \in Chip
    BY <2>1, SoundTypes, Zenon
  <2>4. /\ HasSound(c2) /\ c2.pll = c.pll /\ c2.oscillator = c.oscillator
        /\ c2.buffers = c.buffers /\ c2.down = c.down \cup InputBlock
    BY <2>2 DEF power_off_codec_input
  <2> HIDE DEF c2
  <2>5. d \in Chip
    BY <2>3, SoundTypes, Zenon
  <2>6. /\ d.pll = c.pll /\ d.oscillator = c.oscillator
        /\ d.buffers = c.buffers /\ d.down = c.down \cup InputBlock
    BY <2>4 DEF mike_disable
  <2> HIDE DEF d
  <2> QED BY <2>5, <2>6 DEF d, c2, c1
<1> HIDE DEF HasSound, SameSound
<1> QED BY <1>1, <1>2, <1>3, <1>4

\* What an unplug leaves of them.
LEMMA UnplugSets ==
  ASSUME NEW c \in Chip
  PROVE  /\ \A mike :
              LET off(e) == power_off_codec_output(headset_enable_off(e))
                  c1 == buffers_onoff(off(c), FALSE)
                  d  == off(IF mike THEN c1 ELSE power_onoff(c1, FALSE))
              IN /\ d \in Chip /\ d.down = c.down \cup OutputBlock /\ ~d.buffers
                 /\ c.pll = c.oscillator => d.pll = d.oscillator
         /\ LET d == power_onoff(mike_disable(c), FALSE)
            IN /\ d \in Chip /\ d.down = c.down /\ d.buffers = c.buffers
               /\ ~d.pll /\ ~d.oscillator
<1> USE DEF HasSound, SameSound
<1>0. HasSound(c)
  BY DEF Chip
<1> DEFINE off(e) == power_off_codec_output(headset_enable_off(e))
<1>1. ASSUME NEW e \in Chip, HasSound(e)
      PROVE  /\ HasSound(off(e)) /\ off(e).pll = e.pll /\ off(e).oscillator = e.oscillator
             /\ off(e).buffers = e.buffers /\ off(e).down = e.down \cup OutputBlock
             /\ off(e) \in Chip
  <2>1. headset_enable_off(e) \in Chip
    BY SoundTypes, Zenon
  <2>2. off(e) \in Chip
    BY <2>1, SoundTypes, Zenon
  <2>3. /\ HasSound(off(e)) /\ off(e).pll = e.pll /\ off(e).oscillator = e.oscillator
        /\ off(e).buffers = e.buffers /\ off(e).down = e.down \cup OutputBlock
    BY <1>1 DEF power_off_codec_output, headset_enable_off
  <2> QED BY <2>2, <2>3
<1>2. ASSUME NEW mike
      PROVE  LET c1 == buffers_onoff(off(c), FALSE)
                 d  == off(IF mike THEN c1 ELSE power_onoff(c1, FALSE))
             IN /\ d \in Chip /\ d.down = c.down \cup OutputBlock /\ ~d.buffers
                /\ c.pll = c.oscillator => d.pll = d.oscillator
  <2> DEFINE c1 == buffers_onoff(off(c), FALSE)
             c2 == IF mike THEN c1 ELSE power_onoff(c1, FALSE)
             d  == off(c2)
  <2>1. /\ HasSound(off(c)) /\ off(c).pll = c.pll /\ off(c).oscillator = c.oscillator
        /\ off(c).down = c.down \cup OutputBlock /\ off(c) \in Chip
    BY <1>0, <1>1
  <2> HIDE DEF off
  <2>2. /\ HasSound(c1) /\ c1.pll = c.pll /\ c1.oscillator = c.oscillator /\ ~c1.buffers
        /\ c1.down = c.down \cup OutputBlock
    BY <2>1 DEF buffers_onoff
  <2>3. c1 \in Chip
    BY <2>1, SoundTypes, Zenon
  <2> HIDE DEF c1
  <2>4. /\ HasSound(c2) /\ c2.down = c.down \cup OutputBlock /\ ~c2.buffers
        /\ c.pll = c.oscillator => c2.pll = c2.oscillator
    BY <2>2 DEF power_onoff
  <2>5. c2 \in Chip
    BY <2>3, SoundTypes, Zenon
  <2> HIDE DEF c2
  <2>6. /\ d \in Chip /\ d.down = c.down \cup OutputBlock /\ ~d.buffers
        /\ c.pll = c.oscillator => d.pll = d.oscillator
    BY <2>4, <2>5, <1>1
  <2> HIDE DEF d
  <2> QED BY <2>6 DEF d, c2, c1
<1>3. LET d == power_onoff(mike_disable(c), FALSE)
      IN /\ d \in Chip /\ d.down = c.down /\ d.buffers = c.buffers
         /\ ~d.pll /\ ~d.oscillator
  <2>1. mike_disable(c) \in Chip
    BY SoundTypes, Zenon
  <2>2. power_onoff(mike_disable(c), FALSE) \in Chip
    BY <2>1, SoundTypes, Zenon
  <2>3. LET d == power_onoff(mike_disable(c), FALSE)
        IN d.down = c.down /\ d.buffers = c.buffers /\ ~d.pll /\ ~d.oscillator
    BY <1>0 DEF power_onoff, mike_disable
  <2> QED BY <2>2, <2>3
<1> HIDE DEF HasSound, SameSound
<1> QED BY <1>2, <1>3

\* A converter that is given no stream.
LEMMA ClearSets ==
  ASSUME NEW h \in Hardware, NEW n \in Nid
  PROVE  /\ Rewrites(WriteStream(h, n, 0, 0), h, n, [tag |-> 0, ch |-> 0, fmt |-> h.hw[n].fmt])
         /\ Rewrites(save_and_clear_stream_format(h, n), h, n,
                     [tag |-> 0, ch |-> 0, fmt |-> h.hw[n].fmt])
<1>1. 0 \in 0..3 /\ 0 \in {0, 2}
  OBVIOUS
<1>2. Rewrites(WriteStream(h, n, 0, 0), h, n, [tag |-> 0, ch |-> 0, fmt |-> h.hw[n].fmt])
  BY <1>1, VerbsLeave, Zenon
<1> QED BY <1>2 DEF save_and_clear_stream_format

\* The speakers' converters get what has been stored for them, and keep it when
\* they are synchronised.
LEMMA PlaySets ==
  ASSUME NEW h \in Hardware
  PROVE  LET ch == IF h.channels = 2 THEN 0 ELSE 2
         IN /\ Leaves(play(h), h, {\h02, \h03})
            /\ Loaded(h, \h02) => play(h).hw[\h02] = Params(h, \h02, 2, 0)
            /\ Loaded(h, \h03) => play(h).hw[\h03] = Params(h, \h03, 2, ch)
<1> DEFINE ch == IF h.channels = 2 THEN 0 ELSE 2
           p2 == Params(h, \h02, 2, 0)
           p3 == Params(h, \h03, 2, ch)
<1>n. \h02 \in Nid /\ \h03 \in Nid /\ \h02 # \h03 /\ ch \in {0, 2} /\ 2 \in 0..2
  BY DEF Nid
<1>b. /\ {"slots12", "pads_amps", "src_amps", "clock_amps", "gate", "pin24"} \in SUBSET Bit
      /\ {"slots34", "clock_amps", "gate", "pin25"} \in SUBSET Bit
      /\ {"sync2", "sync3"} \in SUBSET Bit
      /\ {"amps12"} \in SUBSET Bit /\ {"amps34"} \in SUBSET Bit /\ {} \in SUBSET Bit
  BY DEF Bit
<1>p. /\ p2 \in Stored /\ p3 \in Stored
      /\ Loaded(h, \h02) => p2.tag # 0 /\ p2.fmt # 0
      /\ Loaded(h, \h03) => p3.tag # 0 /\ p3.fmt # 0
  BY <1>n DEF Params, Loaded, Hardware, Stored
<1> HIDE DEF p2, p3, ch
<1> DEFINE Set(g) == /\ Leaves(g, h, {\h02, \h03})
                     /\ g.cvt[\h02] = p2 /\ (Loaded(h, \h02) => g.hw[\h02] = p2)
<1>1. ASSUME NEW g \in Hardware, NEW f, Same(f, g)
      PROVE  f \in Hardware /\ f.hw = g.hw /\ f.cvt = g.cvt /\ f.papl = g.papl /\ f.channels = g.channels
  BY <1>1 DEF Same, Leaves
<1>2. Set(setup_TDM_amps12(h, FALSE))
  <2> DEFINE g == really_update_stream_format(h, \h02, 2, 0)
             f == Put(g, {}, {"slots12", "pads_amps", "src_amps", "clock_amps", "gate", "pin24"})
  <2>1. Updates(g, h, \h02, 2, 0)
    BY <1>n, ReallyUpdates
  <2> HIDE DEF g
  <2>2. Leaves(g, h, {\h02}) /\ g.cvt[\h02] = p2 /\ (Loaded(h, \h02) => g.hw[\h02] = p2)
    BY <2>1, <1>n DEF Updates, p2, Hardware
  <2>3. Same(f, g)
    BY <2>2, <1>b, VerbsLeave DEF Leaves
  <2>4. setup_TDM_amps12(h, FALSE) = f
    BY DEF setup_TDM_amps12, g
  <2> HIDE DEF f
  <2> QED BY <2>2, <2>3, <2>4 DEF Same, Leaves
<1>3. ASSUME NEW g, Set(g), NEW amps
      PROVE  Set(setup_amps12(g, amps)) /\ setup_amps12(g, amps).channels = g.channels
  <2> DEFINE e == IF Starts(amps) THEN {"amps12"} ELSE {}
             f == Put(g, {}, e)
  <2>1. e \in SUBSET Bit
    BY <1>b
  <2> HIDE DEF e
  <2>2. Same(f, g)
    BY <2>1, <1>3, VerbsLeave DEF Leaves
  <2>3. setup_amps12(g, amps) = f
    BY DEF setup_amps12, e
  <2> HIDE DEF f
  <2> QED BY <1>3, <2>2, <2>3 DEF Same, Leaves
<1> DEFINE Both(g) == Set(g) /\ g.cvt[\h03] = p3 /\ (Loaded(h, \h03) => g.hw[\h03] = p3)
<1>4. ASSUME NEW g, Set(g)
      PROVE  Both(setup_TDM_amps34(g, FALSE))
  <2> DEFINE a == really_update_stream_format(g, \h03, 2, ch)
             f == Put(a, {}, {"slots34", "clock_amps", "gate", "pin25"})
  <2>0. g \in Hardware /\ g.channels = h.channels /\ g.papl = h.papl
    BY <1>4 DEF Leaves
  <2>1. Updates(a, g, \h03, 2, ch)
    BY <2>0, <1>n, ReallyUpdates
  <2> HIDE DEF a
  <2>2. /\ Leaves(a, g, {\h03}) /\ a.cvt = [g.cvt EXCEPT ![\h03] = p3]
        /\ Loaded(h, \h03) => a.hw[\h03] = p3
    BY <2>1, <2>0 DEF Updates, Params, Loaded, p3
  <2>3. Same(f, a)
    BY <2>2, <1>b, VerbsLeave DEF Leaves
  <2>4. setup_TDM_amps34(g, FALSE) = f
    BY <2>0 DEF setup_TDM_amps34, a, ch
  <2> HIDE DEF f
  <2>5. a.cvt[\h02] = p2 /\ a.cvt[\h03] = p3 /\ a.hw[\h02] = g.hw[\h02]
    BY <2>0, <2>2, <1>4, <1>n DEF Leaves, Hardware
  <2>6. Leaves(f, h, {\h02, \h03}) /\ f.hw = a.hw /\ f.cvt = a.cvt
    BY <2>2, <2>3, <1>4 DEF Same, Leaves
  <2> QED BY <2>2, <2>4, <2>5, <2>6, <1>4
<1>5. ASSUME NEW g, Both(g), NEW amps
      PROVE  Both(setup_amps34(g, amps))
  <2> DEFINE e == IF Starts(amps) THEN {"amps34"} ELSE {}
             f == Put(g, {}, e)
  <2>1. e \in SUBSET Bit
    BY <1>b
  <2> HIDE DEF e
  <2>2. Same(f, g)
    BY <2>1, <1>5, VerbsLeave DEF Leaves
  <2>3. setup_amps34(g, amps) = f
    BY DEF setup_amps34, e
  <2> HIDE DEF f
  <2> QED BY <1>5, <2>2, <2>3 DEF Same, Leaves
<1>6. ASSUME NEW g, Both(g)
      PROVE  LET f == sync_converters_on(g, FALSE)
             IN /\ Leaves(f, h, {\h02, \h03})
                /\ Loaded(h, \h02) => f.hw[\h02] = p2
                /\ Loaded(h, \h03) => f.hw[\h03] = p3
  <2> DEFINE a == save_and_clear_stream_format(g, \h02)
             b == save_and_clear_stream_format(a, \h03)
             c == Put(b, {}, {"sync2", "sync3"})
             d == update_from_save_stream_format(c, \h02, g.cvt[\h02])
             f == update_from_save_stream_format(d, \h03, g.cvt[\h03])
  <2>0. /\ g \in Hardware /\ g.papl = h.papl /\ g.channels = h.channels
        /\ Leaves(g, h, {\h02, \h03})
    BY <1>6 DEF Leaves
  <2>1. Rewrites(a, g, \h02, [tag |-> 0, ch |-> 0, fmt |-> g.hw[\h02].fmt])
    BY <2>0, <1>n, ClearSets
  <2> HIDE DEF a
  <2>2. /\ a \in Hardware /\ a.hw[\h02].fmt = g.hw[\h02].fmt /\ a.hw[\h03] = g.hw[\h03]
        /\ Leaves(a, h, {\h02, \h03})
    BY <2>0, <2>1, <1>n DEF Rewrites, Leaves
  <2>3. Rewrites(b, a, \h03, [tag |-> 0, ch |-> 0, fmt |-> a.hw[\h03].fmt])
    BY <2>2, <1>n, ClearSets
  <2> HIDE DEF b
  <2>4. /\ b \in Hardware /\ b.hw[\h02].fmt = g.hw[\h02].fmt /\ b.hw[\h03].fmt = g.hw[\h03].fmt
        /\ Leaves(b, h, {\h02, \h03})
    BY <2>2, <2>3, <1>n DEF Rewrites, Leaves
  <2>5. Same(c, b)
    BY <2>4, <1>b, VerbsLeave
  <2> HIDE DEF c
  <2>6. /\ c \in Hardware /\ c.hw[\h02].fmt = g.hw[\h02].fmt /\ c.hw[\h03].fmt = g.hw[\h03].fmt
        /\ Leaves(c, h, {\h02, \h03})
    BY <2>4, <2>5 DEF Same, Leaves
  <2>7. Restores(d, c, \h02, p2)
    BY <2>6, <1>6, <1>n, <1>p, SavedBack DEF d
  <2>8. f = update_from_save_stream_format(d, \h03, p3)
    BY <1>6
  <2> HIDE DEF d
  <2>9. /\ d \in Hardware /\ d.hw[\h03].fmt = g.hw[\h03].fmt
        /\ Leaves(d, h, {\h02, \h03})
        /\ Loaded(h, \h02) => d.hw[\h02] = p2
    BY <2>6, <2>7, <1>6, <1>n, <1>p DEF Restores, Leaves
  <2>10. Restores(f, d, \h03, p3)
    BY <2>8, <2>9, <1>n, <1>p, SavedBack
  <2>11. f = sync_converters_on(g, FALSE)
    BY DEF sync_converters_on, a, b, c, d
  <2> HIDE DEF f
  <2>12. /\ Leaves(f, h, {\h02, \h03})
         /\ Loaded(h, \h02) => f.hw[\h02] = p2
         /\ Loaded(h, \h03) => f.hw[\h03] = p3
    BY <2>9, <2>10, <1>6, <1>n, <1>p DEF Restores, Leaves
  <2> QED BY <2>11, <2>12
<1> DEFINE h1 == setup_TDM_amps12(h, FALSE)
           h2 == setup_amps12(h1, TRUE)
           h3 == setup_TDM_amps34(h2, FALSE)
           h4 == setup_amps34(h3, TRUE)
           g  == sync_converters_on(h4, FALSE)
<1>7. play(h) = g
  BY DEF play
<1> HIDE DEF Set, Both
<1>8. Set(h1)
  BY <1>2
<1> HIDE DEF h1
<1>9. Set(h2)
  BY <1>8, <1>3
<1> HIDE DEF h2
<1>10. Both(h3)
  BY <1>9, <1>4
<1> HIDE DEF h3
<1>11. Both(h4)
  BY <1>10, <1>5
<1> HIDE DEF h4
<1>12. /\ Leaves(g, h, {\h02, \h03})
       /\ Loaded(h, \h02) => g.hw[\h02] = p2
       /\ Loaded(h, \h03) => g.hw[\h03] = p3
  BY <1>11, <1>6
<1> HIDE DEF g
<1> QED BY <1>7, <1>12 DEF p2, p3, ch

\* What a verb does to hardware that is already written to.
LEMMA VerbsThen ==
  ASSUME NEW h, NEW ns, NEW g, Leaves(g, h, ns)
  PROVE  /\ \A off : \A enabled \in SUBSET Bit : Leaves(Put(g, off, enabled), h, ns)
         /\ \A n \in Nid \cap ns : Leaves(WriteStream(g, n, 0, 0), h, ns)
         /\ \A n \in Nid \cap ns : Leaves(WriteStream(g, n, 1, 0), h, ns)
         /\ \A n \in Nid \cap ns : Leaves([g EXCEPT !.hw[n] = Silent], h, ns)
         /\ \A n \in Nid \cap ns, u \in 0..2, ch \in {0, 2} :
              Leaves(really_update_stream_format(g, n, u, ch), h, ns)
<1>0. g \in Hardware
  BY DEF Leaves
<1>1. ASSUME NEW off, NEW enabled \in SUBSET Bit
      PROVE  Leaves(Put(g, off, enabled), h, ns)
  <2>1. Same(Put(g, off, enabled), g)
    BY <1>0, VerbsLeave
  <2> QED BY <2>1 DEF Same, Leaves
<1>2. ASSUME NEW n \in Nid \cap ns
      PROVE  /\ Leaves(WriteStream(g, n, 0, 0), h, ns)
             /\ Leaves(WriteStream(g, n, 1, 0), h, ns)
             /\ Leaves([g EXCEPT !.hw[n] = Silent], h, ns)
  <2>1. Rewrites(WriteStream(g, n, 0, 0), g, n, [tag |-> 0, ch |-> 0, fmt |-> g.hw[n].fmt])
    BY <1>0, ClearSets
  <2>2. Rewrites([g EXCEPT !.hw[n] = Silent], g, n, Silent)
    BY <1>0, VerbsLeave, Zenon
  <2>3. \A f, s : Rewrites(f, g, n, s) => Leaves(f, h, ns)
    BY DEF Rewrites, Leaves
  <2>4. 1 \in 0..3 /\ 0 \in {0, 2}
    OBVIOUS
  <2>5. Rewrites(WriteStream(g, n, 1, 0), g, n, [tag |-> 1, ch |-> 0, fmt |-> g.hw[n].fmt])
    BY <1>0, <2>4, VerbsLeave, Zenon
  <2> QED BY <2>1, <2>2, <2>3, <2>5, Zenon
<1>3. ASSUME NEW n \in Nid \cap ns, NEW u \in 0..2, NEW ch \in {0, 2}
      PROVE  Leaves(really_update_stream_format(g, n, u, ch), h, ns)
  <2>1. Updates(really_update_stream_format(g, n, u, ch), g, n, u, ch)
    BY <1>0, ReallyUpdates
  <2>2. \A f : Updates(f, g, n, u, ch) => Leaves(f, h, ns)
    BY DEF Updates, Leaves
  <2> QED BY <2>1, <2>2
<1> QED BY <1>1, <1>2, <1>3, Zenon

\* The speakers' converters end up with nothing.
LEMMA AmpsOffSets ==
  ASSUME NEW h \in Hardware
  PROVE  LET g == amps_disable_streaming(h)
         IN /\ Leaves(g, h, {\h02, \h03})
            /\ g.hw[\h02] = Silent /\ g.hw[\h03] = Silent
<1> DEFINE ns == {\h02, \h03}
<1>n. \h02 \in Nid /\ \h03 \in Nid /\ \h02 # \h03 /\ \h02 \in Nid \cap ns /\ \h03 \in Nid \cap ns
  BY DEF Nid
<1>b. {"src_amps"} \in SUBSET Bit /\ {"gate"} \in SUBSET Bit /\ {} \in SUBSET Bit
  BY DEF Bit
<1> HIDE DEF ns
<1>1. Leaves(sync_converters_off(h, FALSE), h, ns)
  <2> DEFINE a == save_and_clear_stream_format(h, \h02)
             b == save_and_clear_stream_format(a, \h03)
             c == Put(b, {"sync2", "sync3", "src_headset"}, {"src_amps"})
             d == update_from_save_stream_format(c, \h02, h.cvt[\h02])
             f == update_from_save_stream_format(d, \h03, h.cvt[\h03])
  <2>0. Leaves(h, h, ns) /\ h.cvt[\h02] \in Stored /\ h.cvt[\h03] \in Stored
    BY <1>n DEF Leaves, Hardware
  <2>1. Leaves(a, h, ns)
    BY <2>0, <1>n, VerbsThen, Zenon DEF save_and_clear_stream_format
  <2> HIDE DEF a
  <2>2. Leaves(b, h, ns)
    BY <2>1, <1>n, VerbsThen, Zenon DEF save_and_clear_stream_format
  <2> HIDE DEF b
  <2>3. Leaves(c, h, ns)
    BY <2>2, <1>b, VerbsThen
  <2> HIDE DEF c
  <2>4. \A e, g, n, p : n \in Nid \cap ns /\ Leaves(g, h, ns) /\ Restores(e, g, n, p) => Leaves(e, h, ns)
    BY DEF Restores, Leaves
  <2>5. \A e, g, n, p : Leaves(g, h, ns) => g \in Hardware
    BY DEF Leaves
  <2>6. Restores(d, c, \h02, h.cvt[\h02])
    BY <2>0, <2>3, <2>5, <1>n, SavedBack
  <2> HIDE DEF d
  <2>7. Leaves(d, h, ns)
    BY <2>3, <2>4, <2>6, <1>n
  <2>8. Restores(f, d, \h03, h.cvt[\h03])
    BY <2>0, <2>7, <2>5, <1>n, SavedBack
  <2>9. sync_converters_off(h, FALSE) = f
    BY DEF sync_converters_off, a, b, c, d
  <2> HIDE DEF f
  <2> QED BY <2>4, <2>7, <2>8, <2>9, <1>n
<1> DEFINE h0 == sync_converters_off(h, FALSE)
           h1 == disable_amps12(h0)
           e1 == [h1 EXCEPT !.hw[\h02] = Silent]
           h2 == disable_TDM_amps12(h1)
           h3 == disable_amps34(h2)
           e3 == [h3 EXCEPT !.hw[\h03] = Silent]
           h4 == disable_TDM_amps34(h3)
<1>h. \A g : Leaves(g, h, ns) => g \in Hardware
  BY DEF Leaves
<1>s. \A f, g : Same(f, g) => f.hw = g.hw
  BY DEF Same
<1> HIDE DEF h0
<1>2. Leaves(h1, h, ns)
  BY <1>1, <1>b, VerbsThen, Zenon DEF disable_amps12, h0
<1> HIDE DEF h1
<1>3. Leaves(e1, h, ns) /\ e1.hw[\h02] = Silent
  <2>1. Rewrites(e1, h1, \h02, Silent)
    BY <1>2, <1>h, <1>n, VerbsLeave, Zenon
  <2> QED BY <1>2, <1>n, <2>1, VerbsThen, Zenon DEF Rewrites
<1>4. h2 = Put(e1, {"slots12", "pin24"}, {"gate"})
  BY Zenon DEF disable_TDM_amps12
<1> HIDE DEF e1, h2
<1>5. Leaves(h2, h, ns) /\ h2.hw[\h02] = Silent
  <2>1. Same(h2, e1)
    BY <1>3, <1>4, <1>h, <1>b, VerbsLeave
  <2> QED BY <1>3, <1>4, <1>b, <2>1, <1>s, VerbsThen
<1>6. Leaves(h3, h, ns) /\ h3.hw[\h02] = Silent
  <2>1. h3 = Put(h2, {"amps34"}, {})
    BY DEF disable_amps34
  <2> HIDE DEF h3
  <2>2. Same(h3, h2)
    BY <1>5, <1>h, <1>b, <2>1, VerbsLeave
  <2> QED BY <1>5, <1>b, <2>1, <2>2, <1>s, VerbsThen
<1> HIDE DEF h3
<1>7. Leaves(e3, h, ns) /\ e3.hw[\h03] = Silent /\ e3.hw[\h02] = Silent
  <2>1. Rewrites(e3, h3, \h03, Silent)
    BY <1>6, <1>h, <1>n, VerbsLeave, Zenon
  <2>2. Leaves(e3, h, ns)
    BY <1>6, <1>n, VerbsThen, Zenon
  <2> HIDE DEF e3
  <2> QED BY <1>6, <1>n, <2>1, <2>2 DEF Rewrites, Leaves
<1>8. h4 = Put(e3, {"slots34", "pads_amps", "src_amps", "clock_amps", "clock_headset",
                    "gate", "pin25"}, {})
  BY Zenon DEF disable_TDM_amps34
<1> HIDE DEF e3, h4
<1>9. Leaves(h4, h, ns) /\ h4.hw[\h02] = Silent /\ h4.hw[\h03] = Silent
  <2>1. Same(h4, e3)
    BY <1>7, <1>8, <1>h, <1>b, VerbsLeave
  <2> QED BY <1>7, <1>8, <1>b, <2>1, <1>s, VerbsThen
<1>10. amps_disable_streaming(h) = h4
  BY Zenon DEF amps_disable_streaming, h0, h1, h2, h3, h4
<1> QED BY <1>9, <1>10 DEF ns

\* The functions of the internal inputs write the converter of the microphone.
LEMMA InputsLeave ==
  ASSUME NEW h \in Hardware
  PROVE  /\ Leaves(inputs_power_nids_off(h), h, {\h22})
         /\ Leaves(inputs_power_nids_off(intmike_linein_resetup(h)), h, {\h22})
         /\ Leaves(intmike_linein_disable(h), h, {\h22})
         /\ Leaves(capture(h), h, {\h22})
         /\ Leaves(capturestop(h), h, {\h22})
         /\ Leaves(volume_unmute(h), h, {\h22})
         /\ Leaves(boot_inputs_off(h), h, {\h22})
         /\ Leaves(boot_intmike(h), h, {\h22})
<1> DEFINE In(g) == Leaves(g, h, {\h22})
<1>b. InputBit \in SUBSET Bit
  BY DEF InputBit, MikeBit, Bit
<1>1. ASSUME NEW g, In(g)
      PROVE  /\ \A off, enabled : enabled \subseteq InputBit => In(Put(g, off, enabled))
             /\ In(WriteStream(g, \h22, 0, 0))
             /\ In(WriteStream(g, \h22, 1, 0))
             /\ In([g EXCEPT !.hw[\h22] = Silent])
             /\ In(really_update_stream_format(g, \h22, 0, 0))
             /\ In(really_update_stream_format(g, \h22, 1, 0))
  <2>1. \h22 \in Nid \cap {\h22} /\ 0 \in 0..2 /\ 1 \in 0..2 /\ 0 \in {0, 2}
    BY DEF Nid
  <2>2. \A enabled : enabled \subseteq InputBit => enabled \in SUBSET Bit
    BY <1>b
  <2> QED BY <1>1, <2>1, <2>2, VerbsThen, Zenon
<1> HIDE DEF In
<1>2. \A g : In(g) =>
        /\ In(inputs_power_nids_on(g)) /\ In(inputs_power_nids_off(g))
        /\ In(intmike_volume_setup(g)) /\ In(linein_volume_setup(g))
        /\ In(intmike_volume_mute(g)) /\ In(linein_volume_mute(g))
        /\ In(volume_unmute(g))
  BY <1>1
  DEF InputBit, MikeBit, inputs_power_nids_on, inputs_power_nids_off, intmike_volume_setup,
      linein_volume_setup, intmike_volume_mute, linein_volume_mute, volume_unmute
<1>3. \A g : In(g) =>
        /\ In(intmike_stream_on_nid(g))
        /\ In(linein_format_setup_disable(g)) /\ In(linein_format_setup_enable(g))
        /\ In(linein_stream_on_nid(g)) /\ In(linein_stream_conn_off(g))
        /\ In(linein_stream_off_nid(g)) /\ In(linein_stream_reset_nid_off(g))
  BY <1>1
  DEF InputBit, MikeBit, intmike_stream_on_nid, linein_format_setup_disable,
      linein_format_setup_enable, linein_stream_on_nid, linein_stream_conn_off,
      linein_stream_off_nid, linein_stream_reset_nid_off
<1>4. \A g : In(g) =>
        /\ In(intmike_stream_conn_off(g)) /\ In(intmike_stream_off_nid(g))
        /\ In(intmike_stream_conn_off_disable(g)) /\ In(intmike_stream_conn_off_enable(g))
        /\ In(intmike_stream_reset_nid_on(g)) /\ In(intmike_format_setup_disable(g))
  BY <1>1
  DEF InputBit, MikeBit, intmike_stream_conn_off, intmike_stream_off_nid,
      intmike_stream_conn_off_disable, intmike_stream_conn_off_enable,
      intmike_stream_reset_nid_on, intmike_format_setup_disable
<1>5. \A g, down : In(g) => In(intmike_format_setup_enable(g, down))
  BY <1>1 DEF InputBit, MikeBit, intmike_format_setup_enable
<1>6. In(h)
  BY DEF In, Leaves
<1>7. In(intmike_linein_disable(h))
  BY <1>2, <1>3, <1>4, <1>6 DEF intmike_linein_disable
<1>8. In(capture(h))
  BY <1>2, <1>3, <1>5, <1>6 DEF capture
<1>9. In(capturestop(h))
  BY <1>2, <1>3, <1>4, <1>6 DEF capturestop
<1>10. In(inputs_power_nids_off(intmike_linein_resetup(h)))
  BY <1>1, <1>2, <1>3, <1>4, <1>5, <1>6 DEF intmike_linein_resetup
<1>11. \A g : In(g) => In(boot_inputs_off(g))
  BY <1>2, <1>3, <1>4 DEF boot_inputs_off
<1>12. In(boot_intmike(h))
  BY <1>1, <1>2, <1>3, <1>5, <1>6, <1>11 DEF boot_intmike
<1> QED BY <1>2, <1>6, <1>7, <1>8, <1>9, <1>10, <1>11, <1>12 DEF In

\* A capture's set-up gives it what has been stored.
LEMMA CaptureSets ==
  ASSUME NEW h \in Hardware, Loaded(h, \h22)
  PROVE  capture(h).hw[\h22] = Params(h, \h22, 1, 0)
<1> DEFINE h1 == inputs_power_nids_on(h)
           h2 == really_update_stream_format(h1, \h22, 1, 0)
           h3 == intmike_format_setup_enable(h1, FALSE)
           h4 == intmike_volume_setup(h3)
           h5 == intmike_stream_on_nid(h4)
           h6 == volume_unmute(h5)
           p  == Params(h, \h22, 1, 0)
           In(g) == g \in Hardware /\ g.hw[\h22] = p
<1>b. /\ {"intmike", "linein"} \in SUBSET Bit /\ {"dmic_intmike"} \in SUBSET Bit
      /\ {"pad_intmike", "pin_intmike"} \in SUBSET Bit /\ {} \in SUBSET Bit
      /\ {"intmike_unmuted", "linein_unmuted"} \in SUBSET Bit
  BY DEF Bit
<1>n. \h22 \in Nid /\ 1 \in 0..2 /\ 0 \in {0, 2}
  BY DEF Nid
<1> HIDE DEF p
<1>1. \A g : g \in Hardware => \A off : \A enabled \in SUBSET Bit : Same(Put(g, off, enabled), g)
  BY VerbsLeave, Zenon
<1>2. \A f, g : Same(f, g) /\ In(g) => In(f)
  BY DEF Same, Leaves
<1>3. Same(h1, h)
  BY <1>1, <1>b DEF inputs_power_nids_on
<1> HIDE DEF h1
<1>4. h1 \in Hardware /\ h1.papl = h.papl
  BY <1>3 DEF Same, Leaves
<1>5. Updates(h2, h1, \h22, 1, 0)
  BY <1>4, <1>n, ReallyUpdates
<1> HIDE DEF h2
<1>6. In(h2)
  BY <1>4, <1>5 DEF Updates, Leaves, Loaded, Params, p
<1> HIDE DEF In
<1>7. In(h3)
  <2>1. h3 = Put(h2, {}, {"dmic_intmike"})
    BY DEF intmike_format_setup_enable, h2
  <2> HIDE DEF h3
  <2>2. Same(h3, h2)
    BY <1>1, <1>6, <1>b, <2>1 DEF In
  <2> QED BY <2>2, <1>2, <1>6
<1> HIDE DEF h3
<1>8. In(h4)
  <2>1. Same(h4, h3)
    BY <1>1, <1>7, <1>b DEF In, intmike_volume_setup
  <2> QED BY <2>1, <1>2, <1>7
<1> HIDE DEF h4
<1>9. In(h5)
  <2>1. Same(h5, h4)
    BY <1>1, <1>8, <1>b DEF In, intmike_stream_on_nid
  <2> QED BY <2>1, <1>2, <1>8
<1> HIDE DEF h5
<1>10. In(h6)
  <2>1. Same(h6, h5)
    BY <1>1, <1>9, <1>b DEF In, volume_unmute
  <2> QED BY <2>1, <1>2, <1>9
<1>11. capture(h) = h6
  BY DEF capture, h1, h3, h4, h5, h6
<1> QED BY <1>10, <1>11 DEF In, p

-----------------------------------------------------------------------------
(* What the functions write, as one predicate for each.                    *)

\* The hardware h, but for the streams of the converters in ns, the register fields
\* off and enabled, those of the internal inputs, and the chip c.
Writes(g, h, ns, off, enabled, c) ==
  /\ Leaves(g, h, ns)
  /\ g.bits \ InputBit = ((h.bits \ off) \cup enabled) \ InputBit
  /\ g.chip = c

\* Hardware has its fields.
LEMMA HardwareHas ==
  ASSUME NEW h \in Hardware
  PROVE  HasBits(h, h.bits) /\ HasChip(h, h.chip) /\ ButInputs(h, h.bits) /\ h.chip \in Chip
BY DEF Hardware, HasBits, HasChip, ButInputs

\* The speakers and the internal inputs.
LEMMA SoundWrites ==
  ASSUME NEW h \in Hardware
  PROVE  /\ Writes(play(h), h, {\h02, \h03}, {}, SpeakerBit, h.chip)
         /\ Writes(amps_disable_streaming(h), h, {\h02, \h03},
                   SpeakerBit \cup {"src_headset", "clock_headset"}, {}, h.chip)
         /\ Writes(inputs_power_nids_off(h), h, {\h22}, {}, {}, h.chip)
         /\ Writes(inputs_power_nids_off(intmike_linein_resetup(h)), h, {\h22}, {}, {}, h.chip)
         /\ Writes(intmike_linein_disable(h), h, {\h22}, {}, {}, h.chip)
         /\ Writes(capture(h), h, {\h22}, {}, {}, h.chip)
         /\ Writes(capturestop(h), h, {\h22}, {}, {}, h.chip)
         /\ Writes(volume_unmute(h), h, {\h22}, {}, {}, h.chip)
         /\ Writes(boot_inputs_off(h), h, {\h22}, {}, {}, h.chip)
         /\ Writes(boot_intmike(h), h, {\h22}, {}, {}, h.chip)
<1>0. HasBits(h, h.bits) /\ HasChip(h, h.chip) /\ ButInputs(h, h.bits)
  BY HardwareHas
<1>1. ASSUME NEW g, Leaves(g, h, {\h22}), ButInputs(g, h.bits), HasChip(g, h.chip)
      PROVE  Writes(g, h, {\h22}, {}, {}, h.chip)
  BY <1>1 DEF ButInputs, HasChip, Writes
<1>2. Writes(play(h), h, {\h02, \h03}, {}, SpeakerBit, h.chip)
  <2>1. HasBits(play(h), h.bits \cup SpeakerBit) /\ HasChip(play(h), h.chip)
    BY <1>0, SpeakersWire, SpeakersSpare
  <2>2. Leaves(play(h), h, {\h02, \h03})
    BY PlaySets
  <2> QED BY <2>1, <2>2 DEF HasBits, HasChip, Writes
<1>3. Writes(amps_disable_streaming(h), h, {\h02, \h03},
             SpeakerBit \cup {"src_headset", "clock_headset"}, {}, h.chip)
  <2> DEFINE g == amps_disable_streaming(h)
  <2>1. /\ HasBits(g, h.bits \ (SpeakerBit \cup {"src_headset", "clock_headset"}))
        /\ HasChip(g, h.chip)
    BY <1>0, SpeakersWire, SpeakersSpare
  <2>2. Leaves(g, h, {\h02, \h03})
    BY AmpsOffSets
  <2> HIDE DEF g
  <2>3. Writes(g, h, {\h02, \h03}, SpeakerBit \cup {"src_headset", "clock_headset"}, {}, h.chip)
    BY <2>1, <2>2 DEF HasBits, HasChip, Writes
  <2> QED BY <2>3 DEF g
<1>4. HasChip(volume_unmute(h), h.chip)
  BY <1>0, VerbsSpare DEF volume_unmute
<1>5. /\ Writes(inputs_power_nids_off(h), h, {\h22}, {}, {}, h.chip)
      /\ Writes(intmike_linein_disable(h), h, {\h22}, {}, {}, h.chip)
      /\ Writes(capture(h), h, {\h22}, {}, {}, h.chip)
      /\ Writes(capturestop(h), h, {\h22}, {}, {}, h.chip)
  BY <1>0, <1>1, InputsLeave, InputsWire, InputsSpare
<1>6. /\ Writes(volume_unmute(h), h, {\h22}, {}, {}, h.chip)
      /\ Writes(boot_inputs_off(h), h, {\h22}, {}, {}, h.chip)
      /\ Writes(boot_intmike(h), h, {\h22}, {}, {}, h.chip)
  BY <1>0, <1>1, <1>4, InputsLeave, InputsWire, InputsSpare
<1>7. Writes(inputs_power_nids_off(intmike_linein_resetup(h)), h, {\h22}, {}, {}, h.chip)
  <2> DEFINE k == intmike_linein_resetup(h)
             g == inputs_power_nids_off(k)
  <2>1. ButInputs(k, h.bits) /\ HasChip(k, h.chip)
    BY <1>0, InputsWire, InputsSpare
  <2>2. Leaves(g, h, {\h22})
    BY InputsLeave
  <2> HIDE DEF k
  <2>3. ButInputs(g, h.bits) /\ HasChip(g, h.chip)
    BY <2>1, InputsWire, InputsSpare
  <2> HIDE DEF g
  <2>4. Writes(g, h, {\h22}, {}, {}, h.chip)
    BY <2>2, <2>3, <1>1
  <2> QED BY <2>4 DEF g, k
<1> QED BY <1>2, <1>3, <1>5, <1>6, <1>7, Zenon

\* An access to the chip.
LEMMA ChipWrites ==
  ASSUME NEW h, NEW g, NEW ns, NEW off, NEW enabled, NEW d, NEW c \in Chip,
         Writes(g, h, ns, off, enabled, d)
  PROVE  /\ Writes(OnChip(g, c), h, ns, off, enabled \cup {"afg"}, c)
         /\ OnChip(g, c).hw = g.hw /\ "afg" \in OnChip(g, c).bits
<1>1. g \in Hardware
  BY DEF Writes, Leaves
<1> DEFINE f == OnChip(g, c)
<1>2. Same(f, g) /\ f.chip = c
  BY <1>1, VerbsLeave
<1>3. HasBits(f, g.bits \cup {"afg"})
  BY <1>1, HardwareHas, OnChipSets
<1> HIDE DEF f
<1>4. f.bits \ InputBit = ((h.bits \ off) \cup (enabled \cup {"afg"})) \ InputBit
  BY <1>3 DEF HasBits, Writes
<1>5. Writes(f, h, ns, off, enabled \cup {"afg"}, c) /\ f.hw = g.hw /\ "afg" \in f.bits
  BY <1>2, <1>3, <1>4 DEF Same, Leaves, Writes, HasBits
<1> QED BY <1>5 DEF f

\* The streams and fields of the headset's ports.
HeadsetBit == {"slots_out", "pads_headset", "src_headset", "clock_headset", "gate", "pin2c"}

\* The TDM ports of the headset.
LEMMA PortsWrite ==
  ASSUME NEW h \in Hardware
  PROVE  /\ LET g == headset_amp_format_setup(h)
            IN /\ Writes(g, h, {\h0a}, {}, HeadsetBit, h.chip)
               /\ Loaded(h, \h0a) => g.hw[\h0a] = Params(h, \h0a, 2, 0)
         /\ LET g == headset_mike_format_setup_enable(h)
            IN /\ Writes(g, h, {\h1a}, {"clock_amps"},
                         {"slots_in", "clock_headset", "gate", "pin3c"}, h.chip)
               /\ Loaded(h, \h1a) => g.hw[\h1a] = Params(h, \h1a, 2, 0)
         /\ \A full :
              LET g == headset_amp_format_setup_disable(h, full)
              IN /\ Writes(g, h, {\h0a},
                           {"slots_out", "pin2c", "clock_amps"}
                             \cup (IF full THEN {"pads_headset", "src_headset", "clock_headset", "gate"}
                                   ELSE {}),
                           IF full THEN {} ELSE {"clock_headset", "gate"}, h.chip)
                 /\ g.hw[\h0a] = Silent
         /\ Writes(headset_mike_format_setup_disable(h), h, {\h1a}, {"slots_in", "pin3c"},
                   {"gate"}, h.chip)
         /\ Writes(headset_amp_disable_and_mike_format_setup_disable(h), h, {\h1a},
                   {"slots_in", "pin3c", "pads_headset", "src_headset"}, {"gate"}, h.chip)
<1>n. \h0a \in Nid /\ \h1a \in Nid /\ 2 \in 0..2 /\ 0 \in {0, 2}
  BY DEF Nid
<1>1. ASSUME NEW g, NEW ns, Leaves(g, h, ns), HasBits(g, h.bits), HasChip(g, h.chip),
             NEW off, NEW enabled \in SUBSET Bit
      PROVE  LET f == Put(g, off, enabled)
             IN Writes(f, h, ns, off, enabled, h.chip) /\ f.hw = g.hw
  <2> DEFINE f == Put(g, off, enabled)
  <2>1. g \in Hardware
    BY <1>1 DEF Leaves
  <2>2. Same(f, g)
    BY <2>1, VerbsLeave
  <2>3. HasBits(f, (h.bits \ off) \cup enabled) /\ HasChip(f, h.chip)
    BY <1>1, VerbsWire, VerbsSpare
  <2> HIDE DEF f
  <2>4. Writes(f, h, ns, off, enabled, h.chip) /\ f.hw = g.hw
    BY <1>1, <2>2, <2>3 DEF Same, Leaves, HasBits, HasChip, Writes
  <2> QED BY <2>4 DEF f
<1>2. ASSUME NEW n \in Nid
      PROVE  LET g == [h EXCEPT !.hw[n] = Silent]
             IN Leaves(g, h, {n}) /\ HasBits(g, h.bits) /\ HasChip(g, h.chip) /\ g.hw[n] = Silent
  <2> DEFINE g == [h EXCEPT !.hw[n] = Silent]
  <2>1. Rewrites(g, h, n, Silent)
    BY VerbsLeave, Zenon
  <2>2. HasBits(g, h.bits) /\ HasChip(g, h.chip)
    BY HardwareHas, VerbsWire, VerbsSpare
  <2> QED BY <2>1, <2>2 DEF Rewrites
<1>3. ASSUME NEW n \in Nid
      PROVE  LET g == really_update_stream_format(h, n, 2, 0)
             IN /\ Leaves(g, h, {n}) /\ HasBits(g, h.bits) /\ HasChip(g, h.chip)
                /\ Loaded(h, n) => g.hw[n] = Params(h, n, 2, 0)
  <2> DEFINE g == really_update_stream_format(h, n, 2, 0)
  <2>1. Updates(g, h, n, 2, 0)
    BY <1>n, ReallyUpdates
  <2>2. HasBits(g, h.bits) /\ HasChip(g, h.chip)
    BY HardwareHas, StoreWires, StoreSpares
  <2> QED BY <2>1, <2>2 DEF Updates
<1>4. LET g == headset_amp_format_setup(h)
      IN /\ Writes(g, h, {\h0a}, {}, HeadsetBit, h.chip)
         /\ Loaded(h, \h0a) => g.hw[\h0a] = Params(h, \h0a, 2, 0)
  <2> DEFINE k == really_update_stream_format(h, \h0a, 2, 0)
             g == Put(k, {}, HeadsetBit)
  <2>1. HeadsetBit \in SUBSET Bit
    BY DEF HeadsetBit, Bit
  <2>2. /\ Leaves(k, h, {\h0a}) /\ HasBits(k, h.bits) /\ HasChip(k, h.chip)
        /\ Loaded(h, \h0a) => k.hw[\h0a] = Params(h, \h0a, 2, 0)
    BY <1>3, <1>n
  <2> HIDE DEF k
  <2>3. Writes(g, h, {\h0a}, {}, HeadsetBit, h.chip) /\ g.hw = k.hw
    BY <1>1, <2>1, <2>2
  <2>4. headset_amp_format_setup(h) = g
    BY DEF headset_amp_format_setup, k, HeadsetBit
  <2> HIDE DEF g
  <2> QED BY <2>2, <2>3, <2>4
<1>5. LET g == headset_mike_format_setup_enable(h)
      IN /\ Writes(g, h, {\h1a}, {"clock_amps"},
                   {"slots_in", "clock_headset", "gate", "pin3c"}, h.chip)
         /\ Loaded(h, \h1a) => g.hw[\h1a] = Params(h, \h1a, 2, 0)
  <2> DEFINE k == really_update_stream_format(h, \h1a, 2, 0)
             e == {"slots_in", "clock_headset", "gate", "pin3c"}
             g == Put(k, {"clock_amps"}, e)
  <2>1. e \in SUBSET Bit
    BY DEF Bit
  <2>2. /\ Leaves(k, h, {\h1a}) /\ HasBits(k, h.bits) /\ HasChip(k, h.chip)
        /\ Loaded(h, \h1a) => k.hw[\h1a] = Params(h, \h1a, 2, 0)
    BY <1>3, <1>n
  <2>3. headset_mike_format_setup_enable(h) = g
    BY DEF headset_mike_format_setup_enable
  <2> HIDE DEF k, e
  <2>4. Writes(g, h, {\h1a}, {"clock_amps"}, e, h.chip) /\ g.hw = k.hw
    BY <1>1, <2>1, <2>2
  <2> HIDE DEF g
  <2> QED BY <2>2, <2>3, <2>4 DEF e
<1>6. ASSUME NEW full
      PROVE  LET g == headset_amp_format_setup_disable(h, full)
             IN /\ Writes(g, h, {\h0a},
                          {"slots_out", "pin2c", "clock_amps"}
                            \cup (IF full THEN {"pads_headset", "src_headset", "clock_headset", "gate"}
                                  ELSE {}),
                          IF full THEN {} ELSE {"clock_headset", "gate"}, h.chip)
                /\ g.hw[\h0a] = Silent
  <2> DEFINE k == [h EXCEPT !.hw[\h0a] = Silent]
             off == {"slots_out", "pin2c", "clock_amps"}
                      \cup (IF full THEN {"pads_headset", "src_headset", "clock_headset", "gate"}
                            ELSE {})
             e == IF full THEN {} ELSE {"clock_headset", "gate"}
             g == Put(k, off, e)
  <2>1. e \in SUBSET Bit
    BY DEF Bit
  <2>2. Leaves(k, h, {\h0a}) /\ HasBits(k, h.bits) /\ HasChip(k, h.chip) /\ k.hw[\h0a] = Silent
    BY <1>2, <1>n
  <2>3. headset_amp_format_setup_disable(h, full) = g
    BY Zenon DEF headset_amp_format_setup_disable
  <2> HIDE DEF k, e, off
  <2>4. Writes(g, h, {\h0a}, off, e, h.chip) /\ g.hw = k.hw
    BY <1>1, <2>1, <2>2
  <2> HIDE DEF g
  <2> QED BY <2>2, <2>3, <2>4 DEF e, off
<1>7. {"gate"} \in SUBSET Bit
  BY DEF Bit
<1>8. Writes(headset_mike_format_setup_disable(h), h, {\h1a}, {"slots_in", "pin3c"},
             {"gate"}, h.chip)
  <2> DEFINE k == [h EXCEPT !.hw[\h1a] = Silent]
  <2>1. Leaves(k, h, {\h1a}) /\ HasBits(k, h.bits) /\ HasChip(k, h.chip)
    BY <1>2, <1>n
  <2>2. headset_mike_format_setup_disable(h) = Put(k, {"slots_in", "pin3c"}, {"gate"})
    BY Zenon DEF headset_mike_format_setup_disable
  <2> HIDE DEF k
  <2> QED BY <1>1, <1>7, <2>1, <2>2
<1>9. Writes(headset_amp_disable_and_mike_format_setup_disable(h), h, {\h1a},
             {"slots_in", "pin3c", "pads_headset", "src_headset"}, {"gate"}, h.chip)
  <2> DEFINE k == [h EXCEPT !.hw[\h1a] = Silent]
  <2>1. Leaves(k, h, {\h1a}) /\ HasBits(k, h.bits) /\ HasChip(k, h.chip)
    BY <1>2, <1>n
  <2>2. headset_amp_disable_and_mike_format_setup_disable(h)
          = Put(k, {"slots_in", "pin3c", "pads_headset", "src_headset"}, {"gate"})
    BY Zenon DEF headset_amp_disable_and_mike_format_setup_disable
  <2> HIDE DEF k
  <2> QED BY <1>1, <1>7, <2>1, <2>2
<1> QED BY <1>4, <1>5, <1>6, <1>8, <1>9, Zenon

\* The clock, the buffers and the powered blocks of the chip are those of c, but
\* for the blocks, now d.
Powers(e, c, d) == e.down = d /\ e.pll = c.pll /\ e.oscillator = c.oscillator /\ e.buffers = c.buffers

\* What the functions of the headset write.
OutputOn(g, h) ==
  /\ \E c : /\ Writes(g, h, {\h0a}, {}, HeadsetBit \cup {"afg"}, c)
            /\ c.down = h.chip.down \ OutputBlock /\ c.pll /\ c.oscillator
  /\ Loaded(h, \h0a) => g.hw[\h0a] = Params(h, \h0a, 2, 0)

OutputOff(g, h) ==
  /\ \E c : /\ Writes(g, h, {\h0a}, {"slots_out", "pin2c", "clock_amps", "pads_headset",
                                     "src_headset", "clock_headset", "gate"}, {"afg"}, c)
            /\ c.down = h.chip.down \cup OutputBlock /\ ~c.pll /\ ~c.oscillator /\ ~c.buffers
  /\ g.hw[\h0a] = Silent

InputOn(g, h) ==
  /\ \E c : /\ Writes(g, h, {\h1a}, {"clock_amps"},
                      {"slots_in", "clock_headset", "gate", "pin3c", "afg"}, c)
            /\ Powers(c, h.chip, h.chip.down \ InputBlock)
  /\ Loaded(h, \h1a) => g.hw[\h1a] = Params(h, \h1a, 2, 0)
  /\ "afg" \in g.bits

InputOff(g, h) ==
  \E c : /\ Writes(g, h, {\h1a}, {"slots_in", "pin3c"}, {"gate", "afg"}, c)
         /\ Powers(c, h.chip, h.chip.down \cup InputBlock)

OutputUnplugged(g, h) ==
  /\ \E c, off, enabled :
       /\ Writes(g, h, {\h0a}, off, enabled, c)
       /\ {"slots_out", "clock_amps"} \subseteq off
       /\ enabled \subseteq {"clock_headset", "gate", "afg"}
       /\ c.down = h.chip.down \cup OutputBlock /\ ~c.buffers
       /\ h.chip.pll = h.chip.oscillator => c.pll = c.oscillator
  /\ g.hw[\h0a] = Silent

InputUnplugged(g, h) ==
  \E c : /\ Writes(g, h, {\h1a, \h22}, {"slots_in", "pin3c", "pads_headset", "src_headset"},
                   {"gate", "afg"}, c)
         /\ c.down = h.chip.down /\ c.buffers = h.chip.buffers /\ ~c.pll /\ ~c.oscillator

\* The output of the headset.
LEMMA OutputWrites ==
  ASSUME NEW h \in Hardware
  PROVE  /\ OutputOn(enable_headset_streaming(h), h)
         /\ OutputOff(disable_headset_streaming(h), h)
<1>c. h.chip \in Chip
  BY HardwareHas
<1>1. OutputOn(enable_headset_streaming(h), h)
  <2> DEFINE k == headset_amp_format_setup(h)
             c == headset_enable_on(set_power_state_on(headset_play_setup_on(h.chip), FALSE))
             g == OnChip(k, c)
  <2>1. c \in Chip /\ c.down = h.chip.down \ OutputBlock /\ c.pll /\ c.oscillator
    BY <1>c, SoundSets
  <2>2. /\ Writes(k, h, {\h0a}, {}, HeadsetBit, h.chip)
        /\ Loaded(h, \h0a) => k.hw[\h0a] = Params(h, \h0a, 2, 0)
    BY PortsWrite, Zenon
  <2>3. enable_headset_streaming(h) = g
    BY DEF enable_headset_streaming
  <2> HIDE DEF c, k
  <2>4. Writes(g, h, {\h0a}, {}, HeadsetBit \cup {"afg"}, c) /\ g.hw = k.hw
    BY <2>1, <2>2, ChipWrites
  <2> HIDE DEF g
  <2> QED BY <2>1, <2>2, <2>3, <2>4 DEF OutputOn
<1>2. OutputOff(disable_headset_streaming(h), h)
  <2> DEFINE c == headset_disable(power_off_codec_output(headset_enable_off(h.chip)))
             k == OnChip(h, c)
             g == headset_amp_format_setup_disable(k, TRUE)
             off == {"slots_out", "pin2c", "clock_amps"}
                      \cup {"pads_headset", "src_headset", "clock_headset", "gate"}
  <2>1. c \in Chip /\ c.down = h.chip.down \cup OutputBlock /\ ~c.pll /\ ~c.oscillator /\ ~c.buffers
    BY <1>c, SoundSets
  <2>2. disable_headset_streaming(h) = g
    BY DEF disable_headset_streaming
  <2> HIDE DEF c
  <2>3. Writes(h, h, {}, {}, {}, h.chip)
    BY DEF Writes, Leaves
  <2>4. Writes(k, h, {}, {}, {"afg"}, c)
    <3>1. Writes(k, h, {}, {}, {} \cup {"afg"}, c)
      BY <2>1, <2>3, ChipWrites
    <3>2. {} \cup {"afg"} = {"afg"}
      OBVIOUS
    <3> QED BY <3>1, <3>2, Zenon
  <2> HIDE DEF k
  <2>5. k \in Hardware
    BY <2>4 DEF Writes, Leaves
  <2>6. /\ Writes(g, k, {\h0a}, {"slots_out", "pin2c", "clock_amps"}
                      \cup (IF TRUE THEN {"pads_headset", "src_headset", "clock_headset", "gate"}
                            ELSE {}),
                  IF TRUE THEN {} ELSE {"clock_headset", "gate"}, k.chip)
        /\ g.hw[\h0a] = Silent
    BY <2>5, PortsWrite, Zenon
  <2>7. Writes(g, k, {\h0a}, off, {}, c) /\ g.hw[\h0a] = Silent
    BY <2>4, <2>6 DEF Writes
  <2> HIDE DEF g
  <2>8. Writes(g, h, {\h0a}, off, {"afg"}, c)
    <3>1. Leaves(g, h, {\h0a})
      BY <2>4, <2>7 DEF Writes, Leaves
    <3>2. g.bits \ InputBit = ((h.bits \ off) \cup {"afg"}) \ InputBit
      BY <2>4, <2>7 DEF Writes
    <3> QED BY <2>7, <3>1, <3>2 DEF Writes
  <2>9. off = {"slots_out", "pin2c", "clock_amps", "pads_headset", "src_headset", "clock_headset", "gate"}
    OBVIOUS
  <2> HIDE DEF off
  <2>10. Writes(g, h, {\h0a}, {"slots_out", "pin2c", "clock_amps", "pads_headset",
                "src_headset", "clock_headset", "gate"}, {"afg"}, c)
    BY <2>8, <2>9
  <2> QED BY <2>1, <2>2, <2>7, <2>10 DEF OutputOff
<1> QED BY <1>1, <1>2

\* Its input.
LEMMA InputWrites ==
  ASSUME NEW h \in Hardware
  PROVE  /\ InputOn(enable_headset_mike_streaming(h), h)
         /\ InputOff(disable_headset_mike_streaming(h), h)
<1>c. h.chip \in Chip
  BY HardwareHas
<1>1. InputOn(enable_headset_mike_streaming(h), h)
  <2> DEFINE k == headset_mike_format_setup_enable(h)
             c == headset_mike_adc_unmutevol(set_power_state_on(mike_enable(
                    input_set_output_sample_rate(h.chip)), TRUE), TRUE)
             g == OnChip(k, c)
             e == {"slots_in", "clock_headset", "gate", "pin3c"}
  <2>1. c \in Chip /\ Powers(c, h.chip, h.chip.down \ InputBlock)
    BY <1>c, SoundSets DEF Powers
  <2>2. /\ Writes(k, h, {\h1a}, {"clock_amps"}, e, h.chip)
        /\ Loaded(h, \h1a) => k.hw[\h1a] = Params(h, \h1a, 2, 0)
    BY PortsWrite, Zenon
  <2>3. enable_headset_mike_streaming(h) = g
    BY DEF enable_headset_mike_streaming
  <2>e. e \cup {"afg"} = {"slots_in", "clock_headset", "gate", "pin3c", "afg"}
    OBVIOUS
  <2> HIDE DEF c, k, e
  <2>4. Writes(g, h, {\h1a}, {"clock_amps"}, e \cup {"afg"}, c) /\ g.hw = k.hw /\ "afg" \in g.bits
    BY <2>1, <2>2, ChipWrites
  <2> HIDE DEF g
  <2> QED BY <2>1, <2>2, <2>3, <2>4, <2>e DEF InputOn
<1>2. InputOff(disable_headset_mike_streaming(h), h)
  <2> DEFINE c == mike_disable(power_off_codec_input(headset_mike_adc_unmutevol(h.chip, FALSE)))
             k == OnChip(h, c)
             g == headset_mike_format_setup_disable(k)
  <2>1. c \in Chip /\ Powers(c, h.chip, h.chip.down \cup InputBlock)
    BY <1>c, SoundSets DEF Powers
  <2>2. disable_headset_mike_streaming(h) = g
    BY DEF disable_headset_mike_streaming
  <2> HIDE DEF c
  <2>3. Writes(h, h, {}, {}, {}, h.chip)
    BY DEF Writes, Leaves
  <2>4. Writes(k, h, {}, {}, {} \cup {"afg"}, c)
    BY <2>1, <2>3, ChipWrites
  <2> HIDE DEF k
  <2>5. k \in Hardware
    BY <2>4 DEF Writes, Leaves
  <2>6. Writes(g, k, {\h1a}, {"slots_in", "pin3c"}, {"gate"}, k.chip)
    BY <2>5, PortsWrite, Zenon
  <2> HIDE DEF g
  <2>7. Leaves(g, h, {\h1a})
    BY <2>4, <2>6 DEF Writes, Leaves
  <2>8. g.bits \ InputBit = ((h.bits \ {"slots_in", "pin3c"}) \cup {"gate", "afg"}) \ InputBit
    <3>1. k.bits \ InputBit = ((h.bits \ {}) \cup {"afg"}) \ InputBit
      BY <2>4 DEF Writes
    <3>2. g.bits \ InputBit = ((k.bits \ {"slots_in", "pin3c"}) \cup {"gate"}) \ InputBit
      BY <2>6 DEF Writes
    <3> QED BY <3>1, <3>2
  <2>9. Writes(g, h, {\h1a}, {"slots_in", "pin3c"}, {"gate", "afg"}, c)
    BY <2>4, <2>6, <2>7, <2>8 DEF Writes
  <2> QED BY <2>1, <2>2, <2>9 DEF InputOff
<1> QED BY <1>1, <1>2

\* The unplug.
LEMMA UnplugWrites ==
  ASSUME NEW h \in Hardware
  PROVE  /\ \A mike : OutputUnplugged(unplug_headset_output(h, mike), h)
         /\ InputUnplugged(unplug_headset_input(h), h)
<1>c. h.chip \in Chip
  BY HardwareHas
<1>1. ASSUME NEW mike
      PROVE  OutputUnplugged(unplug_headset_output(h, mike), h)
  <2> DEFINE off(e) == power_off_codec_output(headset_enable_off(e))
             c1 == buffers_onoff(off(h.chip), FALSE)
             d  == off(IF mike THEN c1 ELSE power_onoff(c1, FALSE))
             k  == headset_amp_format_setup_disable(h, ~mike)
             g  == OnChip(k, d)
             os == {"slots_out", "pin2c", "clock_amps"}
                     \cup (IF ~mike THEN {"pads_headset", "src_headset", "clock_headset", "gate"}
                           ELSE {})
             es == IF ~mike THEN {} ELSE {"clock_headset", "gate"}
  <2>1. /\ d \in Chip /\ d.down = h.chip.down \cup OutputBlock /\ ~d.buffers
        /\ h.chip.pll = h.chip.oscillator => d.pll = d.oscillator
    BY <1>c, UnplugSets
  <2>2. unplug_headset_output(h, mike) = g
    BY DEF unplug_headset_output
  <2>3. Writes(k, h, {\h0a}, os, es, h.chip) /\ k.hw[\h0a] = Silent
    BY PortsWrite, Zenon
  <2>o. {"slots_out", "clock_amps"} \subseteq os /\ es \cup {"afg"} \subseteq {"clock_headset", "gate", "afg"}
    OBVIOUS
  <2> HIDE DEF d, k, os, es
  <2>4. Writes(g, h, {\h0a}, os, es \cup {"afg"}, d) /\ g.hw = k.hw
    BY <2>1, <2>3, ChipWrites
  <2> HIDE DEF g
  <2> QED BY <2>1, <2>2, <2>3, <2>4, <2>o DEF OutputUnplugged
<1>2. InputUnplugged(unplug_headset_input(h), h)
  <2> DEFINE c == power_onoff(mike_disable(h.chip), FALSE)
             k == OnChip(h, c)
             j == headset_amp_disable_and_mike_format_setup_disable(k)
             g == inputs_power_nids_off(intmike_linein_resetup(j))
             os == {"slots_in", "pin3c", "pads_headset", "src_headset"}
  <2>1. c \in Chip /\ c.down = h.chip.down /\ c.buffers = h.chip.buffers /\ ~c.pll /\ ~c.oscillator
    BY <1>c, UnplugSets
  <2>2. unplug_headset_input(h) = g
    BY DEF unplug_headset_input
  <2> HIDE DEF c
  <2>3. Writes(h, h, {}, {}, {}, h.chip)
    BY DEF Writes, Leaves
  <2>4. Writes(k, h, {}, {}, {} \cup {"afg"}, c)
    BY <2>1, <2>3, ChipWrites
  <2> HIDE DEF k
  <2>5. k \in Hardware
    BY <2>4 DEF Writes, Leaves
  <2>6. Writes(j, k, {\h1a}, os, {"gate"}, k.chip)
    BY <2>5, PortsWrite, Zenon
  <2> HIDE DEF j, os
  <2>7. j \in Hardware
    BY <2>6 DEF Writes, Leaves
  <2>8. Writes(g, j, {\h22}, {}, {}, j.chip)
    BY <2>7, SoundWrites, Zenon
  <2> HIDE DEF g
  <2>9. Leaves(g, h, {\h1a, \h22})
    BY <2>4, <2>6, <2>8 DEF Writes, Leaves
  <2>10. g.bits \ InputBit = ((h.bits \ os) \cup {"gate", "afg"}) \ InputBit
    <3>1. k.bits \ InputBit = ((h.bits \ {}) \cup {"afg"}) \ InputBit
      BY <2>4 DEF Writes
    <3>2. j.bits \ InputBit = ((k.bits \ os) \cup {"gate"}) \ InputBit
      BY <2>6 DEF Writes
    <3>3. g.bits \ InputBit = ((j.bits \ {}) \cup {}) \ InputBit
      BY <2>8 DEF Writes
    <3>4. "afg" \notin os
      BY DEF os
    <3> QED BY <3>1, <3>2, <3>3, <3>4
  <2>11. Writes(g, h, {\h1a, \h22}, os, {"gate", "afg"}, c)
    BY <2>4, <2>6, <2>8, <2>9, <2>10 DEF Writes
  <2> QED BY <2>1, <2>2, <2>11 DEF InputUnplugged, os
<1> QED BY <1>1, <1>2

-----------------------------------------------------------------------------
(* What the prepares store, and the boot.                                  *)

\* The registers of h; what is stored may differ.
Keeps(g, h) == g \in Hardware /\ g.hw = h.hw /\ g.bits = h.bits /\ g.chip = h.chip

\* The stream s is stored for n.
StoresOne(g, h, n, s) ==
  Keeps(g, h) /\ g.channels = h.channels /\ g.papl = [h.papl EXCEPT ![n] = s]

\* A playback is stored for its three converters.
StoresPlayback(g, h, fmt) ==
  /\ Keeps(g, h)
  /\ \A n \in {\h02, \h03, \h0a} : g.papl[n] = [tag |-> 1, ch |-> 0, fmt |-> fmt]
  /\ \A n \in {\h22, \h1a} : g.papl[n] = h.papl[n]
  /\ g.channels = IF fmt = \h4031 THEN 2 ELSE 4

\* What a prepare stores.
LEMMA StoreWrites ==
  ASSUME NEW h \in Hardware
  PROVE  /\ \A n \in Nid, tag \in 0..3, fmt \in Format :
              StoresOne(store_stream_format(h, n, tag, fmt), h, n,
                        [tag |-> tag, ch |-> 0, fmt |-> fmt])
         /\ \A fmt \in Format : StoresPlayback(store_playback(h, fmt), h, fmt)
<1>1. ASSUME NEW g \in Hardware, NEW n \in Nid, NEW tag \in 0..3, NEW fmt \in Format
      PROVE  StoresOne(store_stream_format(g, n, tag, fmt), g, n,
                       [tag |-> tag, ch |-> 0, fmt |-> fmt])
  <2> DEFINE s == [tag |-> tag, ch |-> 0, fmt |-> fmt]
             v == [g.papl EXCEPT ![n] = s]
             f == [g EXCEPT !.papl = v]
  <2>1. v \in [Nid -> Stored]
    BY DEF Hardware, Stored
  <2>2. store_stream_format(g, n, tag, fmt) = f
    BY Zenon DEF store_stream_format
  <2> HIDE DEF v
  <2>3. f \in Hardware
    BY <2>1, FieldTypes
  <2>4. /\ f.papl = v /\ f.hw = g.hw /\ f.bits = g.bits /\ f.chip = g.chip
        /\ f.channels = g.channels
    BY DEF Hardware
  <2> HIDE DEF f
  <2> QED BY <2>2, <2>3, <2>4 DEF StoresOne, Keeps, v
<1>2. ASSUME NEW fmt \in Format
      PROVE  StoresPlayback(store_playback(h, fmt), h, fmt)
  <2> DEFINE s  == [tag |-> 1, ch |-> 0, fmt |-> fmt]
             h1 == store_stream_format(h, \h02, 1, fmt)
             h2 == store_stream_format(h1, \h03, 1, fmt)
             h3 == store_stream_format(h2, \h0a, 1, fmt)
             ch == IF fmt = \h4031 THEN 2 ELSE 4
             f  == [h3 EXCEPT !.channels = ch]
  <2>n. /\ \h02 \in Nid /\ \h03 \in Nid /\ \h0a \in Nid /\ 1 \in 0..3 /\ ch \in {0, 2, 4}
        /\ {\h22, \h1a} \subseteq Nid /\ \h02 # \h03 /\ \h02 # \h0a /\ \h03 # \h0a
        /\ {\h22, \h1a} \cap {\h02, \h03, \h0a} = {}
    BY DEF Nid
  <2>1. store_playback(h, fmt) = f
    BY DEF store_playback, Tag
  <2>2. StoresOne(h1, h, \h02, s)
    BY <1>1, <2>n
  <2> HIDE DEF h1
  <2>3. h1 \in Hardware
    BY <2>2 DEF StoresOne, Keeps
  <2>4. StoresOne(h2, h1, \h03, s)
    BY <1>1, <2>n, <2>3
  <2> HIDE DEF h2
  <2>5. h2 \in Hardware
    BY <2>4 DEF StoresOne, Keeps
  <2>6. StoresOne(h3, h2, \h0a, s)
    BY <1>1, <2>n, <2>5
  <2> HIDE DEF h3, ch, s
  <2>7. Keeps(h3, h) /\ h3.papl = [[[h.papl EXCEPT ![\h02] = s] EXCEPT ![\h03] = s] EXCEPT ![\h0a] = s]
    BY <2>2, <2>4, <2>6 DEF StoresOne, Keeps
  <2>8. h.papl \in [Nid -> Stored]
    BY DEF Hardware
  <2>9. /\ h3.papl[\h02] = s /\ h3.papl[\h03] = s /\ h3.papl[\h0a] = s
        /\ \A n \in {\h22, \h1a} : h3.papl[n] = h.papl[n]
    BY <2>7, <2>8, <2>n
  <2>10. f \in Hardware
    BY <2>7, <2>n, FieldTypes DEF Keeps
  <2>11. /\ f.papl = h3.papl /\ f.hw = h3.hw /\ f.bits = h3.bits /\ f.chip = h3.chip
         /\ f.channels = ch
    BY <2>7 DEF Hardware, Keeps
  <2> HIDE DEF f
  <2> QED BY <2>1, <2>7, <2>9, <2>10, <2>11 DEF StoresPlayback, Keeps, s, ch
<1> QED BY <1>1, <1>2

\* No converter of an output is connected, no output is on, the chip is not powered.
Booted(h) ==
  /\ h \in Hardware
  /\ \A n \in {\h02, \h03, \h0a} : h.hw[n].tag = 0
  /\ h.bits \cap {"slots12", "slots34", "slots_out", "amps12", "amps34", "clock_amps"} = {}
  /\ h.chip.down = Block /\ ~h.chip.pll /\ ~h.chip.oscillator /\ ~h.chip.buffers

\* Set-up that gives no output its bits keeps it so.
LEMMA BootedKept ==
  ASSUME NEW h, Booted(h), NEW g, NEW ns, NEW off, NEW enabled, NEW c,
         Writes(g, h, ns, off, enabled, c), ns \cap {\h02, \h03, \h0a} = {},
         enabled \cap {"slots12", "slots34", "slots_out", "amps12", "amps34", "clock_amps"} = {},
         SameSound(h.chip, c)
  PROVE  Booted(g)
<1>1. \A n \in {\h02, \h03, \h0a} : g.hw[n].tag = 0
  <2>1. \A n \in {\h02, \h03, \h0a} : n \in Nid \ ns
    BY DEF Nid
  <2> QED BY <2>1 DEF Writes, Leaves, Booted
<1>2. g.bits \cap {"slots12", "slots34", "slots_out", "amps12", "amps34", "clock_amps"} = {}
  <2>1. {"slots12", "slots34", "slots_out", "amps12", "amps34", "clock_amps"} \cap InputBit = {}
    BY DEF InputBit, MikeBit
  <2> QED BY <2>1 DEF Writes, Booted
<1> QED BY <1>1, <1>2 DEF Writes, Leaves, Booted, SameSound

\* The null format, and a stream with the third channel.
LEMMA NullSets ==
  ASSUME NEW h \in Hardware, NEW n \in Nid, NEW fmt \in Format \cup {0}
  PROVE  /\ Rewrites(WriteStream(h, n, 0, 2), h, n, [tag |-> 0, ch |-> 2, fmt |-> h.hw[n].fmt])
         /\ Rewrites(WriteFormat(h, n, fmt), h, n,
                     [tag |-> h.hw[n].tag, ch |-> h.hw[n].ch, fmt |-> fmt])
<1>1. 0 \in 0..3 /\ 2 \in {0, 2}
  OBVIOUS
<1>3. Rewrites(WriteStream(h, n, 0, 2), h, n, [tag |-> 0, ch |-> 2, fmt |-> h.hw[n].fmt])
  BY <1>1, VerbsLeave, Zenon
<1>4. Rewrites(WriteFormat(h, n, fmt), h, n,
               [tag |-> h.hw[n].tag, ch |-> h.hw[n].ch, fmt |-> fmt])
  BY VerbsLeave, Zenon
<1> QED BY <1>3, <1>4

\* The same after other writes.
LEMMA NullThen ==
  ASSUME NEW h, NEW ns, NEW g, Leaves(g, h, ns), NEW n \in Nid \cap ns, NEW fmt \in Format \cup {0}
  PROVE  /\ Leaves(WriteStream(g, n, 0, 0), h, ns) /\ Leaves(WriteStream(g, n, 0, 2), h, ns)
         /\ Leaves(WriteFormat(g, n, fmt), h, ns)
         /\ Leaves(save_and_clear_stream_format(g, n), h, ns)
<1>0. g \in Hardware
  BY DEF Leaves
<1>1. \A f, s : Rewrites(f, g, n, s) => Leaves(f, h, ns)
  BY DEF Rewrites, Leaves
<1>2. Leaves(WriteStream(g, n, 0, 2), h, ns) /\ Leaves(WriteFormat(g, n, fmt), h, ns)
  BY <1>0, <1>1, NullSets, Zenon
<1>3. Leaves(save_and_clear_stream_format(g, n), h, ns) /\ Leaves(WriteStream(g, n, 0, 0), h, ns)
  BY <1>0, <1>1, ClearSets, Zenon
<1> QED BY <1>2, <1>3

\* The boot sets up the speakers without a stream.
LEMMA BootAmps ==
  ASSUME NEW h, Booted(h)
  PROVE  Booted(boot_amps(h))
<1> DEFINE ns == {\h02, \h03}
           L(g) == Leaves(g, h, ns)
<1>n. \h02 \in Nid /\ \h03 \in Nid /\ \h02 # \h03 /\ \h02 \in Nid \cap ns /\ \h03 \in Nid \cap ns
  BY DEF Nid
<1>i. 0 \in 0..3 /\ 0 \in {0, 2} /\ 2 \in {0, 2} /\ \h4033 \in Format \cup {0}
  BY DEF Format
<1>h. h \in Hardware
  BY DEF Booted
<1> HIDE DEF ns
<1>1. \A g : L(g) => \A off : \A enabled \in SUBSET Bit : L(Put(g, off, enabled))
  BY VerbsThen, Zenon
<1>2. \A g, n : n \in {\h02, \h03} /\ L(g) =>
        /\ L(WriteStream(g, n, 0, 0)) /\ L(WriteStream(g, n, 0, 2))
        /\ L(WriteFormat(g, n, \h4033)) /\ L(save_and_clear_stream_format(g, n))
  BY <1>n, <1>i, NullThen
<1>3. \A g, n : n \in {\h02, \h03} /\ L(g) => L([g EXCEPT !.hw[n] = Silent])
  BY <1>n, VerbsThen, Zenon
<1>S. \h02 \in {\h02, \h03} /\ \h03 \in {\h02, \h03}
  OBVIOUS
<1> DEFINE h1 == setup_TDM_amps12(h, TRUE)
           h2 == setup_amps12(h1, FALSE)
           h3 == setup_TDM_amps34(h2, TRUE)
           h4 == setup_amps34(h3, FALSE)
           h5 == sync_converters_on(h4, TRUE)
           h6 == sync_converters_off(h5, TRUE)
           h7 == disable_amps12(h6)
           e7 == [h7 EXCEPT !.hw[\h02] = Silent]
           h8 == disable_TDM_amps12(h7)
           h9 == disable_amps34(h8)
           e9 == [h9 EXCEPT !.hw[\h03] = Silent]
           k  == disable_TDM_amps34(h9)
           k1 == volume_unmute(k)
           g  == inputs_power_nids_off(k1)
<1>b. /\ {"slots12", "pads_amps", "src_amps", "clock_amps", "gate", "pin24"} \in SUBSET Bit
      /\ {"slots34", "clock_amps", "gate", "pin25"} \in SUBSET Bit
      /\ {"sync2", "sync3"} \in SUBSET Bit /\ {"src_amps"} \in SUBSET Bit /\ {"gate"} \in SUBSET Bit
      /\ {"amps12"} \in SUBSET Bit /\ {"amps34"} \in SUBSET Bit /\ {} \in SUBSET Bit
  BY DEF Bit
<1> HIDE DEF L
<1>3h. L(h)
  BY <1>h DEF L, Leaves
<1>4. L(h1)
  BY <1>1, <1>2, <1>S, <1>3h, <1>n, <1>b DEF setup_TDM_amps12
<1> HIDE DEF h1
<1>5. L(h2)
  BY <1>1, <1>4, <1>b DEF setup_amps12
<1> HIDE DEF h2
<1>6. L(h3)
  BY <1>1, <1>2, <1>S, <1>5, <1>n, <1>b DEF setup_TDM_amps34
<1> HIDE DEF h3
<1>7. L(h4)
  BY <1>1, <1>6, <1>b DEF setup_amps34
<1> HIDE DEF h4
<1>8. L(h5)
  BY <1>1, <1>2, <1>S, <1>7, <1>n, <1>b DEF sync_converters_on
<1> HIDE DEF h5
<1>9. L(h6)
  BY <1>1, <1>2, <1>S, <1>8, <1>n, <1>b DEF sync_converters_off
<1> HIDE DEF h6
<1>10. L(h7)
  BY <1>1, <1>9, <1>b, Zenon DEF disable_amps12
<1> HIDE DEF h7
<1>h1. \A f : L(f) => f \in Hardware
  BY DEF L, Leaves
<1>s. \A f, d : Same(f, d) => f.hw = d.hw
  BY DEF Same
<1>11. L(e7) /\ e7.hw[\h02] = Silent
  <2>1. Rewrites(e7, h7, \h02, Silent)
    BY <1>10, <1>h1, <1>n, VerbsLeave, Zenon
  <2> QED BY <1>3, <1>S, <1>10, <1>n, <2>1, Zenon DEF Rewrites
<1>12. h8 = Put(e7, {"slots12", "pin24"}, {"gate"})
  BY Zenon DEF disable_TDM_amps12
<1> HIDE DEF e7, h8
<1>13. L(h8) /\ h8.hw[\h02] = Silent
  <2>1. Same(h8, e7)
    BY <1>11, <1>12, <1>h1, <1>b, VerbsLeave
  <2> QED BY <1>1, <1>11, <1>12, <1>b, <2>1, <1>s
<1>14. L(h9) /\ h9.hw[\h02] = Silent
  <2>1. h9 = Put(h8, {"amps34"}, {})
    BY DEF disable_amps34
  <2> HIDE DEF h9
  <2>2. Same(h9, h8)
    BY <1>13, <1>h1, <1>b, <2>1, VerbsLeave
  <2> QED BY <1>1, <1>13, <1>b, <2>1, <2>2, <1>s
<1> HIDE DEF h9
<1>15. L(e9) /\ e9.hw[\h03] = Silent /\ e9.hw[\h02] = Silent
  <2>1. Rewrites(e9, h9, \h03, Silent)
    BY <1>14, <1>h1, <1>n, VerbsLeave, Zenon
  <2>2. L(e9)
    BY <1>3, <1>S, <1>14, <1>n, Zenon
  <2> HIDE DEF e9
  <2> QED BY <1>14, <1>n, <2>1, <2>2 DEF Rewrites, Leaves
<1>16. k = Put(e9, {"slots34", "pads_amps", "src_amps", "clock_amps", "clock_headset",
                    "gate", "pin25"}, {})
  BY Zenon DEF disable_TDM_amps34
<1> HIDE DEF e9, k
<1>17. L(k) /\ k.hw[\h02] = Silent /\ k.hw[\h03] = Silent
  <2>1. Same(k, e9)
    BY <1>15, <1>16, <1>h1, <1>b, VerbsLeave
  <2> QED BY <1>1, <1>15, <1>16, <1>b, <2>1, <1>s
<1>18. /\ Leaves(g, h, {\h02, \h03, \h22}) /\ g.hw[\h02] = Silent /\ g.hw[\h03] = Silent
  <2>1. Leaves(k1, k, {\h22})
    BY <1>17, <1>h1, InputsLeave
  <2>2. k1 \in Hardware
    BY <2>1 DEF Leaves
  <2> HIDE DEF k1
  <2>3. Leaves(g, k1, {\h22})
    BY <2>2, InputsLeave
  <2> HIDE DEF g
  <2>4. Leaves(k, h, {\h02, \h03})
    BY <1>17 DEF L, ns
  <2>5. \h02 \in Nid \ {\h22} /\ \h03 \in Nid \ {\h22}
    BY <1>n
  <2> QED BY <1>17, <2>1, <2>3, <2>4, <2>5 DEF Leaves
<1>19. boot_amps(h) = g
  BY Zenon DEF boot_amps, h1, h2, h3, h4, h5, h6, h7, h8, h9, k
<1> HIDE DEF g
<1>20. HasChip(g, h.chip)
  <2>1. HasChip(h, h.chip)
    BY <1>h, HardwareHas
  <2> QED BY <2>1, <1>19, SpeakersSpare
<1>21. \E d : /\ HasBits(g, d)
              /\ d \cap {"slots12", "slots34", "amps12", "amps34", "clock_amps", "intmike"} = {}
              /\ "slots_out" \in d => "slots_out" \in h.bits
  <2>1. HasBits(h, h.bits)
    BY <1>h, HardwareHas
  <2> QED BY <2>1, <1>19, SpeakersWire, Zenon
<1>22. g.bits \cap {"slots12", "slots34", "slots_out", "amps12", "amps34", "clock_amps"} = {}
  BY <1>21 DEF HasBits, Booted
<1>23. \A n \in {\h02, \h03, \h0a} : g.hw[n].tag = 0
  <2>1. \h0a \in Nid \ {\h02, \h03, \h22}
    BY DEF Nid
  <2>2. g.hw[\h0a] = h.hw[\h0a]
    BY <2>1, <1>18 DEF Leaves
  <2> QED BY <1>18, <2>2 DEF Booted, Silent
<1>24. g.chip = h.chip /\ g \in Hardware
  BY <1>18, <1>20 DEF HasChip, Leaves
<1> QED BY <1>19, <1>22, <1>23, <1>24 DEF Booted

\* What the boot leaves.
LEMMA BootSets ==
  ASSUME NEW plugged, NEW mike
  PROVE  Booted(boot_setup(plugged, mike))
<1> DEFINE h1 == boot_intmike(reset)
           h2 == IF plugged THEN boot_headset(h1, mike) ELSE boot_amps(h1)
           h3 == IF plugged /\ mike THEN boot_headset_mike(h2) ELSE h2
           h4 == volume_unmute(h3)
           h5 == really_update_stream_format(h4, \h22, 0, 0)
           h6 == boot_inputs_off(h5)
<1>0. Booted(reset)
  <2>1. inithw \in Chip
    <3> TRUE \in BOOLEAN /\ FALSE \in BOOLEAN
      OBVIOUS
    <3>1. Block \in SUBSET Block /\ {} \in SUBSET {"output", "input"}
      OBVIOUS
    <3> QED BY <3>1, Zenon DEF inithw, Chip
  <2>2. Silent \in Stored /\ [Silent EXCEPT !.fmt = \h4031] \in Stored
    BY DEF Silent, Stored, Format
  <2>3. {"afg"} \in SUBSET Bit /\ 0 \in {0, 2, 4}
    BY DEF Bit
  <2>4. reset \in Hardware
    BY <2>1, <2>2, <2>3 DEF reset, Hardware
  <2>5. \A n \in {\h02, \h03, \h0a} : n \in Nid /\ n # \h22
    BY DEF Nid
  <2>6. \A n \in {\h02, \h03, \h0a} : reset.hw[n].tag = 0
    BY <2>5 DEF reset, Silent
  <2>7. reset.chip.down = Block /\ ~reset.chip.pll /\ ~reset.chip.oscillator /\ ~reset.chip.buffers
    BY DEF reset, inithw
  <2>8. reset.bits = {"afg"}
    BY DEF reset
  <2> QED BY <2>4, <2>6, <2>7, <2>8 DEF Booted
<1>s. \A h : Booted(h) => h \in Hardware /\ h.chip \in Chip /\ SameSound(h.chip, h.chip)
  BY DEF Booted, Hardware, SameSound, Chip
<1>1. ASSUME NEW h, Booted(h), NEW g, Writes(g, h, {\h22}, {}, {}, h.chip)
      PROVE  Booted(g)
  <2>1. SameSound(h.chip, h.chip) /\ {\h22} \cap {\h02, \h03, \h0a} = {}
    BY <1>1, <1>s
  <2>2. {} \cap {"slots12", "slots34", "slots_out", "amps12", "amps34", "clock_amps"} = {}
    OBVIOUS
  <2> QED BY <1>1, <2>1, <2>2, BootedKept
<1>2. ASSUME NEW h, Booted(h), NEW c \in Chip, SameSound(h.chip, c)
      PROVE  Booted(OnChip(h, c))
  <2>1. Writes(h, h, {}, {}, {}, h.chip)
    BY <1>2, <1>s DEF Writes, Leaves
  <2>2. Writes(OnChip(h, c), h, {}, {}, {} \cup {"afg"}, c)
    BY <2>1, <1>2, ChipWrites
  <2>3. /\ ({} \cup {"afg"})
             \cap {"slots12", "slots34", "slots_out", "amps12", "amps34", "clock_amps"} = {}
        /\ {} \cap {\h02, \h03, \h0a} = {}
    OBVIOUS
  <2> QED BY <2>2, <2>3, <1>2, BootedKept
<1>3. Booted(h1)
  <2>1. Writes(boot_intmike(reset), reset, {\h22}, {}, {}, reset.chip)
    BY <1>0, <1>s, SoundWrites, Zenon
  <2> QED BY <1>0, <1>1, <2>1
<1> HIDE DEF h1
<1>4. Booted(boot_headset(h1, mike))
  <2> DEFINE c0 == plugin_handle_detect(h1.chip)
             c1 == plugin_complete_detect(c0)
             c2 == headset_type_detect(c1, mike)
             d == IF mike THEN headset_button_detect(c2) ELSE c2
  <2>1. SameSound(h1.chip, h1.chip) /\ h1.chip \in Chip
    BY <1>3, <1>s
  <2>2. SameSound(h1.chip, c0) /\ c0 \in Chip
    BY <2>1, EventsKeepSound, EventTypes
  <2> HIDE DEF c0
  <2>3. SameSound(h1.chip, c1) /\ c1 \in Chip
    BY <2>2, EventsKeepSound, EventTypes
  <2> HIDE DEF c1
  <2>4. SameSound(h1.chip, c2) /\ c2 \in Chip
    BY <2>3, EventsKeepSound, EventTypes
  <2> HIDE DEF c2
  <2>5. SameSound(h1.chip, d) /\ d \in Chip
    BY <2>4, EventsKeepSound, EventTypes
  <2>6. boot_headset(h1, mike) = OnChip(h1, d)
    BY DEF boot_headset, c0, c1, c2
  <2> HIDE DEF d
  <2> QED BY <1>2, <1>3, <2>5, <2>6
<1>5. Booted(h2)
  BY <1>3, <1>4, BootAmps
<1> HIDE DEF h2
<1>6. Booted(boot_headset_mike(h2))
  <2> DEFINE k == intmike_linein_disable(h2)
             g == headset_mike_format_setup_enable(k)
             c1 == input_set_output_sample_rate(g.chip)
             c == mike_enable(c1)
             d == headset_mike_buttons_enable(c)
  <2>1. Booted(k)
    <3>1. Writes(k, h2, {\h22}, {}, {}, h2.chip)
      BY <1>5, <1>s, SoundWrites, Zenon
    <3> QED BY <3>1, <1>1, <1>5
  <2> HIDE DEF k
  <2>2. Booted(g)
    <3>1. Writes(g, k, {\h1a}, {"clock_amps"},
                 {"slots_in", "clock_headset", "gate", "pin3c"}, k.chip)
      BY <2>1, <1>s, PortsWrite, Zenon
    <3>2. {\h1a} \cap {\h02, \h03, \h0a} = {}
      OBVIOUS
    <3>3. {"slots_in", "clock_headset", "gate", "pin3c"}
            \cap {"slots12", "slots34", "slots_out", "amps12", "amps34", "clock_amps"} = {}
      OBVIOUS
    <3>4. SameSound(k.chip, k.chip)
      BY <2>1, <1>s
    <3> HIDE DEF g
    <3> QED BY <3>1, <3>2, <3>3, <3>4, <2>1, BootedKept
  <2> HIDE DEF g
  <2>3. c1 \in Chip /\ c \in Chip
    <3>1. c1 \in Chip
      BY <2>2, <1>s, SoundTypes, Zenon
    <3> QED BY <3>1, SoundTypes, Zenon
  <2>4. /\ c.down = Block /\ ~c.pll /\ ~c.oscillator /\ ~c.buffers
    BY <2>2, <1>s DEF Booted, SameSound, mike_enable, input_set_output_sample_rate
  <2>5. boot_headset_mike(h2) = OnChip(g, d)
    BY DEF boot_headset_mike, g, k
  <2> HIDE DEF c
  <2>6. SameSound(c, d) /\ d \in Chip
    <3>1. SameSound(c, c)
      BY <2>3 DEF Chip, SameSound
    <3> QED BY <3>1, <2>3, EventsKeepSound, EventTypes
  <2> HIDE DEF d
  <2>7. d.down = Block /\ ~d.pll /\ ~d.oscillator /\ ~d.buffers
    BY <2>4, <2>6 DEF SameSound
  <2>8. Writes(g, g, {}, {}, {}, g.chip)
    BY <2>2, <1>s DEF Writes, Leaves
  <2> DEFINE f == OnChip(g, d)
  <2>9. Writes(f, g, {}, {}, {} \cup {"afg"}, d)
    BY <2>6, <2>8, ChipWrites
  <2> HIDE DEF f
  <2>10. f.bits \cap {"slots12", "slots34", "slots_out", "amps12", "amps34", "clock_amps"} = {}
    <3>1. {"slots12", "slots34", "slots_out", "amps12", "amps34", "clock_amps"} \cap InputBit = {}
      BY DEF InputBit, MikeBit
    <3>2. g.bits \cap {"slots12", "slots34", "slots_out", "amps12", "amps34", "clock_amps"} = {}
      BY <2>2 DEF Booted
    <3> QED BY <3>1, <3>2, <2>9 DEF Writes
  <2>11. \A n \in {\h02, \h03, \h0a} : f.hw[n].tag = 0
    <3>1. \A n \in {\h02, \h03, \h0a} : n \in Nid \ {}
      BY DEF Nid
    <3> QED BY <3>1, <2>9, <2>2 DEF Writes, Leaves, Booted
  <2>12. f \in Hardware /\ f.chip = d
    BY <2>9 DEF Writes, Leaves
  <2> QED BY <2>5, <2>7, <2>10, <2>11, <2>12 DEF Booted, f
<1>7. Booted(h3)
  BY <1>5, <1>6
<1> HIDE DEF h3
<1>8. Booted(h4)
  <2>1. Writes(h4, h3, {\h22}, {}, {}, h3.chip)
    BY <1>7, <1>s, SoundWrites, Zenon
  <2> HIDE DEF h4
  <2> QED BY <2>1, <1>1, <1>7
<1> HIDE DEF h4
<1>9. Booted(h5)
  <2>0. h4 \in Hardware /\ \h22 \in Nid /\ 0 \in 0..2 /\ 0 \in {0, 2}
    BY <1>8, <1>s DEF Nid
  <2>1. Updates(h5, h4, \h22, 0, 0)
    BY <2>0, ReallyUpdates
  <2>2. HasBits(h5, h4.bits) /\ HasChip(h5, h4.chip)
    BY <2>0, HardwareHas, StoreWires, StoreSpares
  <2> HIDE DEF h5
  <2>3. Writes(h5, h4, {\h22}, {}, {}, h4.chip)
    BY <2>1, <2>2 DEF Updates, HasBits, HasChip, Writes
  <2> QED BY <2>3, <1>1, <1>8
<1> HIDE DEF h5
<1>10. Booted(h6)
  <2>1. Writes(h6, h5, {\h22}, {}, {}, h5.chip)
    BY <1>9, <1>s, SoundWrites, Zenon
  <2> HIDE DEF h6
  <2> QED BY <2>1, <1>1, <1>9
<1>11. boot_setup(plugged, mike) = h6
  BY Zenon DEF boot_setup, h1, h2, h3, h4, h5, h6
<1> QED BY <1>10, <1>11

-----------------------------------------------------------------------------
(* The types, and what is stored for an open stream.                       *)

\* The registers have their types, and so have the histories of the streams.
Typed ==
  /\ path \in Hardware
  /\ device \in {\h22, \h1a}
  /\ reprepared \in BOOLEAN /\ joined \in BOOLEAN

\* Hardware with the stored parameters of h.
Kin(g, h) == g \in Hardware /\ g.papl = h.papl /\ g.channels = h.channels

\* What is stored is left alone, and so is the capture device.
StoreKept == path'.papl = path.papl /\ path'.channels = path.channels /\ device' = device

\* What is written to hardware is hardware.
LEMMA WrittenHardware ==
  ASSUME NEW g, NEW h, NEW f, Kin(h, f)
  PROVE  /\ \A ns : Leaves(g, h, ns) => Kin(g, f)
         /\ \A ns, off, enabled, c : Writes(g, h, ns, off, enabled, c) => Kin(g, f)
         /\ Same(g, h) => Kin(g, f)
         /\ OutputOn(g, h) \/ OutputOff(g, h) => Kin(g, f)
         /\ InputOn(g, h) \/ InputOff(g, h) => Kin(g, f)
         /\ OutputUnplugged(g, h) \/ InputUnplugged(g, h) => Kin(g, f)
BY DEF Kin, Leaves, Writes, Same, OutputOn, OutputOff, InputOn, InputOff, OutputUnplugged,
       InputUnplugged

\* No function changes what is stored.
LEMMA FunctionsKin ==
  ASSUME NEW h, NEW f, Kin(h, f)
  PROVE  /\ Kin(play(h), f) /\ Kin(amps_disable_streaming(h), f)
         /\ Kin(inputs_power_nids_off(h), f) /\ Kin(intmike_linein_disable(h), f)
         /\ Kin(capture(h), f) /\ Kin(capturestop(h), f)
         /\ Kin(enable_headset_streaming(h), f) /\ Kin(disable_headset_streaming(h), f)
         /\ Kin(enable_headset_mike_streaming(h), f) /\ Kin(disable_headset_mike_streaming(h), f)
         /\ \A mike : Kin(unplug_headset_output(h, mike), f)
         /\ Kin(unplug_headset_input(h), f)
<1>1. h \in Hardware
  BY DEF Kin
<1>2. /\ Leaves(inputs_power_nids_off(h), h, {\h22})
      /\ Leaves(intmike_linein_disable(h), h, {\h22})
      /\ Leaves(capture(h), h, {\h22}) /\ Leaves(capturestop(h), h, {\h22})
  BY <1>1, InputsLeave
<1>3. Leaves(play(h), h, {\h02, \h03}) /\ Leaves(amps_disable_streaming(h), h, {\h02, \h03})
  BY <1>1, PlaySets, AmpsOffSets
<1>4. /\ OutputOn(enable_headset_streaming(h), h) /\ OutputOff(disable_headset_streaming(h), h)
      /\ InputOn(enable_headset_mike_streaming(h), h)
      /\ InputOff(disable_headset_mike_streaming(h), h)
      /\ \A mike : OutputUnplugged(unplug_headset_output(h, mike), h)
      /\ InputUnplugged(unplug_headset_input(h), h)
  BY <1>1, OutputWrites, InputWrites, UnplugWrites
<1> QED BY <1>2, <1>3, <1>4, WrittenHardware

\* The boot leaves hardware.
LEMMA TypedInit == PathInit => Typed
<1> SUFFICES ASSUME PathInit PROVE Typed
  OBVIOUS
<1>1. path \in Hardware
  BY BootSets DEF PathInit, Booted
<1>2. reprepared \in BOOLEAN /\ joined \in BOOLEAN
  BY Zenon DEF PathInit
<1> QED BY <1>1, <1>2 DEF PathInit, Typed

\* An access to the chip.
LEMMA TypedChip ==
  ASSUME NEW h, NEW f, Kin(h, f), NEW c \in Chip
  PROVE  Kin(OnChip(h, c), f)
<1>1. h \in Hardware
  BY DEF Kin
<1> QED BY <1>1, VerbsLeave, WrittenHardware

\* A jack event stores nothing.
LEMMA TypedByEvent ==
  ASSUME Typed, PathEventStep
  PROVE  Typed' /\ StoreKept
<1> USE DEF Registers
<1>0. path \in Hardware /\ path.chip \in Chip /\ Kin(path, path)
  BY HardwareHas DEF Typed, Kin
<1>1. ASSUME Kin(path', path), UNCHANGED <<device, reprepared, joined>>
      PROVE  Typed' /\ StoreKept
  BY <1>1 DEF Typed, StoreKept, Kin
<1>2. ASSUME NEW c \in Chip, path' = OnChip(path, c), UNCHANGED <<device, reprepared, joined>>
      PROVE  Typed' /\ StoreKept
  BY <1>0, <1>1, <1>2, TypedChip
<1>3. CASE PathPluginHandleDetect \/ PathPluginCompleteDetect \/ PathButtonDetectEvent
  BY <1>3, <1>0, <1>2, EventTypes
  DEF Plugged, PathPluginHandleDetect, PathPluginCompleteDetect, PathButtonDetectEvent
<1>4. CASE PathTypeDetectEvent
  BY <1>4, <1>0, <1>2, EventTypes DEF Plugged, PathTypeDetectEvent
<1>5. CASE PathPluginWhilePlaying
  <2> DEFINE h == amps_disable_streaming(path)
             g == enable_headset_streaming(h)
  <2>1. Kin(h, path)
    BY <1>0, FunctionsKin
  <2>2. path' = IF active["playback"] THEN g ELSE path
    BY <1>5 DEF PathPluginWhilePlaying
  <2> HIDE DEF h
  <2>3. Kin(g, path)
    BY <2>1, FunctionsKin
  <2> QED BY <1>0, <1>1, <1>5, <2>2, <2>3 DEF PathPluginWhilePlaying
<1>6. CASE PathPluginInputs
  <2> DEFINE h1 == inputs_power_nids_off(path)
             h2 == intmike_linein_disable(h1)
             c  == headset_mike_buttons_enable(h2.chip)
             g  == OnChip(h2, c)
  <2>1. Kin(h1, path)
    BY <1>0, FunctionsKin
  <2>2. path' = IF have_mike THEN g ELSE h1
    BY <1>6 DEF PathPluginInputs
  <2> HIDE DEF h1
  <2>3. Kin(h2, path)
    BY <2>1, FunctionsKin
  <2> HIDE DEF h2
  <2>4. c \in Chip
    BY <2>3, HardwareHas, EventTypes DEF Kin
  <2> HIDE DEF c
  <2>5. Kin(g, path)
    BY <2>3, <2>4, TypedChip
  <2> QED BY <1>1, <1>6, <2>1, <2>2, <2>5 DEF PathPluginInputs
<1>7. CASE PathUnplugEvent
  BY <1>7, <1>0, <1>2, EventTypes DEF Plugged, PathUnplugEvent
<1>8. CASE PathUnplugHeadsetOff
  <2>1. Kin(unplug_headset_output(path, have_mike), path)
    BY <1>0, FunctionsKin
  <2> QED BY <1>0, <1>1, <1>8, <2>1 DEF PathUnplugHeadsetOff
<1>9. CASE PathUnplugAmpsOn
  <2> DEFINE h1 == IF active["playback"] THEN play(path) ELSE path
             h2 == IF have_mike THEN unplug_headset_input(h1) ELSE inputs_power_nids_off(h1)
             c  == unplug_detect_end(h2.chip)
  <2>1. Kin(h1, path)
    BY <1>0, FunctionsKin
  <2>2. path' = OnChip(h2, c)
    BY <1>9 DEF PathUnplugAmpsOn
  <2> HIDE DEF h1
  <2>3. Kin(h2, path)
    BY <2>1, FunctionsKin
  <2> HIDE DEF h2
  <2>4. c \in Chip
    BY <2>3, HardwareHas, EventTypes DEF Kin
  <2> HIDE DEF c
  <2>5. Kin(path', path)
    BY <2>2, <2>3, <2>4, TypedChip
  <2> QED BY <1>1, <1>9, <2>5 DEF PathUnplugAmpsOn
<1>10. CASE UnplugReset /\ Registers(path)
  BY <1>0, <1>1, <1>10
<1> QED BY <1>3, <1>4, <1>5, <1>6, <1>7, <1>8, <1>9, <1>10 DEF PathEventStep

\* Nor does a step of an operation.
LEMMA TypedByPcm ==
  ASSUME Typed, PathPcmStep
  PROVE  Typed' /\ StoreKept
<1> USE DEF Registers
<1>0. path \in Hardware /\ Kin(path, path)
  BY DEF Typed, Kin
<1>1. ASSUME Kin(path', path), UNCHANGED <<device, reprepared>>, joined' \in BOOLEAN
      PROVE  Typed' /\ StoreKept
  BY <1>1 DEF Typed, StoreKept, Kin
<1>j. joined \in BOOLEAN /\ (joined /\ stream # "playback") \in BOOLEAN
      /\ (~OutputNeeded) \in BOOLEAN
  BY DEF Typed
<1>2. CASE PathHeadsetOutputOn \/ PathHeadsetInputOn
  <2>1. /\ Kin(enable_headset_streaming(path), path)
        /\ Kin(enable_headset_mike_streaming(path), path)
    BY <1>0, FunctionsKin
  <2>2. \/ path' = path
        \/ path' = enable_headset_streaming(path)
        \/ path' = enable_headset_mike_streaming(path)
    BY <1>2 DEF PathHeadsetOutputOn, PathHeadsetInputOn
  <2>3. joined' \in BOOLEAN /\ UNCHANGED <<device, reprepared>>
    BY <1>2, <1>j DEF PathHeadsetOutputOn, PathHeadsetInputOn
  <2> QED BY <1>0, <1>1, <2>1, <2>2, <2>3
<1>3. CASE PathInternalSetUp
  <2> DEFINE h == Put(path, {}, {"afg"})
  <2>1. Kin(h, path)
    <3>1. {"afg"} \in SUBSET Bit
      BY DEF Bit
    <3> QED BY <1>0, <3>1, VerbsLeave, WrittenHardware
  <2>2. path' = IF stream = "playback" THEN play(h) ELSE capture(h)
    BY <1>3 DEF PathInternalSetUp
  <2> HIDE DEF h
  <2>3. Kin(path', path)
    BY <2>1, <2>2, FunctionsKin
  <2>4. joined' \in BOOLEAN /\ UNCHANGED <<device, reprepared>>
    BY <1>3, <1>j DEF PathInternalSetUp
  <2> QED BY <1>1, <2>3, <2>4
<1>4. CASE PathHeadsetInputOff \/ PathHeadsetOutputOff
  <2>1. /\ Kin(disable_headset_mike_streaming(path), path)
        /\ Kin(disable_headset_streaming(path), path)
    BY <1>0, FunctionsKin
  <2>2. \/ path' = path
        \/ path' = disable_headset_mike_streaming(path)
        \/ path' = disable_headset_streaming(path)
    BY <1>4 DEF PathHeadsetInputOff, PathHeadsetOutputOff
  <2>3. UNCHANGED <<device, reprepared, joined>>
    BY <1>4 DEF PathHeadsetInputOff, PathHeadsetOutputOff
  <2> QED BY <1>0, <1>1, <1>j, <2>1, <2>2, <2>3
<1>5. CASE PathInternalCleanUp
  <2> DEFINE h1 == amps_disable_streaming(path)
             h2 == Put(h1, {"afg"}, {})
  <2>1. Kin(h1, path)
    BY <1>0, FunctionsKin
  <2>2. path' = IF stream = "playback" THEN inputs_power_nids_off(h2) ELSE capturestop(path)
    BY <1>5 DEF PathInternalCleanUp
  <2> HIDE DEF h1
  <2>3. Kin(h2, path)
    BY <2>1, VerbsLeave, WrittenHardware DEF Bit, Kin
  <2> HIDE DEF h2
  <2>4. Kin(path', path)
    BY <1>0, <2>2, <2>3, FunctionsKin
  <2> QED BY <1>1, <1>5, <1>j, <2>4 DEF PathInternalCleanUp
<1>6. CASE PathHookUnblock
  <2> DEFINE p == path.papl[device]
  <2>0. device \in Nid /\ p \in Stored
    BY <1>0 DEF Typed, Nid, Hardware
  <2>1. p.tag \in 0..3 /\ 0 \in {0, 2} /\ p.fmt \in Format \cup {0}
    BY <2>0 DEF Stored
  <2>2. path' = IF stream = "capture" /\ op = "prepare"
                THEN setup_stream(path, device, p.tag, 0, p.fmt) ELSE path
    BY <1>6 DEF PathHookUnblock
  <2> HIDE DEF p
  <2>3. SetsUp(setup_stream(path, device, p.tag, 0, p.fmt), path, device, p.tag, 0, p.fmt)
    BY <1>0, <2>0, <2>1, SetUpSets
  <2>4. Kin(path', path)
    BY <1>0, <2>2, <2>3, WrittenHardware DEF SetsUp, Kin
  <2> QED BY <1>1, <1>6, <1>j, <2>4 DEF PathHookUnblock
<1>7. CASE (BlockUnsol \/ HeadsetMark \/ RealDrain \/ RealUnblock \/ HookDrain \/ HookDone) /\ Registers(path)
  BY <1>0, <1>1, <1>7, <1>j
<1> QED BY <1>2, <1>3, <1>4, <1>5, <1>6, <1>7 DEF PathPcmStep

\* The call of a prepare stores what has its type.
LEMMA TypedByOthers ==
  ASSUME Typed,
         \/ WorkerStep /\ Registers(path)
         \/ MovePlug /\ Registers(path)
         \/ \E s \in Stream : PathPrepare(s) \/ PathCleanup(s)
         \/ UNCHANGED pathVars
  PROVE  Typed'
<1> USE DEF Registers
<1>1. ASSUME UNCHANGED <<path, device, reprepared, joined>>
      PROVE  Typed'
  BY <1>1 DEF Typed
<1>2. ASSUME NEW s \in Stream, PathPrepare(s)
      PROVE  Typed'
  <2>1. PICK fmt \in Format, n \in {\h22, \h1a} :
          IF s = "playback"
          THEN /\ path' = store_playback(path, fmt)
               /\ reprepared' = (init_count[s] > 0 /\ (reprepared \/ path.papl[\h02].fmt # fmt))
               /\ UNCHANGED device
          ELSE /\ path' = store_stream_format(path, n, Tag(n), fmt)
               /\ device' = n
               /\ UNCHANGED reprepared
    BY <1>2 DEF PathPrepare
  <2>2. joined' = joined
    BY <1>2 DEF PathPrepare
  <2>3. CASE s = "playback"
    <3>1. StoresPlayback(path', path, fmt)
      BY <2>1, <2>3, StoreWrites DEF Typed
    <3> QED BY <2>1, <2>2, <2>3, <3>1 DEF Typed, StoresPlayback, Keeps
  <2>4. CASE s # "playback"
    <3>1. n \in Nid /\ Tag(n) \in 0..3
      BY DEF Nid, Tag
    <3>2. StoresOne(path', path, n, [tag |-> Tag(n), ch |-> 0, fmt |-> fmt])
      BY <2>1, <2>4, <3>1, StoreWrites DEF Typed
    <3>3. path' \in Hardware
      BY <3>2 DEF StoresOne, Keeps
    <3> QED BY <2>1, <2>2, <2>4, <3>3 DEF Typed
  <2> QED BY <2>3, <2>4
<1>3. ASSUME NEW s \in Stream, PathCleanup(s)
      PROVE  Typed'
  BY <1>1, <1>3 DEF PathCleanup
<1> QED BY <1>1, <1>2, <1>3 DEF pathVars

\* One format is stored for the three converters of playback.
StoredPlayback ==
  \E f \in Format :
    /\ \A n \in {\h02, \h03, \h0a} : path.papl[n] = [tag |-> 1, ch |-> 0, fmt |-> f]
    /\ path.channels = IF f = \h4031 THEN 2 ELSE 4

\* What is stored while a stream is open.
Remembered ==
  /\ init_count["playback"] > 0 \/ active["playback"] => StoredPlayback
  /\ init_count["capture"] > 0
       => path.papl[device] = [tag |-> Tag(device), ch |-> 0, fmt |-> \h4031]

\* Only a prepare opens a stream.
Opened(s) == init_count[s] > 0 \/ active[s]

\* No other step opens a stream.
LEMMA OpenedKept ==
  ASSUME TypeOK, Counted,
         \/ WorkerStep \/ MovePlug \/ EventStep \/ PcmStep \/ (\E s \in Stream : Cleanup(s))
         \/ UNCHANGED vars
  PROVE  \A s \in Stream : /\ Opened(s)' => Opened(s)
                           /\ init_count'[s] > 0 => init_count[s] > 0
<1> DEFINE Goal == \A s \in Stream : /\ Opened(s)' => Opened(s)
                                     /\ init_count'[s] > 0 => init_count[s] > 0
<1>0. /\ stream \in Stream /\ init_count \in [Stream -> 0..MaxInit]
      /\ active \in [Stream -> BOOLEAN]
  BY DEF TypeOK
<1>1. ASSUME UNCHANGED <<init_count, active>> PROVE Goal
  BY <1>1 DEF Opened
<1>2. CASE WorkerStep
  BY <1>1, <1>2 DEF WorkerStep, UnsolHandle, UnsolStore, UnsolList, UnsolUnblock, flags
<1>3. CASE MovePlug
  BY <1>1, <1>3 DEF MovePlug, flags
<1>4. CASE EventStep
  BY <1>1, <1>4
  DEF EventStep, PluginHandleDetect, PluginCompleteDetect, TypeDetectEvent, ButtonDetectEvent,
      PluginWhilePlaying, PluginInputs, UnplugEvent, UnplugHeadsetOff, UnplugAmpsOn, UnplugReset,
      flags
<1>5. CASE \/ HeadsetOutputOn \/ HeadsetInputOn \/ HeadsetInputOff \/ HeadsetOutputOff
           \/ HeadsetMark \/ RealUnblock
  <2>1. init_count' = init_count /\ active' \in {active, [active EXCEPT ![stream] = FALSE]}
    BY <1>5 DEF HeadsetOutputOn, HeadsetInputOn, HeadsetInputOff, HeadsetOutputOff, HeadsetMark,
                RealUnblock, Proceed
  <2> QED BY <1>0, <2>1 DEF Opened
<1>6. CASE BlockUnsol \/ InternalSetUp \/ InternalCleanUp \/ RealDrain \/ HookUnblock \/ HookDrain
  BY <1>1, <1>6
  DEF BlockUnsol, InternalSetUp, InternalCleanUp, RealDrain, HookUnblock, HookDrain, flags
<1>8. CASE HookDone
  <2>1. /\ active' = [active EXCEPT ![stream] = (op = "prepare")]
        /\ init_count' = IF op = "cleanup" THEN [init_count EXCEPT ![stream] = 0] ELSE init_count
        /\ op = "prepare" => init_count[stream] > 0
    BY <1>8 DEF HookDone, Goto, Counted
  <2>2. ASSUME NEW s \in Stream
        PROVE  /\ init_count'[s] > 0 => init_count[s] > 0
               /\ Opened(s)' => Opened(s)
    BY <1>0, <2>1 DEF Opened
  <2> QED BY <2>2
<1>9. CASE \E s \in Stream : Cleanup(s)
  BY <1>1, <1>9 DEF Cleanup
<1>10. CASE UNCHANGED vars
  BY <1>1, <1>10 DEF vars, flags
<1> QED BY <1>2, <1>3, <1>4, <1>5, <1>6, <1>8, <1>9, <1>10 DEF PcmStep

\* After the boot no stream is open.
LEMMA RememberedInit == PathInit => Remembered
<1> SUFFICES ASSUME PathInit PROVE Remembered
  OBVIOUS
<1>1. "playback" \in Stream /\ "capture" \in Stream
  BY DEF Stream
<1>2. init_count = [s \in Stream |-> 0] /\ active = [s \in Stream |-> FALSE]
  BY DEF PathInit, Init
<1>3. init_count["playback"] = 0 /\ ~active["playback"] /\ init_count["capture"] = 0
  BY <1>1, <1>2
<1> QED BY <1>3 DEF Remembered

\* Steps that leave what is stored, and what is open.
LEMMA RememberedKept ==
  ASSUME Remembered, StoreKept,
         \A s \in Stream : /\ Opened(s)' => Opened(s)
                           /\ init_count'[s] > 0 => init_count[s] > 0
  PROVE  Remembered'
<1>1. StoredPlayback => StoredPlayback'
  BY DEF StoredPlayback, StoreKept
<1>0. /\ Opened("playback")' => Opened("playback")
      /\ init_count'["capture"] > 0 => init_count["capture"] > 0
  BY DEF Stream
<1>2. init_count'["playback"] > 0 \/ active'["playback"] => StoredPlayback'
  BY <1>0, <1>1 DEF Remembered, Opened
<1>3. init_count'["capture"] > 0
        => path'.papl[device'] = [tag |-> Tag(device'), ch |-> 0, fmt |-> \h4031]
  BY <1>0 DEF Remembered, StoreKept
<1> QED BY <1>2, <1>3 DEF Remembered

\* A prepare stores the stream it opens, and no other.
LEMMA RememberedByPrepare ==
  ASSUME TypeOK, Typed, Remembered, NEW s \in Stream, PathPrepare(s)
  PROVE  Remembered'
<1>0. /\ init_count \in [Stream -> 0..MaxInit] /\ active \in [Stream -> BOOLEAN]
      /\ path \in Hardware /\ device \in {\h22, \h1a}
  BY DEF TypeOK, Typed
<1>1. /\ init_count' = [init_count EXCEPT ![s] = @ + 1]
      /\ active' = IF s = "capture" THEN [active EXCEPT ![s] = FALSE] ELSE active
  BY DEF PathPrepare, Prepare
<1>2. PICK fmt \in Format, n \in {\h22, \h1a} :
        IF s = "playback"
        THEN path' = store_playback(path, fmt) /\ UNCHANGED device
        ELSE /\ fmt = \h4031
             /\ path' = store_stream_format(path, n, Tag(n), fmt)
             /\ device' = n
  BY DEF PathPrepare
<1>3. CASE s = "playback"
  <2>1. StoresPlayback(path', path, fmt)
    BY <1>0, <1>2, <1>3, StoreWrites
  <2>2. StoredPlayback'
    BY <2>1 DEF StoresPlayback, StoredPlayback
  <2>3. init_count'["capture"] = init_count["capture"] /\ device' = device
    BY <1>0, <1>1, <1>2, <1>3
  <2>4. path'.papl[device] = path.papl[device]
    BY <1>0, <2>1 DEF StoresPlayback
  <2> QED BY <2>2, <2>3, <2>4 DEF Remembered
<1>4. CASE s = "capture"
  <2>1. n \in Nid /\ Tag(n) \in 0..3
    BY DEF Nid, Tag
  <2>2. StoresOne(path', path, n, [tag |-> Tag(n), ch |-> 0, fmt |-> \h4031])
    BY <1>0, <1>2, <1>4, <2>1, StoreWrites
  <2>3. path.papl \in [Nid -> Stored]
    BY <1>0 DEF Hardware
  <2>4. path'.papl[device'] = [tag |-> Tag(device'), ch |-> 0, fmt |-> \h4031]
    BY <1>2, <1>4, <2>1, <2>2, <2>3 DEF StoresOne
  <2>5. \A m \in {\h02, \h03, \h0a} : path'.papl[m] = path.papl[m]
    <3>1. \A m \in {\h02, \h03, \h0a} : m # n
      OBVIOUS
    <3> QED BY <3>1, <2>2, <2>3 DEF StoresOne, Nid
  <2>6. StoredPlayback => StoredPlayback'
    BY <2>2, <2>5 DEF StoresOne, StoredPlayback
  <2>7. init_count'["playback"] = init_count["playback"] /\ active'["playback"] = active["playback"]
    BY <1>0, <1>1, <1>4
  <2> QED BY <2>4, <2>6, <2>7 DEF Remembered
<1> QED BY <1>3, <1>4 DEF Stream

\* Every step keeps what is stored for an open stream.
LEMMA RememberedStep ==
  ASSUME TypeOK, Counted, Typed, Remembered, [PathNext]_pathVars
  PROVE  Remembered' /\ Typed'
<1>1. CASE \/ WorkerStep /\ Registers(path)
           \/ MovePlug /\ Registers(path)
           \/ UNCHANGED pathVars
           \/ \E s \in Stream : PathCleanup(s)
  <2>1. Typed'
    BY <1>1, TypedByOthers
  <2>2. StoreKept
    BY <1>1 DEF Registers, StoreKept, pathVars, PathCleanup
  <2>3. \A s \in Stream : (Opened(s)' => Opened(s)) /\ (init_count'[s] > 0 => init_count[s] > 0)
    BY <1>1, OpenedKept DEF PathCleanup, pathVars
  <2> QED BY <2>1, <2>2, <2>3, RememberedKept
<1>2. CASE PathEventStep
  <2>1. Typed' /\ StoreKept
    BY <1>2, TypedByEvent
  <2>2. EventStep
    BY <1>2
    DEF PathEventStep, EventStep, Plugged, PathPluginHandleDetect, PathPluginCompleteDetect,
        PathTypeDetectEvent, PathButtonDetectEvent, PathPluginWhilePlaying, PathPluginInputs,
        PathUnplugEvent, PathUnplugHeadsetOff, PathUnplugAmpsOn
  <2>3. \A s \in Stream : (Opened(s)' => Opened(s)) /\ (init_count'[s] > 0 => init_count[s] > 0)
    BY <2>2, OpenedKept
  <2> QED BY <2>1, <2>3, RememberedKept
<1>3. CASE PathPcmStep
  <2>1. Typed' /\ StoreKept
    BY <1>3, TypedByPcm
  <2>2. PcmStep
    BY <1>3
    DEF PathPcmStep, PcmStep, PathHeadsetOutputOn, PathHeadsetInputOn, PathHeadsetInputOff,
        PathHeadsetOutputOff, PathInternalSetUp, PathInternalCleanUp, PathHookUnblock
  <2>3. \A s \in Stream : (Opened(s)' => Opened(s)) /\ (init_count'[s] > 0 => init_count[s] > 0)
    BY <2>2, OpenedKept
  <2> QED BY <2>1, <2>3, RememberedKept
<1>4. ASSUME NEW s \in Stream, PathPrepare(s)
      PROVE  Remembered' /\ Typed'
  BY <1>4, RememberedByPrepare, TypedByOthers
<1> QED BY <1>1, <1>2, <1>3, <1>4 DEF PathNext

-----------------------------------------------------------------------------
(* What the registers are to be, for a set of units that are on.           *)

\* An output that is off is connected to no stream and not powered.
Quiet(h, units) ==
  /\ "speakers" \notin units
       => /\ h.hw[\h02].tag = 0 /\ h.hw[\h03].tag = 0
          /\ h.bits \cap {"slots12", "slots34", "amps12", "amps34", "clock_amps"} = {}
  /\ "headphones" \notin units
       => /\ h.hw[\h0a].tag = 0 /\ "slots_out" \notin h.bits
          /\ OutputBlock \subseteq h.chip.down /\ ~h.chip.buffers
  /\ h.chip.pll = h.chip.oscillator

\* The microphone of the headset, if it is off, is not powered.
Still(h, units) == "headset_mike" \notin units => InputBlock \subseteq h.chip.down

\* A port that is on has its clock.
Ticking(h, units) ==
  /\ "speakers" \in units => {"clock_amps", "gate", "src_amps"} \subseteq h.bits
  /\ units \cap {"headphones", "headset_mike"} # {} => {"clock_headset", "gate"} \subseteq h.bits
  /\ "headphones" \in units => "src_headset" \in h.bits

\* The first channel of the rear speakers.
Rear(h) == IF h.channels = 2 THEN 0 ELSE 2

\* An output that is on has the stream that is stored.
Carried(h, units) ==
  /\ "speakers" \in units => /\ h.hw[\h02] = Params(h, \h02, 2, 0)
                             /\ h.hw[\h03] = Params(h, \h03, 2, Rear(h))
  /\ "headphones" \in units => h.hw[\h0a] = Params(h, \h0a, 2, 0)

\* The microphone of the capture device n, if it is on, has its stream and is powered.
Recorded(h, units, n) ==
  (n = \h22 /\ "internal_mike" \in units) \/ (n = \h1a /\ "headset_mike" \in units)
    => h.hw[n] = Params(h, n, 2, 0) /\ "afg" \in h.bits

\* The fields that the predicates are about are none of the internal inputs.
LEMMA FieldsWritten ==
  ASSUME NEW g, NEW h, NEW ns, NEW off, NEW enabled, NEW c,
         Writes(g, h, ns, off, enabled, c)
  PROVE  /\ \A b \in {"slots12", "slots34", "slots_out", "amps12", "amps34", "clock_amps", "gate",
                      "src_amps", "src_headset", "clock_headset", "afg"} :
              b \in g.bits <=> (b \in h.bits /\ b \notin off) \/ b \in enabled
         /\ \A n \in {\h02, \h03, \h0a, \h22, \h1a} : n \notin ns => g.hw[n] = h.hw[n]
         /\ \A n, u, ch : Params(g, n, u, ch) = Params(h, n, u, ch)
         /\ Rear(g) = Rear(h)
         /\ g.chip = c
<1>1. \A b \in {"slots12", "slots34", "slots_out", "amps12", "amps34", "clock_amps", "gate",
                "src_amps", "src_headset", "clock_headset", "afg"} : b \notin InputBit
  BY DEF InputBit, MikeBit
<1>2. \A b \in {"slots12", "slots34", "slots_out", "amps12", "amps34", "clock_amps", "gate",
                "src_amps", "src_headset", "clock_headset", "afg"} :
        b \in g.bits <=> (b \in h.bits /\ b \notin off) \/ b \in enabled
  BY <1>1 DEF Writes
<1>3. \A n \in {\h02, \h03, \h0a, \h22, \h1a} : n \notin ns => g.hw[n] = h.hw[n]
  BY DEF Writes, Leaves, Nid
<1>4. /\ \A n, u, ch : Params(g, n, u, ch) = Params(h, n, u, ch)
      /\ Rear(g) = Rear(h) /\ g.chip = c
  BY DEF Writes, Leaves, Params, Rear
<1> QED BY <1>2, <1>3, <1>4

\* Steps that write nothing of what the predicates are about.
Spares(g, h) ==
  /\ \A b \in {"slots12", "slots34", "slots_out", "amps12", "amps34", "clock_amps", "gate",
               "src_amps", "src_headset", "clock_headset"} : b \in g.bits <=> b \in h.bits
  /\ \A n \in {\h02, \h03, \h0a} : g.hw[n] = h.hw[n]
  /\ \A n \in {\h02, \h03, \h0a} : \A u, ch : Params(g, n, u, ch) = Params(h, n, u, ch)
  /\ Rear(g) = Rear(h)
  /\ SameSound(h.chip, g.chip)

\* They keep the predicates.
LEMMA SparedKept ==
  ASSUME NEW g, NEW h, Spares(g, h), NEW units
  PROVE  /\ Quiet(h, units) => Quiet(g, units)
         /\ Still(h, units) => Still(g, units)
         /\ Ticking(h, units) => Ticking(g, units)
         /\ Carried(h, units) => Carried(g, units)
<1>1. Quiet(h, units) => Quiet(g, units)
  BY DEF Quiet, Spares, SameSound
<1>2. Still(h, units) => Still(g, units)
  BY DEF Still, Spares, SameSound
<1>3. Ticking(h, units) => Ticking(g, units)
  BY DEF Ticking, Spares
<1>4. Carried(h, units) => Carried(g, units)
  BY DEF Carried, Spares
<1> QED BY <1>1, <1>2, <1>3, <1>4

\* Only the units they name matter.
LEMMA UnitsMatter ==
  ASSUME NEW h, NEW u, NEW v
  PROVE  /\ Quiet(h, u) /\ (\A x \in {"speakers", "headphones"} : x \in u => x \in v)
              => Quiet(h, v)
         /\ Still(h, u) /\ ("headset_mike" \in u => "headset_mike" \in v) => Still(h, v)
         /\ Ticking(h, u) /\ (\A x \in {"speakers", "headphones", "headset_mike"} : x \in v => x \in u)
              => Ticking(h, v)
         /\ Carried(h, u) /\ (\A x \in {"speakers", "headphones"} : x \in v => x \in u)
              => Carried(h, v)
         /\ \A n : Recorded(h, u, n)
                     /\ (\A x \in {"internal_mike", "headset_mike"} : x \in v => x \in u)
                     => Recorded(h, v, n)
BY DEF Quiet, Still, Ticking, Carried, Recorded

\* What the speakers' functions do to the predicates.
LEMMA SpeakersTurned ==
  ASSUME NEW h \in Hardware, NEW u
  PROVE  /\ LET g == play(h)
                v == u \cup {"speakers"}
            IN /\ Quiet(h, u) => Quiet(g, v)
               /\ Still(h, u) => Still(g, v)
               /\ Ticking(h, u) => Ticking(g, v)
               /\ Loaded(h, \h02) /\ Loaded(h, \h03) /\ Carried(h, u) => Carried(g, v)
               /\ Recorded(h, u, \h22) => Recorded(g, v, \h22)
               /\ Recorded(h, u, \h1a) => Recorded(g, v, \h1a)
         /\ LET g == amps_disable_streaming(h)
                v == u \ {"speakers"}
            IN /\ Quiet(h, u) => Quiet(g, v)
               /\ Still(h, u) => Still(g, v)
               /\ v \cap {"headphones", "headset_mike"} = {} => Ticking(g, v)
               /\ Carried(h, u) => Carried(g, v)
<1>1. ASSUME NEW g, NEW v, g = play(h), v = u \cup {"speakers"}
      PROVE  /\ Quiet(h, u) => Quiet(g, v)
             /\ Still(h, u) => Still(g, v)
             /\ Ticking(h, u) => Ticking(g, v)
             /\ Loaded(h, \h02) /\ Loaded(h, \h03) /\ Carried(h, u) => Carried(g, v)
             /\ Recorded(h, u, \h22) => Recorded(g, v, \h22)
             /\ Recorded(h, u, \h1a) => Recorded(g, v, \h1a)
  <2>1. Writes(g, h, {\h02, \h03}, {}, SpeakerBit, h.chip)
    BY <1>1, SoundWrites
  <2>2. /\ Loaded(h, \h02) => g.hw[\h02] = Params(h, \h02, 2, 0)
        /\ Loaded(h, \h03) => g.hw[\h03] = Params(h, \h03, 2, Rear(h))
    BY <1>1, PlaySets DEF Rear
  <2>3. Quiet(h, u) => Quiet(g, v)
    BY <1>1, <2>1, FieldsWritten DEF Quiet, SpeakerBit
  <2>4. Still(h, u) => Still(g, v)
    BY <1>1, <2>1, FieldsWritten DEF Still
  <2>5. Ticking(h, u) => Ticking(g, v)
    BY <1>1, <2>1, FieldsWritten DEF Ticking, SpeakerBit
  <2>6. Loaded(h, \h02) /\ Loaded(h, \h03) /\ Carried(h, u) => Carried(g, v)
    BY <1>1, <2>1, <2>2, FieldsWritten DEF Carried
  <2>7. /\ Recorded(h, u, \h22) => Recorded(g, v, \h22)
        /\ Recorded(h, u, \h1a) => Recorded(g, v, \h1a)
    BY <1>1, <2>1, FieldsWritten DEF Recorded, SpeakerBit
  <2> QED BY <2>3, <2>4, <2>5, <2>6, <2>7
<1>2. ASSUME NEW g, NEW v, g = amps_disable_streaming(h), v = u \ {"speakers"}
      PROVE  /\ Quiet(h, u) => Quiet(g, v)
             /\ Still(h, u) => Still(g, v)
             /\ v \cap {"headphones", "headset_mike"} = {} => Ticking(g, v)
             /\ Carried(h, u) => Carried(g, v)
  <2>1. Writes(g, h, {\h02, \h03}, SpeakerBit \cup {"src_headset", "clock_headset"}, {}, h.chip)
    BY <1>2, SoundWrites
  <2>2. g.hw[\h02].tag = 0 /\ g.hw[\h03].tag = 0
    BY <1>2, AmpsOffSets DEF Silent
  <2>3. Quiet(h, u) => Quiet(g, v)
    BY <1>2, <2>1, <2>2, FieldsWritten DEF Quiet, SpeakerBit
  <2>4. Still(h, u) => Still(g, v)
    BY <1>2, <2>1, FieldsWritten DEF Still
  <2>5. v \cap {"headphones", "headset_mike"} = {} => Ticking(g, v)
    BY <1>2 DEF Ticking
  <2>6. Carried(h, u) => Carried(g, v)
    BY <1>2, <2>1, FieldsWritten DEF Carried
  <2> QED BY <2>3, <2>4, <2>5, <2>6
<1> QED BY <1>1, <1>2

\* The output of the headset.
LEMMA OutputTurned ==
  ASSUME NEW h, NEW g, NEW u
  PROVE  /\ OutputOn(g, h) =>
              LET v == u \cup {"headphones"}
              IN /\ Quiet(h, u) => Quiet(g, v)
                 /\ Still(h, u) => Still(g, v)
                 /\ Ticking(h, u) => Ticking(g, v)
                 /\ Loaded(h, \h0a) /\ Carried(h, u) => Carried(g, v)
                 /\ Recorded(h, u, \h22) => Recorded(g, v, \h22)
                 /\ Recorded(h, u, \h1a) => Recorded(g, v, \h1a)
         /\ OutputOff(g, h) \/ OutputUnplugged(g, h) =>
              LET v == u \ {"headphones"}
              IN /\ Quiet(h, u) => Quiet(g, v)
                 /\ Still(h, u) => Still(g, v)
                 /\ v \cap {"speakers", "headset_mike"} = {} => Ticking(g, v)
                 /\ Carried(h, u) => Carried(g, v)
<1>1. ASSUME OutputOn(g, h), NEW v, v = u \cup {"headphones"}
      PROVE  /\ Quiet(h, u) => Quiet(g, v)
             /\ Still(h, u) => Still(g, v)
             /\ Ticking(h, u) => Ticking(g, v)
             /\ Loaded(h, \h0a) /\ Carried(h, u) => Carried(g, v)
             /\ Recorded(h, u, \h22) => Recorded(g, v, \h22)
             /\ Recorded(h, u, \h1a) => Recorded(g, v, \h1a)
  <2>1. PICK c : /\ Writes(g, h, {\h0a}, {}, HeadsetBit \cup {"afg"}, c)
                 /\ c.down = h.chip.down \ OutputBlock /\ c.pll /\ c.oscillator
    BY <1>1 DEF OutputOn
  <2>2. Loaded(h, \h0a) => g.hw[\h0a] = Params(h, \h0a, 2, 0)
    BY <1>1 DEF OutputOn
  <2>3. Quiet(h, u) => Quiet(g, v)
    <3>1. ASSUME Quiet(h, u), "speakers" \notin v
          PROVE  /\ g.hw[\h02].tag = 0 /\ g.hw[\h03].tag = 0
                 /\ g.bits \cap {"slots12", "slots34", "amps12", "amps34", "clock_amps"} = {}
      BY <1>1, <2>1, <3>1, FieldsWritten DEF Quiet, HeadsetBit
    <3>2. g.chip = c /\ "headphones" \in v
      BY <1>1, <2>1, FieldsWritten
    <3>3. c.pll = c.oscillator
      <4>1. c.pll \in BOOLEAN /\ c.oscillator \in BOOLEAN
        BY <2>1 DEF Writes, Leaves, Hardware, Chip
      <4> QED BY <2>1, <4>1
    <3> QED BY <3>1, <3>2, <3>3 DEF Quiet
  <2>4. Still(h, u) => Still(g, v)
    BY <1>1, <2>1, FieldsWritten DEF Still, InputBlock, OutputBlock
  <2>5. Ticking(h, u) => Ticking(g, v)
    BY <1>1, <2>1, FieldsWritten DEF Ticking, HeadsetBit
  <2>6. Loaded(h, \h0a) /\ Carried(h, u) => Carried(g, v)
    BY <1>1, <2>1, <2>2, FieldsWritten DEF Carried
  <2>7. /\ Recorded(h, u, \h22) => Recorded(g, v, \h22)
        /\ Recorded(h, u, \h1a) => Recorded(g, v, \h1a)
    BY <1>1, <2>1, FieldsWritten DEF Recorded, HeadsetBit
  <2> QED BY <2>3, <2>4, <2>5, <2>6, <2>7
<1>2. ASSUME NEW off, NEW enabled, NEW c, Writes(g, h, {\h0a}, off, enabled, c),
             {"slots_out", "clock_amps"} \subseteq off,
             enabled \subseteq {"clock_headset", "gate", "afg"},
             c.down = h.chip.down \cup OutputBlock, ~c.buffers,
             h.chip.pll = h.chip.oscillator => c.pll = c.oscillator,
             g.hw[\h0a] = Silent, NEW v, v = u \ {"headphones"}
      PROVE  /\ Quiet(h, u) => Quiet(g, v)
             /\ Still(h, u) => Still(g, v)
             /\ v \cap {"speakers", "headset_mike"} = {} => Ticking(g, v)
             /\ Carried(h, u) => Carried(g, v)
  <2>1. g.hw[\h0a].tag = 0
    BY <1>2 DEF Silent
  <2>2. Quiet(h, u) => Quiet(g, v)
    BY <1>2, <2>1, FieldsWritten DEF Quiet
  <2>3. Still(h, u) => Still(g, v)
    BY <1>2, FieldsWritten DEF Still
  <2>4. v \cap {"speakers", "headset_mike"} = {} => Ticking(g, v)
    BY <1>2 DEF Ticking
  <2>5. Carried(h, u) => Carried(g, v)
    BY <1>2, FieldsWritten DEF Carried
  <2> QED BY <2>2, <2>3, <2>4, <2>5
<1>3. ASSUME OutputOff(g, h)
      PROVE  \E off, enabled, c :
               /\ Writes(g, h, {\h0a}, off, enabled, c)
               /\ {"slots_out", "clock_amps"} \subseteq off
               /\ enabled \subseteq {"clock_headset", "gate", "afg"}
               /\ c.down = h.chip.down \cup OutputBlock /\ ~c.buffers
               /\ h.chip.pll = h.chip.oscillator => c.pll = c.oscillator
  <2> DEFINE off == {"slots_out", "pin2c", "clock_amps", "pads_headset",
                     "src_headset", "clock_headset", "gate"}
  <2>1. PICK c : /\ Writes(g, h, {\h0a}, off, {"afg"}, c)
                 /\ c.down = h.chip.down \cup OutputBlock /\ ~c.pll /\ ~c.oscillator /\ ~c.buffers
    BY <1>3 DEF OutputOff
  <2>2. c.pll = c.oscillator
    <3>1. c.pll \in BOOLEAN /\ c.oscillator \in BOOLEAN
      BY <2>1 DEF Writes, Leaves, Hardware, Chip
    <3> QED BY <2>1, <3>1
  <2>3. {"slots_out", "clock_amps"} \subseteq off /\ {"afg"} \subseteq {"clock_headset", "gate", "afg"}
    OBVIOUS
  <2> HIDE DEF off
  <2> QED BY <2>1, <2>2, <2>3
<1>4. OutputOff(g, h) \/ OutputUnplugged(g, h) => g.hw[\h0a] = Silent
  BY DEF OutputOff, OutputUnplugged
<1>5. ASSUME OutputUnplugged(g, h)
      PROVE  \E off, enabled, c :
               /\ Writes(g, h, {\h0a}, off, enabled, c)
               /\ {"slots_out", "clock_amps"} \subseteq off
               /\ enabled \subseteq {"clock_headset", "gate", "afg"}
               /\ c.down = h.chip.down \cup OutputBlock /\ ~c.buffers
               /\ h.chip.pll = h.chip.oscillator => c.pll = c.oscillator
  BY <1>5, Zenon DEF OutputUnplugged
<1>6. ASSUME OutputOff(g, h) \/ OutputUnplugged(g, h), NEW v, v = u \ {"headphones"}
      PROVE  /\ Quiet(h, u) => Quiet(g, v)
             /\ Still(h, u) => Still(g, v)
             /\ v \cap {"speakers", "headset_mike"} = {} => Ticking(g, v)
             /\ Carried(h, u) => Carried(g, v)
  <2>1. PICK off, enabled, c :
          /\ Writes(g, h, {\h0a}, off, enabled, c)
          /\ {"slots_out", "clock_amps"} \subseteq off
          /\ enabled \subseteq {"clock_headset", "gate", "afg"}
          /\ c.down = h.chip.down \cup OutputBlock /\ ~c.buffers
          /\ h.chip.pll = h.chip.oscillator => c.pll = c.oscillator
    BY <1>3, <1>5, <1>6
  <2> QED BY <1>2, <1>4, <1>6, <2>1
<1> QED BY <1>1, <1>6

\* Its input.
LEMMA InputTurned ==
  ASSUME NEW h, NEW g, NEW u
  PROVE  /\ InputOn(g, h) =>
              LET v == u \cup {"headset_mike"}
              IN /\ Quiet(h, u) => Quiet(g, v)
                 /\ Still(g, v)
                 /\ Ticking(h, u) /\ "speakers" \notin u => Ticking(g, v)
                 /\ Carried(h, u) => Carried(g, v)
                 /\ Loaded(h, \h1a) => Recorded(g, v, \h1a)
                 /\ Recorded(h, u, \h22) => Recorded(g, v, \h22)
         /\ InputOff(g, h) =>
              LET v == u \ {"headset_mike"}
              IN /\ Quiet(h, u) => Quiet(g, v)
                 /\ Still(g, v)
                 /\ Ticking(h, u) => Ticking(g, v)
                 /\ Carried(h, u) => Carried(g, v)
         /\ InputUnplugged(g, h) =>
              /\ Quiet(h, u) => Quiet(g, u)
              /\ Still(h, u) => Still(g, u)
              /\ Ticking(h, u) /\ "headphones" \notin u => Ticking(g, u)
              /\ Carried(h, u) => Carried(g, u)
<1>1. ASSUME InputOn(g, h), NEW v, v = u \cup {"headset_mike"}
      PROVE  /\ Quiet(h, u) => Quiet(g, v)
             /\ Still(g, v)
             /\ Ticking(h, u) /\ "speakers" \notin u => Ticking(g, v)
             /\ Carried(h, u) => Carried(g, v)
             /\ Loaded(h, \h1a) => Recorded(g, v, \h1a)
             /\ Recorded(h, u, \h22) => Recorded(g, v, \h22)
  <2> DEFINE e == {"slots_in", "clock_headset", "gate", "pin3c", "afg"}
  <2>1. PICK c : Writes(g, h, {\h1a}, {"clock_amps"}, e, c)
                 /\ Powers(c, h.chip, h.chip.down \ InputBlock)
    BY <1>1 DEF InputOn
  <2>2. /\ Loaded(h, \h1a) => g.hw[\h1a] = Params(h, \h1a, 2, 0)
        /\ "afg" \in g.bits
    BY <1>1 DEF InputOn
  <2>3. Quiet(h, u) => Quiet(g, v)
    BY <1>1, <2>1, FieldsWritten DEF Quiet, Powers, OutputBlock, InputBlock
  <2>4. Still(g, v)
    BY <1>1 DEF Still
  <2>5. Ticking(h, u) /\ "speakers" \notin u => Ticking(g, v)
    BY <1>1, <2>1, FieldsWritten DEF Ticking
  <2>6. Carried(h, u) => Carried(g, v)
    BY <1>1, <2>1, FieldsWritten DEF Carried
  <2>7. /\ Loaded(h, \h1a) => Recorded(g, v, \h1a)
        /\ Recorded(h, u, \h22) => Recorded(g, v, \h22)
    BY <1>1, <2>1, <2>2, FieldsWritten DEF Recorded
  <2> QED BY <2>3, <2>4, <2>5, <2>6, <2>7
<1>2. ASSUME InputOff(g, h), NEW v, v = u \ {"headset_mike"}
      PROVE  /\ Quiet(h, u) => Quiet(g, v)
             /\ Still(g, v)
             /\ Ticking(h, u) => Ticking(g, v)
             /\ Carried(h, u) => Carried(g, v)
  <2>1. PICK c : Writes(g, h, {\h1a}, {"slots_in", "pin3c"}, {"gate", "afg"}, c)
                 /\ Powers(c, h.chip, h.chip.down \cup InputBlock)
    BY <1>2 DEF InputOff
  <2>2. Quiet(h, u) => Quiet(g, v)
    BY <1>2, <2>1, FieldsWritten DEF Quiet, Powers
  <2>3. Still(g, v)
    BY <1>2, <2>1, FieldsWritten DEF Still, Powers
  <2>4. Ticking(h, u) => Ticking(g, v)
    BY <1>2, <2>1, FieldsWritten DEF Ticking
  <2>5. Carried(h, u) => Carried(g, v)
    BY <1>2, <2>1, FieldsWritten DEF Carried
  <2> QED BY <2>2, <2>3, <2>4, <2>5
<1>3. ASSUME InputUnplugged(g, h)
      PROVE  /\ Quiet(h, u) => Quiet(g, u)
             /\ Still(h, u) => Still(g, u)
             /\ Ticking(h, u) /\ "headphones" \notin u => Ticking(g, u)
             /\ Carried(h, u) => Carried(g, u)
  <2>1. PICK c : /\ Writes(g, h, {\h1a, \h22}, {"slots_in", "pin3c", "pads_headset", "src_headset"},
                           {"gate", "afg"}, c)
                 /\ c.down = h.chip.down /\ c.buffers = h.chip.buffers /\ ~c.pll /\ ~c.oscillator
    BY <1>3 DEF InputUnplugged
  <2>2. c.pll = c.oscillator
    <3>1. c.pll \in BOOLEAN /\ c.oscillator \in BOOLEAN
      BY <2>1 DEF Writes, Leaves, Hardware, Chip
    <3> QED BY <2>1, <3>1
  <2>3. Quiet(h, u) => Quiet(g, u)
    BY <2>1, <2>2, FieldsWritten DEF Quiet
  <2>4. Still(h, u) => Still(g, u)
    BY <2>1, FieldsWritten DEF Still
  <2>5. Ticking(h, u) /\ "headphones" \notin u => Ticking(g, u)
    BY <2>1, FieldsWritten DEF Ticking
  <2>6. Carried(h, u) => Carried(g, u)
    BY <2>1, FieldsWritten DEF Carried
  <2> QED BY <2>3, <2>4, <2>5, <2>6
<1> QED BY <1>1, <1>2, <1>3

\* The internal inputs, an access to the chip, and the stores spare the outputs.
LEMMA OthersSpare ==
  ASSUME NEW h \in Hardware, NEW g
  PROVE  /\ Spares(h, h)
         /\ Writes(g, h, {\h22}, {}, {}, h.chip) => Spares(g, h)
         /\ \A c \in Chip : SameSound(h.chip, c) => Spares(OnChip(h, c), h)
         /\ Spares(Put(h, {}, {"afg"}), h) /\ Spares(Put(h, {"afg"}, {}), h)
         /\ \A n \in {\h22, \h1a} : Leaves(g, h, {n}) /\ g.bits = h.bits /\ g.chip = h.chip
                                      => Spares(g, h)
<1>1. h.chip \in Chip /\ SameSound(h.chip, h.chip)
  BY HardwareHas DEF SameSound, Chip
<1>2. ASSUME NEW f, NEW ns, NEW enabled, NEW c, Writes(f, h, ns, {}, enabled, c),
             ns \cap {\h02, \h03, \h0a} = {}, enabled \subseteq {"afg"}, SameSound(h.chip, c)
      PROVE  Spares(f, h)
  BY <1>2, FieldsWritten DEF Spares
<1>3. Writes(g, h, {\h22}, {}, {}, h.chip) => Spares(g, h)
  <2>1. {\h22} \cap {\h02, \h03, \h0a} = {} /\ {} \subseteq {"afg"}
    OBVIOUS
  <2> QED BY <1>1, <1>2, <2>1
<1>4. Writes(h, h, {}, {}, {}, h.chip)
  BY DEF Writes, Leaves
<1>5. ASSUME NEW c \in Chip, SameSound(h.chip, c)
      PROVE  Spares(OnChip(h, c), h)
  <2>1. Writes(OnChip(h, c), h, {}, {}, {} \cup {"afg"}, c)
    BY <1>4, ChipWrites
  <2>2. {} \cap {\h02, \h03, \h0a} = {} /\ {} \cup {"afg"} \subseteq {"afg"}
    OBVIOUS
  <2> QED BY <1>2, <1>5, <2>1, <2>2
<1>6. ASSUME NEW off, NEW enabled \in SUBSET Bit, off \cup enabled \subseteq {"afg"}
      PROVE  Spares(Put(h, off, enabled), h)
  <2> DEFINE f == Put(h, off, enabled)
  <2>1. Same(f, h)
    BY VerbsLeave
  <2>2. f.bits = (h.bits \ off) \cup enabled /\ f.chip = h.chip
    BY HardwareHas, VerbsWire, VerbsSpare DEF HasBits, HasChip
  <2> HIDE DEF f
  <2>3. Spares(f, h)
    BY <1>1, <1>6, <2>1, <2>2 DEF Spares, Same, Leaves, Params, Rear
  <2> QED BY <2>3 DEF f
<1>7. Spares(Put(h, {}, {"afg"}), h) /\ Spares(Put(h, {"afg"}, {}), h)
  <2>1. {"afg"} \in SUBSET Bit /\ {} \in SUBSET Bit
    BY DEF Bit
  <2> QED BY <1>6, <2>1
<1>8. ASSUME NEW n \in {\h22, \h1a}, Leaves(g, h, {n}), g.bits = h.bits, g.chip = h.chip
      PROVE  Spares(g, h)
  <2>1. \A m \in {\h02, \h03, \h0a} : m \in Nid \ {n}
    BY DEF Nid
  <2> QED BY <1>1, <1>8, <2>1 DEF Spares, Leaves, Params, Rear
<1>9. Spares(h, h)
  BY <1>1 DEF Spares
<1> QED BY <1>3, <1>5, <1>7, <1>8, <1>9

-----------------------------------------------------------------------------
(* The streams' invariant, and the jack events.                            *)

\* What is off is quiet, whatever overlaps; the microphone of the headset is not
\* powered either while the plug is at rest under a capture.
Dark == Quiet(path, on) /\ (Orderly => Still(path, on))

\* What is on has its clock, while the plug and the operations take turns.
Clocked == Orderly /\ ~starved => Ticking(path, on)

\* A playback, from its set-up on.
Playing ==
  \/ active["playback"]
  \/ op = "prepare" /\ stream = "playback" /\ (SetUp \/ pc = "mark_output")

\* A playback has its stream, unless it was prepared with another format meanwhile.
OutputCarried == Orderly /\ ~reprepared /\ ~joined /\ Playing => Carried(path, on)

\* A capture, from its set-up on.
Recording == Capturing \/ (op = "prepare" /\ pc = "mark_input")

\* A capture has its stream.
InputCarried == Orderly /\ ~starved /\ Recording => Recorded(path, on, device)

\* The first prepare of a capture finds its flag set.
Fresh ==
  Orderly /\ pc \in {"headset", "output", "mark_output", "input"}
          /\ op = "prepare" /\ stream = "capture"
    => setup_needed["capture"]

\* What is stored for a playback can be sent to its converters.
LEMMA StoredLoads ==
  ASSUME StoredPlayback, NEW h, h.papl = path.papl, NEW n \in {\h02, \h03, \h0a}
  PROVE  Loaded(h, n)
<1>1. PICK f \in Format : path.papl[n] = [tag |-> 1, ch |-> 0, fmt |-> f]
  BY DEF StoredPlayback
<1>2. f # 0
  BY DEF Format
<1> QED BY <1>1, <1>2 DEF Loaded

\* No capture is open during a jack event, and no microphone is on.
LEMMA EventFindsNoInput ==
  ASSUME UnitsInv, Orderly, Busy
  PROVE  /\ "headset_mike" \notin on /\ "internal_mike" \notin on
         /\ ~(init_count["capture"] > 0)
<1>1. ~(init_count["capture"] > 0)
  BY DEF UnitsInv, InputsOwned
<1>2. pc = "idle"
  BY DEF UnitsInv, Inv, Apart, Alone, Orderly
<1>3. "headset_mike" \notin on
  BY <1>1, <1>2 DEF UnitsInv, InputsOwned, Inv, MikeKept, MikeOn, Alone, Orderly
<1> QED BY <1>1, <1>3 DEF UnitsInv, InputsOwned

\* The outputs that a jack event finds on.
LEMMA EventFindsOutput ==
  ASSUME UnitsInv, Orderly, Busy
  PROVE  /\ pc = "idle"
         /\ event = "amps" => "headphones" \notin on
         /\ event = "headset_off" => "speakers" \notin on
         /\ event = "amps_on" => "headphones" \notin on
<1>0. pc = "idle" /\ ~SetUp /\ OutputIs(Output)
  BY DEF UnitsInv, Inv, Apart, Alone, Orderly, OutputKept, SetUp
<1>1. TypeOK /\ Single /\ Known
  BY DEF UnitsInv, Inv
<1>2. ASSUME event = "amps" PROVE "headphones" \notin on
  <2>1. Output = IF active["playback"] THEN {"speakers"} ELSE {}
    BY <1>0, <1>2 DEF Output, Plugging
  <2> QED BY <1>0, <2>1 DEF OutputIs
<1>3. ASSUME event = "headset_off" \/ event = "amps_on"
      PROVE  headset = "none" /\ cause = "none"
  BY <1>1, <1>3 DEF Known, Single, Unplugging
<1>4. ASSUME event = "headset_off" PROVE "speakers" \notin on
  <2>1. Output = IF active["playback"] \/ ~setup_needed["playback"] THEN HeadphonesOn ELSE {}
    BY <1>0, <1>3, <1>4 DEF Output, Plugging
  <2> QED BY <1>0, <2>1 DEF OutputIs, HeadphonesOn
<1>5. ASSUME event = "amps_on" PROVE "headphones" \notin on
  <2>1. Output = IF active["playback"] /\ have_mike THEN {"clock"} ELSE {}
    BY <1>0, <1>3, <1>5 DEF Output, Plugging
  <2> QED BY <1>0, <2>1 DEF OutputIs
<1> QED BY <1>0, <1>2, <1>4, <1>5

\* The registers carry the streams.
Sounding == Dark /\ Clocked /\ OutputCarried /\ InputCarried

\* A jack event leaves the operations alone.
LEMMA EventFrame ==
  ASSUME UnitsInv, EventStep
  PROVE  /\ Busy
         /\ UNCHANGED <<active, init_count, call, hist>>
         /\ Orderly' <=> Orderly
         /\ Playing' <=> Playing
         /\ Recording' <=> Recording
<1>1. Busy
  BY DEF EventStep, Busy, PluginHandleDetect, PluginCompleteDetect, TypeDetectEvent,
         ButtonDetectEvent, PluginWhilePlaying, PluginInputs, UnplugEvent, UnplugHeadsetOff,
         UnplugAmpsOn, UnplugReset, At, Return
<1>2. UNCHANGED <<active, init_count, call, hist>>
  BY DEF EventStep, PluginHandleDetect, PluginCompleteDetect, TypeDetectEvent,
         ButtonDetectEvent, PluginWhilePlaying, PluginInputs, UnplugEvent, UnplugHeadsetOff,
         UnplugAmpsOn, UnplugReset, flags
<1> QED BY <1>1, <1>2 DEF Orderly, Playing, Recording, Capturing, SetUp, call, hist

\* A jack event moves a playback from one output to the other.
LEMMA SoundingByEvent ==
  ASSUME UnitsInv, Typed, Remembered, Sounding, PathEventStep
  PROVE  Sounding'
<1> DEFINE A == active["playback"]
<1>0. path \in Hardware /\ path.chip \in Chip /\ SameSound(path.chip, path.chip)
  BY HardwareHas DEF Typed, SameSound, Chip
<1>1. /\ Busy
      /\ UNCHANGED <<active, init_count, call, hist>>
      /\ Orderly' <=> Orderly
      /\ Playing' <=> Playing
      /\ Recording' <=> Recording
  <2>1. EventStep
    BY DEF PathEventStep, EventStep, Plugged, PathPluginHandleDetect, PathPluginCompleteDetect,
           PathTypeDetectEvent, PathButtonDetectEvent, PathPluginWhilePlaying, PathPluginInputs,
           PathUnplugEvent, PathUnplugHeadsetOff, PathUnplugAmpsOn
  <2> QED BY <2>1, EventFrame
<1>2. UNCHANGED <<device, reprepared, joined, starved>>
  BY <1>1
  DEF PathEventStep, Plugged, PathPluginHandleDetect, PathPluginCompleteDetect,
      PathTypeDetectEvent, PathButtonDetectEvent, PathPluginWhilePlaying, PathPluginInputs,
      PathUnplugEvent, PathUnplugHeadsetOff, PathUnplugAmpsOn, Registers, hist
<1>4. Orderly => "headset_mike" \notin on /\ ~Recording
  BY <1>1, EventFindsNoInput, EventFindsOutput DEF Recording, Capturing
<1>5. A => StoredPlayback
  BY DEF Remembered
<1>6. ASSUME Quiet(path, on) => Quiet(path', on'),
             Orderly /\ Still(path, on) => Still(path', on'),
             Orderly /\ Ticking(path, on) => Ticking(path', on'),
             Carried(path, on) => Carried(path', on')
      PROVE  Sounding'
  <2>1. Dark'
    BY <1>1, <1>6 DEF Sounding, Dark
  <2>2. Clocked'
    BY <1>1, <1>2, <1>6 DEF Sounding, Clocked
  <2>3. OutputCarried'
    BY <1>1, <1>2, <1>6 DEF Sounding, OutputCarried
  <2>4. InputCarried'
    BY <1>1, <1>4 DEF InputCarried
  <2> QED BY <2>1, <2>2, <2>3, <2>4 DEF Sounding
<1>7. ASSUME NEW c \in Chip, SameSound(path.chip, c), path' = OnChip(path, c), on' = on
      PROVE  Sounding'
  <2>1. Spares(path', path)
    BY <1>0, <1>7, OthersSpare
  <2> QED BY <1>6, <1>7, <2>1, SparedKept
<1>8. CASE PathPluginHandleDetect \/ PathPluginCompleteDetect \/ PathButtonDetectEvent
  BY <1>8, <1>0, <1>7, EventsKeepSound, EventTypes
  DEF Plugged, Registers, PathPluginHandleDetect, PathPluginCompleteDetect, PathButtonDetectEvent,
      PluginHandleDetect, PluginCompleteDetect, ButtonDetectEvent
<1>9. CASE PathTypeDetectEvent
  BY <1>9, <1>0, <1>7, EventsKeepSound, EventTypes
  DEF Plugged, Registers, PathTypeDetectEvent, TypeDetectEvent
<1>10. CASE PathPluginWhilePlaying
  <2> DEFINE h == amps_disable_streaming(path)
             g == enable_headset_streaming(h)
             u == on \ {"speakers"}
             v == u \cup {"headphones"}
  <2>0. /\ path' = IF A THEN g ELSE path
        /\ on' = IF A THEN u \cup HeadphonesOn ELSE on
        /\ event = "amps"
    BY <1>10 DEF PathPluginWhilePlaying, PluginWhilePlaying, Registers, At
  <2>1. Kin(h, path)
    BY <1>0, FunctionsKin DEF Kin
  <2>2. /\ Quiet(path, on) => Quiet(h, u)
        /\ Still(path, on) => Still(h, u)
        /\ u \cap {"headphones", "headset_mike"} = {} => Ticking(h, u)
        /\ Carried(path, on) => Carried(h, u)
    BY <1>0, SpeakersTurned
  <2>3. A => Loaded(h, \h0a)
    BY <1>5, <2>1, StoredLoads DEF Kin
  <2>4. OutputOn(g, h)
    BY <2>1, OutputWrites DEF Kin
  <2> HIDE DEF h
  <2> HIDE DEF g
  <2>5. /\ Quiet(h, u) => Quiet(g, v)
        /\ Still(h, u) => Still(g, v)
        /\ Ticking(h, u) => Ticking(g, v)
        /\ Loaded(h, \h0a) /\ Carried(h, u) => Carried(g, v)
    BY <2>4, OutputTurned
  <2>6. Orderly => u \cap {"headphones", "headset_mike"} = {}
    BY <1>1, <1>4, <2>0, EventFindsOutput
  <2>7. \A x \in {"speakers", "headphones", "headset_mike"} : x \in v <=> x \in u \cup HeadphonesOn
    BY DEF HeadphonesOn
  <2>8. CASE A
    <3>1. /\ Quiet(g, v) => Quiet(g, on')
          /\ Still(g, v) => Still(g, on')
          /\ Ticking(g, v) => Ticking(g, on')
          /\ Carried(g, v) => Carried(g, on')
      <4>1. \A x \in {"speakers", "headphones", "headset_mike"} : x \in v <=> x \in on'
        BY <2>0, <2>7, <2>8
      <4> HIDE DEF v
      <4> QED BY <4>1, UnitsMatter
    <3> QED BY <1>6, <2>0, <2>2, <2>3, <2>5, <2>6, <2>8, <3>1
  <2>9. CASE ~A
    BY <1>6, <2>0, <2>9
  <2> QED BY <2>8, <2>9
<1>11. CASE PathPluginInputs
  <2> DEFINE h1 == inputs_power_nids_off(path)
             h2 == intmike_linein_disable(h1)
             c  == headset_mike_buttons_enable(h2.chip)
             h3 == OnChip(h2, c)
  <2>0. path' = (IF have_mike THEN h3 ELSE h1) /\ on' = on \ {"internal_mike"}
    BY <1>11 DEF PathPluginInputs, PluginInputs, Registers
  <2>1. Writes(h1, path, {\h22}, {}, {}, path.chip)
    BY <1>0, SoundWrites
  <2> HIDE DEF h1
  <2>2. h1 \in Hardware /\ Spares(h1, path)
    BY <1>0, <2>1, OthersSpare DEF Writes, Leaves
  <2>3. Writes(h2, h1, {\h22}, {}, {}, h1.chip)
    BY <2>2, SoundWrites
  <2> HIDE DEF h2
  <2>4. h2 \in Hardware /\ Spares(h2, h1)
    BY <2>2, <2>3, OthersSpare DEF Writes, Leaves
  <2>5. c \in Chip /\ SameSound(h2.chip, c)
    <3>1. h2.chip \in Chip /\ SameSound(h2.chip, h2.chip)
      BY <2>4, HardwareHas DEF SameSound, Chip
    <3> QED BY <3>1, EventTypes, EventsKeepSound
  <2> HIDE DEF c
  <2>6. Spares(h3, h2)
    BY <2>4, <2>5, OthersSpare
  <2> HIDE DEF h3
  <2>7. /\ Quiet(path, on) => Quiet(path', on)
        /\ Still(path, on) => Still(path', on)
        /\ Ticking(path, on) => Ticking(path', on)
        /\ Carried(path, on) => Carried(path', on)
    <3>1. /\ Quiet(path, on) => Quiet(h1, on)
          /\ Still(path, on) => Still(h1, on)
          /\ Ticking(path, on) => Ticking(h1, on)
          /\ Carried(path, on) => Carried(h1, on)
      BY <2>2, SparedKept
    <3>2. /\ Quiet(h1, on) => Quiet(h2, on)
          /\ Still(h1, on) => Still(h2, on)
          /\ Ticking(h1, on) => Ticking(h2, on)
          /\ Carried(h1, on) => Carried(h2, on)
      BY <2>4, SparedKept
    <3>3. /\ Quiet(h2, on) => Quiet(h3, on)
          /\ Still(h2, on) => Still(h3, on)
          /\ Ticking(h2, on) => Ticking(h3, on)
          /\ Carried(h2, on) => Carried(h3, on)
      BY <2>6, SparedKept
    <3> QED BY <2>0, <3>1, <3>2, <3>3
  <2>8. /\ Quiet(path', on) => Quiet(path', on')
        /\ Still(path', on) => Still(path', on')
        /\ Ticking(path', on) => Ticking(path', on')
        /\ Carried(path', on) => Carried(path', on')
    <3>1. \A x \in {"speakers", "headphones", "headset_mike"} : x \in on <=> x \in on'
      BY <2>0
    <3> QED BY <3>1, UnitsMatter
  <2> QED BY <1>6, <2>7, <2>8
<1>12. CASE PathUnplugEvent
  BY <1>12, <1>0, <1>7, EventsKeepSound, EventTypes
  DEF Plugged, Registers, PathUnplugEvent, UnplugEvent
<1>13. CASE PathUnplugHeadsetOff
  <2> DEFINE g == unplug_headset_output(path, have_mike)
             u == on \ {"headphones"}
  <2>0. /\ path' = IF A THEN g ELSE path
        /\ on' = IF ~A THEN on ELSE IF have_mike THEN u ELSE on \ HeadphonesOn
        /\ event = "headset_off"
    BY <1>13 DEF PathUnplugHeadsetOff, UnplugHeadsetOff, Registers, At
  <2>1. OutputUnplugged(g, path)
    BY <1>0, UnplugWrites
  <2> HIDE DEF g
  <2>2. /\ Quiet(path, on) => Quiet(g, u)
        /\ Still(path, on) => Still(g, u)
        /\ u \cap {"speakers", "headset_mike"} = {} => Ticking(g, u)
        /\ Carried(path, on) => Carried(g, u)
    BY <2>1, OutputTurned
  <2>3. Orderly => u \cap {"speakers", "headset_mike"} = {}
    BY <1>1, <1>4, <2>0, EventFindsOutput
  <2>4. CASE A
    <3>1. \A x \in {"speakers", "headphones", "headset_mike"} : x \in on' <=> x \in u
      BY <2>0, <2>4 DEF HeadphonesOn
    <3>2. /\ Quiet(g, u) => Quiet(g, on')
          /\ Still(g, u) => Still(g, on')
          /\ Ticking(g, u) => Ticking(g, on')
          /\ Carried(g, u) => Carried(g, on')
      <4> HIDE DEF u
      <4> QED BY <3>1, UnitsMatter
    <3> QED BY <1>6, <2>0, <2>2, <2>3, <2>4, <3>2
  <2>5. CASE ~A
    BY <1>6, <2>0, <2>5
  <2> QED BY <2>4, <2>5
<1>14. CASE PathUnplugAmpsOn
  <2> DEFINE h1 == IF A THEN play(path) ELSE path
             i2 == unplug_headset_input(h1)
             o2 == inputs_power_nids_off(h1)
             h2 == IF have_mike THEN i2 ELSE o2
             c  == unplug_detect_end(h2.chip)
             u  == IF A THEN on \cup {"speakers"} ELSE on
  <2>0. /\ path' = OnChip(h2, c)
        /\ event = "amps_on"
        /\ \A x \in {"speakers", "headphones"} : x \in on' <=> x \in u
        /\ "headset_mike" \in on' => "headset_mike" \in u
        /\ Orderly => "headset_mike" \notin u
    BY <1>4, <1>14 DEF PathUnplugAmpsOn, UnplugAmpsOn, Registers, At
  <2>1. /\ Quiet(path, on) => Quiet(h1, u)
        /\ Still(path, on) => Still(h1, u)
        /\ Ticking(path, on) => Ticking(h1, u)
        /\ Carried(path, on) => Carried(h1, u)
        /\ h1 \in Hardware
    <3>1. CASE A
      <4>1. Loaded(path, \h02) /\ Loaded(path, \h03)
        BY <1>5, <3>1, StoredLoads
      <4>2. /\ Quiet(path, on) => Quiet(play(path), u)
            /\ Still(path, on) => Still(play(path), u)
            /\ Ticking(path, on) => Ticking(play(path), u)
            /\ Carried(path, on) => Carried(play(path), u)
        BY <1>0, <3>1, <4>1, SpeakersTurned
      <4>3. play(path) \in Hardware
        BY <1>0, PlaySets DEF Leaves
      <4> QED BY <3>1, <4>2, <4>3
    <3>2. CASE ~A
      BY <1>0, <3>2
    <3> QED BY <3>1, <3>2
  <2>2. Orderly => "headphones" \notin u
    BY <1>1, <2>0, EventFindsOutput
  <2> HIDE DEF h1
  <2>3. InputUnplugged(i2, h1) /\ Writes(o2, h1, {\h22}, {}, {}, h1.chip)
    BY <2>1, UnplugWrites, SoundWrites
  <2> HIDE DEF i2, o2
  <2>4. i2 \in Hardware /\ o2 \in Hardware /\ Spares(o2, h1)
    BY <2>1, <2>3, OthersSpare DEF InputUnplugged, Writes, Leaves
  <2>5. /\ Quiet(h1, u) => Quiet(h2, u)
        /\ Still(h1, u) => Still(h2, u)
        /\ "headphones" \notin u /\ Ticking(h1, u) => Ticking(h2, u)
        /\ Carried(h1, u) => Carried(h2, u)
        /\ h2 \in Hardware
    <3>1. /\ Quiet(h1, u) => Quiet(i2, u)
          /\ Still(h1, u) => Still(i2, u)
          /\ "headphones" \notin u /\ Ticking(h1, u) => Ticking(i2, u)
          /\ Carried(h1, u) => Carried(i2, u)
      <4> HIDE DEF u
      <4> QED BY <2>3, InputTurned
    <3>2. /\ Quiet(h1, u) => Quiet(o2, u)
          /\ Still(h1, u) => Still(o2, u)
          /\ Ticking(h1, u) => Ticking(o2, u)
          /\ Carried(h1, u) => Carried(o2, u)
      BY <2>4, SparedKept
    <3> QED BY <2>4, <3>1, <3>2
  <2> HIDE DEF h2
  <2>6. c \in Chip /\ SameSound(h2.chip, c)
    <3>1. h2.chip \in Chip /\ SameSound(h2.chip, h2.chip)
      BY <2>5, HardwareHas DEF SameSound, Chip
    <3> QED BY <3>1, EventTypes, EventsKeepSound
  <2> HIDE DEF c
  <2>7. Spares(path', h2)
    BY <2>0, <2>5, <2>6, OthersSpare
  <2> HIDE DEF u
  <2>8. /\ Quiet(h2, u) => Quiet(path', u)
        /\ Still(h2, u) => Still(path', u)
        /\ Ticking(h2, u) => Ticking(path', u)
        /\ Carried(h2, u) => Carried(path', u)
    BY <2>7, SparedKept
  <2>9. /\ Quiet(path', u) => Quiet(path', on')
        /\ Orderly /\ Still(path', u) => Still(path', on')
        /\ Ticking(path', u) => Ticking(path', on')
        /\ Carried(path', u) => Carried(path', on')
    BY <2>0, UnitsMatter
  <2> QED BY <1>6, <2>1, <2>2, <2>5, <2>8, <2>9
<1>15. CASE UnplugReset /\ Registers(path)
  BY <1>6, <1>15 DEF UnplugReset, Registers
<1> QED BY <1>8, <1>9, <1>10, <1>11, <1>12, <1>13, <1>14, <1>15 DEF PathEventStep

-----------------------------------------------------------------------------
(* The operations.                                                         *)

\* What an operation finds on that did not overlap a jack event.
LEMMA OrderlyFinds ==
  ASSUME UnitsInv, Orderly, pc \in {"output", "input", "mark_input", "real"}
  PROVE  /\ ~Busy
         /\ pc # "real" <=> headset # "none"
         /\ pc \in {"output", "input"} => "speakers" \notin on /\ headset_enable
         /\ pc = "output" /\ op = "cleanup" /\ ~starved => "headset_mike" \notin on
         /\ pc = "input" /\ op = "prepare" => stream = "capture"
         /\ pc = "mark_input" => stream = "capture"
         /\ headset # "none" => "internal_mike" \notin on
         /\ pc # "mark_input" /\ setup_needed["capture"] => "headset_mike" \notin on
         /\ headset # "mic" => "headset_mike" \notin on /\ ~have_mike
         /\ pc = "real" => "headphones" \notin on /\ "headset_mike" \notin on
<1>1. ~Busy /\ OutputIs(Output) /\ ~SetUp /\ pc # "mark_output" /\ Alone
  BY DEF UnitsInv, Inv, Apart, Alone, Orderly, OutputKept, SetUp
<1>2. cause = "none" /\ event = "none"
  BY <1>1 DEF Busy
<1>3. Known /\ Chosen /\ MikeKept /\ TypeOK
  BY DEF UnitsInv, Inv
<1>4. /\ jack_present # 0 <=> headset # "none"
      /\ have_mike <=> headset = "mic"
      /\ headset # "none" => headset_enable
  BY <1>2, <1>3 DEF Known
<1>5. /\ pc # "real" <=> headset # "none"
      /\ pc \in {"input", "mark_input"} => stream = "capture"
  BY <1>1, <1>3 DEF Chosen
<1>6. /\ headset # "none" => "internal_mike" \notin on
      /\ ~setup_needed["capture"] => init_count["capture"] > 0
      /\ pc = "output" /\ op = "cleanup" /\ stream = "capture" => setup_needed["capture"]
  BY DEF UnitsInv, InputsOwned
<1>7. /\ pc # "mark_input" /\ setup_needed["capture"] => "headset_mike" \notin on
      /\ headset # "mic" => "headset_mike" \notin on /\ ~have_mike
  BY <1>1, <1>2, <1>3, <1>4 DEF MikeKept, MikeOn
<1>8. ASSUME pc = "output", op = "cleanup", ~starved
      PROVE  "headset_mike" \notin on
  <2>1. CASE stream = "capture"
    BY <1>6, <1>7, <1>8, <2>1
  <2>2. CASE stream = "playback"
    <3>1. init_count["capture"] = 0
      BY <1>8, <2>2 DEF UnitsInv, InputKept
    <3>2. setup_needed["capture"]
      BY <1>6, <3>1
    <3> QED BY <1>7, <1>8, <3>2
  <2> QED BY <1>3, <2>1, <2>2 DEF TypeOK, Stream
<1>9. ASSUME pc \in {"output", "input"}
      PROVE  "speakers" \notin on /\ headset_enable
  <2>1. headset # "none"
    BY <1>5, <1>9
  <2>2. Output = IF active["playback"] \/ ~setup_needed["playback"] THEN HeadphonesOn ELSE {}
    BY <1>1, <1>2, <2>1 DEF Output, Plugging
  <2> QED BY <1>1, <1>4, <2>1, <2>2 DEF OutputIs, HeadphonesOn
<1>10. ASSUME pc = "real"
       PROVE  "headphones" \notin on /\ "headset_mike" \notin on
  <2>1. headset = "none"
    BY <1>5, <1>10
  <2>2. Output = IF active["playback"] THEN {"speakers"} ELSE {}
    BY <1>1, <1>2, <2>1 DEF Output
  <2> QED BY <1>1, <1>7, <2>1, <2>2 DEF OutputIs
<1> QED BY <1>1, <1>5, <1>6, <1>7, <1>8, <1>9, <1>10

\* The steps of an operation leave the histories alone, and its stream.
LEMMA PcmFrame ==
  ASSUME PcmStep
  PROVE  /\ UNCHANGED <<hist, stream, op>>
         /\ Orderly' <=> Orderly
<1>1. UNCHANGED <<hist, stream, op>>
  BY DEF PcmStep, BlockUnsol, HeadsetOutputOn, HeadsetInputOn, HeadsetInputOff, HeadsetOutputOff,
         HeadsetMark, InternalSetUp, InternalCleanUp, RealDrain, RealUnblock, HookUnblock, HookDrain,
         HookDone
<1> QED BY <1>1 DEF Orderly, hist

\* The set-up of the headset's output.
LEMMA SoundingByOutputOn ==
  ASSUME UnitsInv, Typed, Remembered, Sounding, PathHeadsetOutputOn
  PROVE  Sounding'
<1> DEFINE out == headset_enable /\ OutputNeeded
           g == enable_headset_streaming(path)
           v == on \cup {"headphones"}
<1>0. path \in Hardware /\ device \in {\h22, \h1a} /\ TypeOK /\ Counted
  BY DEF Typed, UnitsInv, Inv
<1>f. HeadsetOutputOn
  BY DEF PathHeadsetOutputOn
<1>1. /\ UNCHANGED <<hist, stream, op, starved>>
      /\ Orderly' <=> Orderly
  BY <1>f, PcmFrame DEF PcmStep, hist
<1>2. /\ pc = "output" /\ op = "prepare" /\ init_count' = init_count
      /\ active' \in {active, [active EXCEPT ![stream] = FALSE]}
      /\ pc' \in {"hook", "mark_output", "input"}
      /\ pc' = "hook" /\ stream = "capture" => ~have_mike
      /\ on' = IF out THEN on \cup HeadphonesOn ELSE on
      /\ stream \in {"playback", "capture"}
  BY <1>f, <1>0
  DEF HeadsetOutputOn, Proceed, Goto, AfterOutput, Enabled, OutputNeeded, TypeOK, Stream
<1>3. /\ path' = IF out THEN g ELSE path
      /\ joined' = IF stream = "playback" THEN ~OutputNeeded ELSE joined
      /\ UNCHANGED <<device, reprepared>>
  BY DEF PathHeadsetOutputOn
<1>4. init_count[stream] > 0
  BY <1>0, <1>2 DEF Counted
<1>5. OutputOn(g, path)
  BY <1>0, OutputWrites
<1> HIDE DEF g
<1>6. /\ Quiet(path, on) => Quiet(g, v)
      /\ Still(path, on) => Still(g, v)
      /\ Ticking(path, on) => Ticking(g, v)
      /\ Loaded(path, \h0a) /\ Carried(path, on) => Carried(g, v)
      /\ Recorded(path, on, \h22) => Recorded(g, v, \h22)
      /\ Recorded(path, on, \h1a) => Recorded(g, v, \h1a)
  BY <1>5, OutputTurned
<1>7. Loaded(path, \h0a) => Carried(g, {"headphones"})
  <2>1. LET w == {} \cup {"headphones"}
        IN Loaded(path, \h0a) /\ Carried(path, {}) => Carried(g, w)
    BY <1>5, OutputTurned
  <2>2. Carried(path, {}) /\ {} \cup {"headphones"} = {"headphones"}
    BY DEF Carried
  <2> QED BY <2>1, <2>2
<1>8. ASSUME out
      PROVE  /\ path' = g
             /\ \A x \in {"speakers", "headphones", "headset_mike", "internal_mike"} : x \in on' <=> x \in v
  BY <1>2, <1>3, <1>8 DEF HeadphonesOn
<1>9. ASSUME ~out PROVE path' = path /\ on' = on
  BY <1>2, <1>3, <1>9
<1>v. "speakers" \in v <=> "speakers" \in on
  OBVIOUS
<1> HIDE DEF v, out
<1>10. ASSUME out
       PROVE  /\ Quiet(g, v) => Quiet(path', on')
              /\ Still(g, v) => Still(path', on')
              /\ Ticking(g, v) => Ticking(path', on')
              /\ Carried(g, v) => Carried(path', on')
              /\ \A n : Recorded(g, v, n) => Recorded(path', on', n)
  BY <1>8, <1>10, UnitsMatter
<1>11. /\ Quiet(path, on) => Quiet(path', on')
       /\ Still(path, on) => Still(path', on')
       /\ Ticking(path, on) => Ticking(path', on')
       /\ Loaded(path, \h0a) /\ Carried(path, on) => Carried(path', on')
       /\ Recorded(path, on, device) => Recorded(path', on', device)
  BY <1>0, <1>6, <1>9, <1>10
<1>12. Dark'
  BY <1>1, <1>11 DEF Sounding, Dark
<1>13. Clocked'
  BY <1>1, <1>11 DEF Sounding, Clocked
<1>14. OutputCarried'
  <2> SUFFICES ASSUME Orderly', ~reprepared', ~joined', Playing'
               PROVE  Carried(path', on')
    BY DEF OutputCarried
  <2>1. Orderly /\ ~reprepared
    BY <1>1, <1>3
  <2>2. CASE stream = "playback"
    <3>1. out /\ "speakers" \notin on
      BY <1>2, <1>3, <2>1, <2>2, OrderlyFinds DEF out
    <3>2. Carried(g, {"headphones"})
      BY <1>4, <1>7, <2>2, StoredLoads DEF Remembered
    <3>3. \A x \in {"speakers", "headphones"} : x \in on' => x \in {"headphones"}
      BY <1>8, <1>v, <3>1
    <3> QED BY <1>8, <3>1, <3>2, <3>3, UnitsMatter
  <2>3. CASE stream = "capture"
    <3>1. active["playback"]
      BY <1>0, <1>1, <1>2, <2>3 DEF Playing, TypeOK, Stream
    <3>2. Loaded(path, \h0a)
      BY <3>1, StoredLoads DEF Remembered
    <3>3. Carried(path, on)
      BY <1>3, <2>1, <2>3, <3>1 DEF Sounding, OutputCarried, Playing
    <3> QED BY <1>11, <3>2, <3>3
  <2> QED BY <1>2, <2>2, <2>3
<1>15. InputCarried'
  <2> SUFFICES ASSUME Orderly', ~starved', Recording'
               PROVE  Recorded(path', on', device)
    BY <1>3 DEF InputCarried
  <2>1. Orderly /\ ~starved /\ Capturing'
    BY <1>1, <1>2 DEF Recording
  <2>2. CASE stream = "playback"
    <3>1. Capturing
      BY <1>1, <1>2, <2>1, <2>2 DEF Capturing
    <3> QED BY <1>11, <2>1, <3>1 DEF Sounding, InputCarried, Recording
  <2>3. CASE stream = "capture"
    <3>1. ~have_mike
      BY <1>1, <1>2, <2>1, <2>3 DEF Capturing, SetUp
    <3>2. "headset_mike" \notin on /\ "internal_mike" \notin on
      BY <1>2, <2>1, <3>1, OrderlyFinds DEF UnitsInv, Inv, MikeKept, MikeOn, Alone, Orderly
    <3>3. Recorded(path, on, device)
      BY <3>2 DEF Recorded
    <3> QED BY <1>11, <3>3
  <2> QED BY <1>2, <2>2, <2>3
<1> QED BY <1>12, <1>13, <1>14, <1>15 DEF Sounding

\* The set-up of its microphone.
LEMMA SoundingByInputOn ==
  ASSUME UnitsInv, Typed, Remembered, Fresh, Sounding, PathHeadsetInputOn
  PROVE  Sounding'
<1> DEFINE inp == headset_enable /\ setup_needed["capture"]
           g == enable_headset_mike_streaming(path)
           v == on \cup {"headset_mike"}
<1>0. path \in Hardware /\ device \in {\h22, \h1a} /\ TypeOK /\ Counted
  BY DEF Typed, UnitsInv, Inv
<1>f. HeadsetInputOn
  BY DEF PathHeadsetInputOn
<1>1. /\ UNCHANGED <<hist, stream, op, starved>>
      /\ Orderly' <=> Orderly
  BY <1>f, PcmFrame DEF PcmStep, hist
<1>2. /\ pc = "input" /\ op = "prepare" /\ init_count' = init_count
      /\ active' \in {active, [active EXCEPT ![stream] = FALSE]}
      /\ pc' \in {"hook", "mark_input"}
      /\ on' = IF inp THEN v ELSE on
  BY <1>f DEF HeadsetInputOn, Proceed, Goto, Enabled
<1>3. /\ path' = IF inp THEN g ELSE path
      /\ UNCHANGED <<device, reprepared, joined>>
  BY DEF PathHeadsetInputOn, Registers
<1>4. InputOn(g, path)
  BY <1>0, InputWrites
<1> HIDE DEF g
<1>5. /\ Quiet(path, on) => Quiet(g, v)
      /\ Still(g, v)
      /\ Ticking(path, on) /\ "speakers" \notin on => Ticking(g, v)
      /\ Carried(path, on) => Carried(g, v)
      /\ Loaded(path, \h1a) => Recorded(g, v, \h1a)
  BY <1>4, InputTurned
<1>v. "internal_mike" \in v <=> "internal_mike" \in on
  OBVIOUS
<1> HIDE DEF v
<1>6. /\ Quiet(path, on) => Quiet(path', on')
      /\ Still(path, on) => Still(path', on')
      /\ Ticking(path, on) /\ "speakers" \notin on => Ticking(path', on')
      /\ Carried(path, on) => Carried(path', on')
  BY <1>2, <1>3, <1>5
<1>7. Dark'
  BY <1>1, <1>6 DEF Sounding, Dark
<1>8. Clocked'
  BY <1>1, <1>2, <1>6, OrderlyFinds DEF Sounding, Clocked
<1>9. OutputCarried'
  <2>1. Orderly => stream = "capture"
    BY <1>2, OrderlyFinds
  <2>2. Orderly /\ Playing' => Playing
    BY <1>0, <1>1, <1>2, <2>1 DEF Playing, TypeOK, Stream
  <2> QED BY <1>1, <1>3, <1>6, <2>2 DEF Sounding, OutputCarried
<1>10. InputCarried'
  <2> SUFFICES ASSUME Orderly, ~starved
               PROVE  Recorded(path', on', device)
    BY <1>1, <1>3 DEF InputCarried
  <2>1. stream = "capture" /\ headset_enable /\ "internal_mike" \notin on
    BY <1>2, OrderlyFinds
  <2>2. inp
    BY <1>2, <2>1 DEF Fresh
  <2>3. init_count["capture"] > 0
    BY <1>0, <1>2, <2>1 DEF Counted
  <2>4. path' = g /\ on' = v
    BY <1>2, <1>3, <2>2
  <2>5. CASE device = \h22
    BY <1>v, <2>1, <2>4, <2>5 DEF Recorded
  <2>6. CASE device = \h1a
    <3>1. path.papl[\h1a] = [tag |-> 3, ch |-> 0, fmt |-> \h4031]
      BY <2>3, <2>6 DEF Remembered, Tag
    <3>2. Loaded(path, \h1a)
      BY <3>1 DEF Loaded
    <3> QED BY <1>5, <2>4, <2>6, <3>2
  <2> QED BY <1>0, <2>5, <2>6
<1> QED BY <1>7, <1>8, <1>9, <1>10 DEF Sounding

\* The function group is put in D0 first.
LEMMA PowerKept ==
  ASSUME NEW h \in Hardware
  PROVE  LET g == Put(h, {}, {"afg"})
         IN /\ g \in Hardware /\ g.papl = h.papl /\ g.channels = h.channels /\ "afg" \in g.bits
            /\ Spares(g, h)
            /\ \A u, n : Recorded(h, u, n) => Recorded(g, u, n)
<1> DEFINE g == Put(h, {}, {"afg"})
<1>1. Same(g, h)
  BY VerbsLeave DEF Bit
<1>2. g.bits = (h.bits \ {}) \cup {"afg"}
  BY HardwareHas, VerbsWire DEF HasBits
<1>3. Spares(g, h)
  BY OthersSpare
<1> HIDE DEF g
<1>4. \A u, n : Recorded(h, u, n) => Recorded(g, u, n)
  BY <1>1, <1>2 DEF Recorded, Same, Leaves, Params
<1>5. g \in Hardware /\ g.papl = h.papl /\ g.channels = h.channels /\ "afg" \in g.bits
  BY <1>1, <1>2 DEF Same, Leaves
<1> QED BY <1>3, <1>4, <1>5 DEF g

\* The set-up of the speakers or of the internal microphone.
LEMMA SoundingByInternalSetUp ==
  ASSUME UnitsInv, Typed, Remembered, Sounding, PathInternalSetUp
  PROVE  Sounding'
<1> DEFINE h == Put(path, {}, {"afg"})
<1>0. path \in Hardware /\ device \in {\h22, \h1a} /\ TypeOK /\ Counted
  BY DEF Typed, UnitsInv, Inv
<1>f. InternalSetUp
  BY DEF PathInternalSetUp
<1>1. /\ UNCHANGED <<hist, stream, op, starved>>
      /\ Orderly' <=> Orderly
  BY <1>f, PcmFrame DEF PcmStep, hist
<1>2. /\ pc = "real" /\ pc' = "drain" /\ op = "prepare"
      /\ init_count' = init_count /\ active' = active
      /\ stream \in {"playback", "capture"}
      /\ on' = on \cup (IF stream = "playback" THEN {"speakers"} ELSE {"internal_mike"})
  BY <1>f, <1>0 DEF InternalSetUp, Goto, TypeOK, Stream, flags
<1>3. /\ path' = IF stream = "playback" THEN play(h) ELSE capture(h)
      /\ joined' = (joined /\ stream # "playback")
      /\ UNCHANGED <<device, reprepared>>
  BY DEF PathInternalSetUp
<1>4. init_count[stream] > 0
  BY <1>0, <1>2 DEF Counted
<1>5. /\ h \in Hardware /\ h.papl = path.papl /\ h.channels = path.channels /\ "afg" \in h.bits
      /\ Spares(h, path)
      /\ \A u, n : Recorded(path, u, n) => Recorded(h, u, n)
  BY <1>0, PowerKept
<1> HIDE DEF h
<1>6. \A u : /\ Quiet(path, u) => Quiet(h, u)
             /\ Still(path, u) => Still(h, u)
             /\ Ticking(path, u) => Ticking(h, u)
             /\ Carried(path, u) => Carried(h, u)
  BY <1>5, SparedKept
<1>7. CASE stream = "playback"
  <2> DEFINE g == play(h)
             v == on \cup {"speakers"}
  <2>0. path' = g /\ on' = v
    BY <1>2, <1>3, <1>7
  <2>1. Loaded(h, \h02) /\ Loaded(h, \h03)
    BY <1>4, <1>5, <1>7, StoredLoads DEF Remembered
  <2>2. /\ Quiet(h, on) => Quiet(g, v)
        /\ Still(h, on) => Still(g, v)
        /\ Ticking(h, on) => Ticking(g, v)
        /\ Recorded(h, on, \h22) => Recorded(g, v, \h22)
        /\ Recorded(h, on, \h1a) => Recorded(g, v, \h1a)
    BY <1>5, SpeakersTurned
  <2>3. Carried(h, {}) => Carried(g, {"speakers"})
    <3> DEFINE w == {} \cup {"speakers"}
    <3>1. Carried(h, {}) => Carried(g, w)
      BY <1>5, <2>1, SpeakersTurned
    <3>2. w = {"speakers"}
      OBVIOUS
    <3> QED BY <3>1, <3>2
  <2>4. Carried(h, {})
    BY DEF Carried
  <2> HIDE DEF g
  <2>5. Dark'
    BY <1>1, <1>6, <2>0, <2>2 DEF Sounding, Dark
  <2>6. Clocked'
    BY <1>1, <1>6, <2>0, <2>2 DEF Sounding, Clocked
  <2>7. OutputCarried'
    <3>1. ASSUME Orderly PROVE Carried(g, v)
      <4>1. "headphones" \notin on
        BY <1>2, <3>1, OrderlyFinds
      <4>2. \A x \in {"speakers", "headphones"} : x \in v => x \in {"speakers"}
        BY <4>1
      <4> HIDE DEF v
      <4> QED BY <2>3, <2>4, <4>2, UnitsMatter
    <3> QED BY <1>1, <2>0, <3>1 DEF OutputCarried
  <2>8. InputCarried'
    <3>1. Recording' <=> Recording
      BY <1>1, <1>2, <1>7 DEF Recording, Capturing
    <3>2. Recorded(path, on, device) => Recorded(g, v, device)
      BY <1>0, <1>5, <2>2
    <3> QED BY <1>1, <1>3, <2>0, <3>1, <3>2 DEF Sounding, InputCarried
  <2> QED BY <2>5, <2>6, <2>7, <2>8 DEF Sounding
<1>8. CASE stream = "capture"
  <2> DEFINE g == capture(h)
             v == on \cup {"internal_mike"}
  <2>0. path' = g /\ on' = v
    BY <1>2, <1>3, <1>8
  <2>1. Writes(g, h, {\h22}, {}, {}, h.chip)
    BY <1>5, SoundWrites
  <2>2. Loaded(h, \h22) => g.hw[\h22] = Params(h, \h22, 1, 0)
    BY <1>5, CaptureSets
  <2> HIDE DEF g
  <2>3. Spares(g, h)
    BY <1>5, <2>1, OthersSpare
  <2>4. /\ Quiet(h, on) => Quiet(g, on)
        /\ Still(h, on) => Still(g, on)
        /\ Ticking(h, on) => Ticking(g, on)
        /\ Carried(h, on) => Carried(g, on)
    BY <2>3, SparedKept
  <2>5. \A x \in {"speakers", "headphones", "headset_mike"} : x \in v <=> x \in on
    OBVIOUS
  <2>6. /\ Quiet(g, on) => Quiet(g, v)
        /\ Still(g, on) => Still(g, v)
        /\ Ticking(g, on) => Ticking(g, v)
        /\ Carried(g, on) => Carried(g, v)
    <3> HIDE DEF v
    <3> QED BY <2>5, UnitsMatter
  <2>7. Dark'
    BY <1>1, <1>6, <2>0, <2>4, <2>6 DEF Sounding, Dark
  <2>8. Clocked'
    BY <1>1, <1>6, <2>0, <2>4, <2>6 DEF Sounding, Clocked
  <2>9. OutputCarried'
    <3>1. Playing' => Playing
      BY <1>1, <1>2, <1>8 DEF Playing
    <3>2. joined' <=> joined
      BY <1>3, <1>8
    <3> QED BY <1>1, <1>3, <1>6, <2>0, <2>4, <2>6, <3>1, <3>2 DEF Sounding, OutputCarried
  <2>10. InputCarried'
    <3> SUFFICES ASSUME Orderly PROVE Recorded(g, v, device)
      BY <1>1, <1>3, <2>0 DEF InputCarried
    <3>3. "headset_mike" \notin v
      BY <1>2, OrderlyFinds
    <3>4. CASE device = \h1a
      BY <3>3, <3>4 DEF Recorded
    <3>5. CASE device = \h22
      <4>1. h.papl[\h22] = [tag |-> 2, ch |-> 0, fmt |-> \h4031]
        BY <1>4, <1>5, <1>8, <3>5 DEF Remembered, Tag
      <4>2. Loaded(h, \h22) /\ Params(h, \h22, 1, 0) = Params(h, \h22, 2, 0)
        BY <4>1 DEF Loaded, Params
      <4>3. g.hw[\h22] = Params(g, \h22, 2, 0) /\ "afg" \in g.bits
        BY <1>5, <2>1, <2>2, <4>2, FieldsWritten
      <4> QED BY <3>5, <4>3 DEF Recorded
    <3> QED BY <1>0, <3>4, <3>5
  <2> QED BY <2>7, <2>8, <2>9, <2>10 DEF Sounding
<1> QED BY <1>2, <1>7, <1>8

\* What the end of an operation needs to show: the streams go on as they did.
LEMMA SoundingAtCleanUp ==
  ASSUME UnitsInv, Sounding, op = "cleanup", op' = op, stream' = stream,
         pc \in {"output", "input", "real"},
         pc' \in {"output", "mark_output", "mark_input", "hook", "drain"},
         UNCHANGED <<hist, active, init_count, device, reprepared, joined>>,
         Quiet(path, on) => Quiet(path', on'),
         Still(path, on) => Still(path', on'),
         Orderly /\ ~starved /\ Ticking(path, on) => Ticking(path', on'),
         Carried(path, on) => Carried(path', on')
  PROVE  Sounding'
<1>1. /\ Orderly' <=> Orderly
      /\ Orderly' <=> Orderly
      /\ starved' = starved
  BY DEF Orderly, hist
<1>2. Dark'
  BY <1>1 DEF Sounding, Dark
<1>3. Clocked'
  BY <1>1 DEF Sounding, Clocked
<1>4. OutputCarried'
  <2>1. Playing' => Playing
    BY DEF Playing
  <2> QED BY <1>1, <2>1 DEF Sounding, OutputCarried
<1>5. InputCarried'
  <2> SUFFICES ASSUME Orderly', ~starved', Recording' PROVE FALSE
    BY DEF InputCarried
  <2>1. stream # "capture" /\ init_count["capture"] > 0
    BY DEF Recording, Capturing
  <2>2. stream = "playback"
    BY <2>1 DEF UnitsInv, Inv, TypeOK, Stream
  <2>3. ~(init_count["capture"] = 0)
    BY <2>1
  <2> QED BY <1>1, <2>2, <2>3 DEF UnitsInv, InputKept
<1> QED BY <1>2, <1>3, <1>4, <1>5 DEF Sounding

\* The clean-up of the headset's microphone.
LEMMA SoundingByInputOff ==
  ASSUME UnitsInv, Typed, Sounding, PathHeadsetInputOff
  PROVE  Sounding'
<1> DEFINE g == disable_headset_mike_streaming(path)
           v == on \ {"headset_mike"}
<1>0. path \in Hardware
  BY DEF Typed
<1>f. HeadsetInputOff
  BY DEF PathHeadsetInputOff
<1>1. UNCHANGED <<hist, stream, op>>
  BY <1>f, PcmFrame DEF PcmStep
<1>2. /\ pc = "input" /\ pc' \in {"output", "mark_input"} /\ op = "cleanup"
      /\ init_count' = init_count /\ active' = active
      /\ on' = IF setup_needed["capture"] THEN on ELSE v
  BY <1>f DEF HeadsetInputOff, Proceed, Goto
<1>3. /\ path' = IF setup_needed["capture"] THEN path ELSE g
      /\ UNCHANGED <<device, reprepared, joined>>
  BY DEF PathHeadsetInputOff, Registers
<1>4. InputOff(g, path)
  BY <1>0, InputWrites
<1> HIDE DEF g
<1>5. /\ Quiet(path, on) => Quiet(g, v)
      /\ Still(g, v)
      /\ Ticking(path, on) => Ticking(g, v)
      /\ Carried(path, on) => Carried(g, v)
  BY <1>4, InputTurned
<1> HIDE DEF v
<1>6. /\ Quiet(path, on) => Quiet(path', on')
      /\ Still(path, on) => Still(path', on')
      /\ Ticking(path, on) => Ticking(path', on')
      /\ Carried(path, on) => Carried(path', on')
  BY <1>2, <1>3, <1>5
<1> QED BY <1>1, <1>2, <1>3, <1>6, SoundingAtCleanUp

\* And of its output.
LEMMA SoundingByOutputOff ==
  ASSUME UnitsInv, Typed, Sounding, PathHeadsetOutputOff
  PROVE  Sounding'
<1> DEFINE g == disable_headset_streaming(path)
           v == on \ {"headphones"}
<1>0. path \in Hardware
  BY DEF Typed
<1>f. HeadsetOutputOff
  BY DEF PathHeadsetOutputOff
<1>1. UNCHANGED <<hist, stream, op>>
  BY <1>f, PcmFrame DEF PcmStep
<1>2. /\ pc = "output" /\ pc' \in {"hook", "mark_output"} /\ op = "cleanup"
      /\ init_count' = init_count /\ active' = active
      /\ on' = IF OutputEnds THEN on \ HeadphonesOn ELSE on
  BY <1>f DEF HeadsetOutputOff, Proceed, Goto
<1>3. /\ path' = IF OutputEnds THEN g ELSE path
      /\ UNCHANGED <<device, reprepared, joined>>
  BY DEF PathHeadsetOutputOff, Registers
<1>4. OutputOff(g, path)
  BY <1>0, OutputWrites
<1> HIDE DEF g
<1>5. /\ Quiet(path, on) => Quiet(g, v)
      /\ Still(path, on) => Still(g, v)
      /\ v \cap {"speakers", "headset_mike"} = {} => Ticking(g, v)
      /\ Carried(path, on) => Carried(g, v)
  BY <1>4, OutputTurned
<1>6. Orderly /\ ~starved => v \cap {"speakers", "headset_mike"} = {}
  BY <1>2, OrderlyFinds
<1>7. OutputEnds => \A x \in {"speakers", "headphones", "headset_mike"} : x \in on' <=> x \in v
  BY <1>2 DEF HeadphonesOn
<1> HIDE DEF v
<1>8. CASE OutputEnds
  <2>1. /\ Quiet(g, v) => Quiet(g, on')
        /\ Still(g, v) => Still(g, on')
        /\ Ticking(g, v) => Ticking(g, on')
        /\ Carried(g, v) => Carried(g, on')
    BY <1>7, <1>8, UnitsMatter
  <2>2. /\ Quiet(path, on) => Quiet(path', on')
        /\ Still(path, on) => Still(path', on')
        /\ Orderly /\ ~starved /\ Ticking(path, on) => Ticking(path', on')
        /\ Carried(path, on) => Carried(path', on')
    BY <1>3, <1>5, <1>6, <1>8, <2>1
  <2> QED BY <1>1, <1>2, <1>3, <2>2, SoundingAtCleanUp
<1>9. CASE ~OutputEnds
  <2>1. path' = path /\ on' = on
    BY <1>2, <1>3, <1>9
  <2> QED BY <1>1, <1>2, <1>3, <2>1, SoundingAtCleanUp
<1> QED BY <1>8, <1>9

\* The clean-up of the speakers or of the internal microphone.
LEMMA SoundingByInternalCleanUp ==
  ASSUME UnitsInv, Typed, Sounding, PathInternalCleanUp
  PROVE  Sounding'
<1>0. path \in Hardware
  BY DEF Typed
<1>f. InternalCleanUp
  BY DEF PathInternalCleanUp
<1>1. UNCHANGED <<hist, stream, op>>
  BY <1>f, PcmFrame DEF PcmStep
<1>2. /\ pc = "real" /\ pc' = "drain" /\ op = "cleanup"
      /\ init_count' = init_count /\ active' = active
      /\ on' = on \ (IF stream = "playback" THEN {"speakers", "internal_mike"}
                     ELSE {"internal_mike"})
  BY <1>f DEF InternalCleanUp, Goto, flags
<1>3. UNCHANGED <<device, reprepared, joined>>
  BY DEF PathInternalCleanUp, Registers
<1>4. ASSUME Quiet(path, on) => Quiet(path', on'),
             Still(path, on) => Still(path', on'),
             Orderly /\ Ticking(path, on) => Ticking(path', on'),
             Carried(path, on) => Carried(path', on')
      PROVE  Sounding'
  BY <1>1, <1>2, <1>3, <1>4, SoundingAtCleanUp
<1>5. CASE stream = "playback"
  <2> DEFINE h1 == amps_disable_streaming(path)
             h2 == Put(h1, {"afg"}, {})
             g  == inputs_power_nids_off(h2)
             v  == on \ {"speakers"}
  <2>0. path' = g
    BY <1>5 DEF PathInternalCleanUp, Registers
  <2>1. /\ Quiet(path, on) => Quiet(h1, v)
        /\ Still(path, on) => Still(h1, v)
        /\ v \cap {"headphones", "headset_mike"} = {} => Ticking(h1, v)
        /\ Carried(path, on) => Carried(h1, v)
    BY <1>0, SpeakersTurned
  <2>2. h1 \in Hardware
    BY <1>0, FunctionsKin DEF Kin
  <2>3. Orderly => v \cap {"headphones", "headset_mike"} = {}
    BY <1>2, OrderlyFinds
  <2> HIDE DEF h1
  <2>4. Spares(h2, h1)
    BY <2>2, OthersSpare
  <2>5. h2 \in Hardware
    BY <2>2, VerbsLeave DEF Bit, Same, Leaves
  <2> HIDE DEF h2
  <2>6. Writes(g, h2, {\h22}, {}, {}, h2.chip)
    BY <2>5, SoundWrites
  <2> HIDE DEF g
  <2>7. Spares(g, h2)
    BY <2>5, <2>6, OthersSpare
  <2>8. \A x \in {"speakers", "headphones", "headset_mike"} : x \in on' <=> x \in v
    BY <1>2, <1>5
  <2> HIDE DEF v
  <2>9. /\ Quiet(h1, v) => Quiet(g, v)
        /\ Still(h1, v) => Still(g, v)
        /\ Ticking(h1, v) => Ticking(g, v)
        /\ Carried(h1, v) => Carried(g, v)
    BY <2>4, <2>7, SparedKept
  <2>10. /\ Quiet(g, v) => Quiet(g, on')
         /\ Still(g, v) => Still(g, on')
         /\ Ticking(g, v) => Ticking(g, on')
         /\ Carried(g, v) => Carried(g, on')
    <3> DEFINE w == on'
    <3>1. \A x \in {"speakers", "headphones", "headset_mike"} : x \in w <=> x \in v
      BY <2>8
    <3>2. /\ Quiet(g, v) => Quiet(g, w)
          /\ Still(g, v) => Still(g, w)
          /\ Ticking(g, v) => Ticking(g, w)
          /\ Carried(g, v) => Carried(g, w)
      <4> HIDE DEF w
      <4>1. \A x \in {"speakers", "headphones"} : x \in v => x \in w
        BY <3>1
      <4>2. \A x \in {"speakers", "headphones"} : x \in w => x \in v
        BY <3>1
      <4>3. "headset_mike" \in v => "headset_mike" \in w
        BY <3>1
      <4>4. Quiet(g, v) => Quiet(g, w)
        BY <4>1, UnitsMatter
      <4>5. Still(g, v) => Still(g, w)
        BY <4>3, UnitsMatter
      <4>6. Ticking(g, v) => Ticking(g, w)
        BY <3>1, UnitsMatter
      <4>7. Carried(g, v) => Carried(g, w)
        BY <4>2, UnitsMatter
      <4> QED BY <4>4, <4>5, <4>6, <4>7
    <3> QED BY <3>2
  <2> QED BY <1>4, <2>0, <2>1, <2>3, <2>9, <2>10
<1>6. CASE stream # "playback"
  <2> DEFINE g == capturestop(path)
  <2>0. path' = g
    BY <1>6 DEF PathInternalCleanUp, Registers
  <2>1. Writes(g, path, {\h22}, {}, {}, path.chip)
    BY <1>0, SoundWrites
  <2> HIDE DEF g
  <2>2. Spares(g, path)
    BY <1>0, <2>1, OthersSpare
  <2>3. \A x \in {"speakers", "headphones", "headset_mike"} : x \in on' <=> x \in on
    BY <1>2, <1>6
  <2>4. /\ Quiet(path, on) => Quiet(g, on)
        /\ Still(path, on) => Still(g, on)
        /\ Ticking(path, on) => Ticking(g, on)
        /\ Carried(path, on) => Carried(g, on)
    BY <2>2, SparedKept
  <2>5. /\ Quiet(g, on) => Quiet(g, on')
        /\ Still(g, on) => Still(g, on')
        /\ Ticking(g, on) => Ticking(g, on')
        /\ Carried(g, on) => Carried(g, on')
    BY <2>3, UnitsMatter
  <2> QED BY <1>4, <2>0, <2>4, <2>5
<1> QED BY <1>5, <1>6

-----------------------------------------------------------------------------
(* The ends of the operations, their calls and everybody else.             *)

\* Steps that leave the registers, what is stored and the units.
LEMMA SoundingKept ==
  ASSUME Sounding, path' = path, on' = on, device' = device,
         Orderly' => Orderly, starved => starved',
         Playing' => Playing \/ ~Orderly', reprepared' = reprepared, joined' = joined,
         Recording' => Recording \/ starved' \/ ~Orderly'
  PROVE  Sounding'
<1>1. Dark'
  BY DEF Sounding, Dark
<1>2. Clocked'
  BY DEF Sounding, Clocked
<1>3. OutputCarried'
  BY DEF Sounding, OutputCarried
<1>4. InputCarried'
  BY DEF Sounding, InputCarried
<1> QED BY <1>1, <1>2, <1>3, <1>4 DEF Sounding

\* The kernel's set-up of a capture is that of the driver.
LEMMA SoundingByHookUnblock ==
  ASSUME Typed, Remembered, Counted, Sounding, PathHookUnblock
  PROVE  Sounding'
<1> DEFINE p == path.papl[device]
           g == setup_stream(path, device, p.tag, 0, p.fmt)
<1>0. path \in Hardware /\ device \in {\h22, \h1a} /\ device \in Nid
  BY DEF Typed, Nid
<1>f. HookUnblock
  BY DEF PathHookUnblock
<1>1. /\ UNCHANGED <<hist, stream, op, starved>>
      /\ Orderly' <=> Orderly
  BY <1>f, PcmFrame DEF PcmStep, hist
<1>2. /\ pc = "hook" /\ pc' = "list" /\ init_count' = init_count /\ active' = active /\ on' = on
  BY <1>f DEF HookUnblock, Goto, flags
<1>3. /\ path' = IF stream = "capture" /\ op = "prepare" THEN g ELSE path
      /\ UNCHANGED <<device, reprepared, joined>>
  BY DEF PathHookUnblock, Registers
<1>4. (Playing' <=> Playing) /\ (Recording' <=> Recording)
  BY <1>1, <1>2 DEF Playing, Recording, Capturing, SetUp
<1>5. CASE stream = "capture" /\ op = "prepare"
  <2>0. init_count["capture"] > 0
    BY <1>2, <1>5 DEF Counted
  <2>1. p = [tag |-> Tag(device), ch |-> 0, fmt |-> \h4031]
    BY <2>0 DEF Remembered
  <2>2. p.tag \in 0..3 /\ 0 \in {0, 2} /\ p.fmt \in Format \cup {0}
    BY <1>0 DEF Hardware, Stored
  <2>3. HasBits(g, path.bits) /\ HasChip(g, path.chip)
    BY <1>0, HardwareHas, SetUpWires, SetUpSpares
  <2> HIDE DEF p
  <2>4. SetsUp(g, path, device, p.tag, 0, p.fmt)
    BY <1>0, <2>2, SetUpSets
  <2> HIDE DEF g
  <2>5. Leaves(g, path, {device}) /\ g.bits = path.bits /\ g.chip = path.chip
    BY <2>3, <2>4 DEF SetsUp, HasBits, HasChip
  <2>6. Spares(g, path)
    BY <1>0, <2>5, OthersSpare
  <2>7. ASSUME path.hw[device] = Params(path, device, 2, 0)
        PROVE  g.hw[device] = Params(g, device, 2, 0)
    <3> DEFINE q == g.hw[device]
    <3>1. path.hw[device].tag = p.tag /\ path.hw[device].ch = 0 /\ path.hw[device].fmt = p.fmt
      BY <2>7 DEF Params, p
    <3>2. q.tag = p.tag /\ q.ch = 0 /\ q.fmt = p.fmt
      BY <2>4, <3>1 DEF SetsUp
    <3>3. q \in Stored
      BY <1>0, <2>5 DEF Leaves, Hardware
    <3> HIDE DEF q
    <3>4. q = [tag |-> q.tag, ch |-> q.ch, fmt |-> q.fmt]
      BY <3>3 DEF Stored
    <3>5. q = [tag |-> p.tag, ch |-> 0, fmt |-> p.fmt]
      BY <3>2, <3>4
    <3>6. Params(g, device, 2, 0) = [tag |-> p.tag, ch |-> 0, fmt |-> p.fmt]
      BY <2>5 DEF Params, Leaves, p
    <3> QED BY <3>5, <3>6 DEF q
  <2>8. Recorded(path, on, device) => Recorded(g, on, device)
    BY <2>5, <2>7 DEF Recorded
  <2>9. /\ Quiet(path, on) => Quiet(g, on)
        /\ Still(path, on) => Still(g, on)
        /\ Ticking(path, on) => Ticking(g, on)
        /\ Carried(path, on) => Carried(g, on)
    BY <2>6, SparedKept
  <2>10. path' = g
    BY <1>3, <1>5
  <2>11. Dark'
    BY <1>1, <1>2, <2>9, <2>10 DEF Sounding, Dark
  <2>12. Clocked'
    BY <1>1, <1>2, <2>9, <2>10 DEF Sounding, Clocked
  <2>13. OutputCarried'
    BY <1>1, <1>2, <1>3, <1>4, <2>9, <2>10 DEF Sounding, OutputCarried
  <2>14. InputCarried'
    BY <1>1, <1>2, <1>3, <1>4, <2>8, <2>10 DEF Sounding, InputCarried
  <2> QED BY <2>11, <2>12, <2>13, <2>14 DEF Sounding
<1>6. CASE ~(stream = "capture" /\ op = "prepare")
  BY <1>1, <1>2, <1>3, <1>4, <1>6, SoundingKept
<1> QED BY <1>5, <1>6

\* The steps of an operation.
LEMMA SoundingByPcm ==
  ASSUME UnitsInv, Typed, Remembered, Fresh, Sounding, PathPcmStep
  PROVE  Sounding'
<1>0. TypeOK /\ Counted
  BY DEF UnitsInv, Inv
<1>1. CASE (RealDrain \/ HookDrain \/ HookDone) /\ Registers(path)
  <2>1. /\ UNCHANGED <<hist, stream, op, starved>>
        /\ Orderly' <=> Orderly
    BY <1>1, PcmFrame DEF PcmStep, hist
  <2>2. /\ path' = path /\ on' = on /\ UNCHANGED <<device, reprepared, joined>>
        /\ SetUp
    BY <1>1 DEF Registers, RealDrain, HookDrain, HookDone, Goto, SetUp
  <2>3. CASE RealDrain \/ HookDrain
    <3>1. /\ UNCHANGED <<active, init_count>> /\ SetUp'
          /\ pc \notin {"idle", "mark_output"} /\ pc' \notin {"idle", "mark_input"}
      BY <2>3 DEF RealDrain, HookDrain, Goto, flags, SetUp
    <3>2. (Playing' => Playing) /\ (Recording' => Recording)
      BY <2>1, <2>2, <3>1 DEF Playing, Recording, Capturing
    <3> QED BY <2>1, <2>2, <3>2, SoundingKept
  <2>4. CASE HookDone
    <3>1. /\ active' = [active EXCEPT ![stream] = (op = "prepare")]
          /\ init_count' = IF op = "cleanup" THEN [init_count EXCEPT ![stream] = 0] ELSE init_count
          /\ ~SetUp' /\ pc' = "idle"
      BY <2>4 DEF HookDone, Goto, SetUp
    <3>2. active'["playback"] => active["playback"] \/ (stream = "playback" /\ op = "prepare")
      BY <1>0, <3>1 DEF TypeOK, Stream
    <3>3. Playing' => Playing
      BY <2>1, <2>2, <3>1, <3>2 DEF Playing
    <3>4. init_count'["capture"] > 0
            => init_count["capture"] > 0 /\ (stream = "capture" => op = "prepare")
      BY <1>0, <3>1 DEF TypeOK, Stream
    <3>5. Recording' => Recording
      BY <2>1, <2>2, <3>1, <3>4 DEF Recording, Capturing
    <3> QED BY <2>1, <2>2, <3>3, <3>5, SoundingKept
  <2> QED BY <1>1, <2>3, <2>4
<1>2. CASE (BlockUnsol \/ HeadsetMark \/ RealUnblock) /\ Registers(path)
  <2>1. /\ UNCHANGED <<hist, stream, op, starved>>
        /\ Orderly' <=> Orderly
    BY <1>2, PcmFrame DEF PcmStep, hist
  <2>2. /\ path' = path /\ on' = on /\ UNCHANGED <<device, reprepared, joined, init_count>>
        /\ active' \in {active, [active EXCEPT ![stream] = FALSE]}
    BY <1>2 DEF Registers, BlockUnsol, HeadsetMark, RealUnblock, Proceed, flags
  <2>3. active'["playback"] => active["playback"]
    BY <1>0, <2>2 DEF TypeOK, Stream
  <2>4. \/ pc \in {"headset", "internal"} /\ pc' \in {"output", "input", "real"}
        \/ pc = "mark_output" /\ pc' = AfterOutput
        \/ pc = "mark_input" /\ pc' = AfterInput
        \/ pc = "unblock" /\ pc' = "hook"
    BY <1>2 DEF BlockUnsol, HeadsetMark, RealUnblock, Proceed, Goto
  <2>5. Orderly /\ pc = "mark_input" => stream = "capture"
    BY OrderlyFinds
  <2>6. Playing' => Playing \/ ~Orderly'
    BY <2>1, <2>3, <2>4, <2>5 DEF Playing, SetUp, AfterOutput, AfterInput
  <2>7. Recording' => Recording \/ ~Orderly'
    BY <2>1, <2>2, <2>4, <2>5 DEF Recording, Capturing, SetUp, AfterOutput, AfterInput
  <2> QED BY <2>1, <2>2, <2>6, <2>7, SoundingKept
<1> QED BY <1>0, <1>1, <1>2, SoundingByOutputOn, SoundingByInputOn, SoundingByInputOff,
           SoundingByOutputOff, SoundingByInternalSetUp, SoundingByInternalCleanUp,
           SoundingByHookUnblock
        DEF PathPcmStep

\* The calls of the operations.
LEMMA SoundingByPrepare ==
  ASSUME UnitsInv, Typed, Remembered, Sounding, NEW s \in Stream, PathPrepare(s)
  PROVE  Sounding'
<1>0. /\ path \in Hardware /\ device \in {\h22, \h1a} /\ TypeOK /\ Counted
      /\ init_count \in [Stream -> 0..MaxInit] /\ active \in [Stream -> BOOLEAN]
  BY DEF Typed, UnitsInv, Inv, TypeOK
<1>1. /\ pc = "idle" /\ stream' = s /\ op' = "prepare" /\ on' = on /\ starved' = starved
      /\ pc' = "hook" => init_count[s] # 0
      /\ pc' \in {"headset", "internal", "hook"}
      /\ init_count' = [init_count EXCEPT ![s] = @ + 1]
      /\ active' = IF s = "capture" THEN [active EXCEPT ![s] = FALSE] ELSE active
      /\ joined' = joined
  BY DEF PathPrepare, Prepare, Begin
<1>2. Orderly' => Orderly
  <2>1. crossed' = (crossed \/ Busy) /\ during' = during /\ swapped' = swapped
    BY DEF PathPrepare, Prepare, Begin
  <2> QED BY <2>1 DEF Orderly
<1>3. PICK fmt \in Format, n \in {\h22, \h1a} :
        IF s = "playback"
        THEN /\ path' = store_playback(path, fmt)
             /\ reprepared' = (init_count[s] > 0 /\ (reprepared \/ path.papl[\h02].fmt # fmt))
             /\ UNCHANGED device
        ELSE /\ fmt = \h4031
             /\ init_count[s] > 0 => n = device
             /\ path' = store_stream_format(path, n, Tag(n), fmt)
             /\ device' = n
             /\ UNCHANGED reprepared
  BY DEF PathPrepare
<1>4. SetUp' => init_count[s] > 0
  BY <1>0, <1>1 DEF SetUp
<1>5. ASSUME Keeps(path', path) PROVE Dark' /\ Clocked'
  <2>1. path'.hw = path.hw /\ path'.bits = path.bits /\ path'.chip = path.chip
    BY <1>5 DEF Keeps
  <2>2. /\ Quiet(path, on) => Quiet(path', on')
        /\ Still(path, on) => Still(path', on')
        /\ Ticking(path, on) => Ticking(path', on')
    BY <1>1, <2>1 DEF Quiet, Still, Ticking
  <2> QED BY <1>1, <1>2, <2>2 DEF Sounding, Dark, Clocked
<1>6. CASE s = "playback"
  <2>1. StoresPlayback(path', path, fmt)
    BY <1>0, <1>3, <1>6, StoreWrites
  <2>2. Dark' /\ Clocked'
    BY <1>5, <2>1 DEF StoresPlayback
  <2>3. OutputCarried'
    <3> SUFFICES ASSUME Orderly', ~reprepared', ~joined', Playing' PROVE Carried(path', on')
      BY DEF OutputCarried
    <3>1. init_count["playback"] > 0
      <4>1. active'["playback"] => init_count["playback"] > 0
        BY <1>0, <1>1, <1>6 DEF Counted, Stream
      <4> QED BY <1>1, <1>4, <1>6, <4>1 DEF Playing
    <3>2. active["playback"]
      BY <1>0, <1>1, <3>1 DEF Counted, Stream
    <3>3. ~reprepared /\ path.papl[\h02].fmt = fmt
      <4>1. reprepared' <=> init_count["playback"] > 0
                              /\ (reprepared \/ path.papl[\h02].fmt # fmt)
        BY <1>3, <1>6
      <4> QED BY <3>1, <4>1
    <3>4. PICK f \in Format :
            /\ \A m \in {\h02, \h03, \h0a} : path.papl[m] = [tag |-> 1, ch |-> 0, fmt |-> f]
            /\ path.channels = IF f = \h4031 THEN 2 ELSE 4
      BY <3>1 DEF Remembered, StoredPlayback
    <3>5. f = fmt
      BY <3>3, <3>4
    <3>6. /\ \A m \in {\h02, \h03, \h0a} : path'.papl[m] = path.papl[m]
          /\ path'.channels = path.channels /\ path'.hw = path.hw
      BY <2>1, <3>4, <3>5 DEF StoresPlayback, Keeps
    <3>7. /\ \A m \in {\h02, \h03, \h0a} : \A u, ch : Params(path', m, u, ch) = Params(path, m, u, ch)
          /\ Rear(path') = Rear(path)
      BY <3>6 DEF Params, Rear
    <3>8. Carried(path, on)
      BY <1>1, <1>2, <3>2, <3>3 DEF Sounding, OutputCarried, Playing
    <3> QED BY <1>1, <3>6, <3>7, <3>8 DEF Carried
  <2>4. InputCarried'
    <3>1. Recording' => Recording
      BY <1>0, <1>1, <1>6 DEF Recording, Capturing, Stream
    <3>2. path'.papl[device] = path.papl[device] /\ path'.hw = path.hw /\ path'.bits = path.bits
      BY <1>0, <2>1 DEF StoresPlayback, Keeps
    <3>3. Recorded(path, on, device) => Recorded(path', on, device)
      BY <3>2 DEF Recorded, Params
    <3> QED BY <1>1, <1>2, <1>3, <1>6, <3>1, <3>3 DEF Sounding, InputCarried
  <2> QED BY <2>2, <2>3, <2>4 DEF Sounding
<1>7. CASE s = "capture"
  <2>0. n \in Nid /\ Tag(n) \in 0..3
    BY DEF Nid, Tag
  <2>1. StoresOne(path', path, n, [tag |-> Tag(n), ch |-> 0, fmt |-> \h4031])
    BY <1>0, <1>3, <1>7, <2>0, StoreWrites
  <2>2. Dark' /\ Clocked'
    BY <1>5, <2>1 DEF StoresOne
  <2>3. path.papl \in [Nid -> Stored] /\ path.chip \in Chip
    BY <1>0 DEF Hardware
  <2>4. OutputCarried'
    <3>1. Playing' => Playing
      BY <1>0, <1>1, <1>7 DEF Playing, Stream
    <3>2. \A m \in {\h02, \h03, \h0a} : path'.papl[m] = path.papl[m]
      <4>1. \A m \in {\h02, \h03, \h0a} : m # n
        OBVIOUS
      <4> QED BY <2>1, <2>3, <4>1 DEF StoresOne, Nid
    <3>3. /\ \A m \in {\h02, \h03, \h0a} : \A u, ch : Params(path', m, u, ch) = Params(path, m, u, ch)
          /\ Rear(path') = Rear(path) /\ path'.hw = path.hw
      BY <2>1, <3>2 DEF Params, Rear, StoresOne, Keeps
    <3>4. Carried(path, on) => Carried(path', on')
      BY <1>1, <3>3 DEF Carried
    <3> QED BY <1>1, <1>2, <1>3, <1>7, <3>1, <3>4 DEF Sounding, OutputCarried
  <2>5. InputCarried'
    <3> SUFFICES ASSUME Orderly', ~starved', Recording' PROVE Recorded(path', on', device')
      BY DEF InputCarried
    <3>1. init_count["capture"] > 0
      BY <1>1, <1>4, <1>7 DEF Recording, Capturing
    <3>2. n = device /\ device' = device
      BY <1>3, <1>7, <3>1
    <3>3. path.papl[device] = [tag |-> Tag(device), ch |-> 0, fmt |-> \h4031]
      BY <3>1 DEF Remembered
    <3>4. /\ path'.papl[device] = path.papl[device]
          /\ path'.hw = path.hw /\ path'.bits = path.bits
      BY <2>0, <2>1, <2>3, <3>2, <3>3 DEF StoresOne, Keeps
    <3>5. Recorded(path, on, device)
      BY <1>1, <1>2, <3>1 DEF Sounding, InputCarried, Recording, Capturing
    <3> QED BY <1>1, <3>2, <3>4, <3>5 DEF Recorded, Params
  <2> QED BY <2>2, <2>4, <2>5 DEF Sounding
<1> QED BY <1>6, <1>7 DEF Stream

\* Everybody else.
LEMMA SoundingByOthers ==
  ASSUME UnitsInv, Sounding,
         \/ WorkerStep /\ Registers(path)
         \/ MovePlug /\ Registers(path)
         \/ \E s \in Stream : PathCleanup(s)
         \/ UNCHANGED pathVars
  PROVE  Sounding'
<1>1. CASE WorkerStep /\ Registers(path)
  <2>1. UNCHANGED <<hist, flags, call, on>>
    BY <1>1 DEF WorkerStep, UnsolHandle, UnsolStore, UnsolList, UnsolUnblock
  <2>2. /\ UNCHANGED <<path, device, reprepared, joined, starved, on>>
        /\ Orderly' => Orderly
        /\ Playing' => Playing
        /\ Recording' => Recording
    BY <1>1, <2>1 DEF Registers, Orderly, Playing, Recording, Capturing, SetUp, hist, flags, call
  <2> QED BY <2>2, SoundingKept
<1>2. CASE MovePlug /\ Registers(path)
  <2>1. /\ UNCHANGED <<flags, call, on, crossed, starved>>
        /\ Orderly' => Orderly
    BY <1>2 DEF MovePlug, Orderly
  <2>2. /\ UNCHANGED <<path, device, reprepared, joined, starved, on>>
        /\ Playing' => Playing
        /\ Recording' => Recording
    BY <1>2, <2>1 DEF Registers, Playing, Recording, Capturing, SetUp, flags, call
  <2> QED BY <2>1, <2>2, SoundingKept
<1>3. ASSUME NEW s \in Stream, PathCleanup(s) PROVE Sounding'
  <2>1. /\ op' = "cleanup" /\ stream' = s /\ pc' \in {"headset", "internal"}
        /\ starved' = (starved \/ (s = "playback" /\ init_count["capture"] > 0))
        /\ UNCHANGED <<active, init_count, on>>
        /\ Orderly' => Orderly
    BY <1>3 DEF PathCleanup, Cleanup, Begin, Orderly
  <2>2. /\ UNCHANGED <<path, device, reprepared, joined>>
        /\ Playing' => Playing
        /\ Recording' => Recording \/ starved'
    BY <1>3, <2>1 DEF PathCleanup, Registers, Playing, Recording, Capturing, SetUp, Stream
  <2> QED BY <2>1, <2>2, SoundingKept
<1>4. CASE UNCHANGED pathVars
  <2>1. /\ UNCHANGED <<path, device, reprepared, joined, starved, on>>
        /\ Orderly' => Orderly
        /\ Playing' => Playing
        /\ Recording' => Recording
    BY <1>4 DEF pathVars, vars, hist, flags, call, Orderly, Playing, Recording, Capturing, SetUp
  <2> QED BY <2>1, SoundingKept
<1> QED BY <1>1, <1>2, <1>3, <1>4

\* The flag of the capture.
LEMMA FreshStep ==
  ASSUME UnitsInv, Fresh, [Next]_vars
  PROVE  Fresh'
<1>0. TypeOK
  BY DEF UnitsInv, Inv
<1>1. ASSUME UNCHANGED <<pc, op, stream, setup_needed>>, Orderly' => Orderly
      PROVE  Fresh'
  BY <1>1 DEF Fresh
<1>2. CASE WorkerStep
  BY <1>1, <1>2 DEF WorkerStep, UnsolHandle, UnsolStore, UnsolList, UnsolUnblock, flags, call, hist,
                    Orderly
<1>3. CASE MovePlug
  BY <1>1, <1>3 DEF MovePlug, flags, call, Orderly
<1>4. CASE EventStep
  <2>1. CASE UnplugReset
    <3>1. setup_needed'["capture"]
      BY <2>1 DEF UnplugReset, Stream
    <3> QED BY <3>1 DEF Fresh
  <2>2. CASE EventStep /\ ~UnplugReset
    BY <1>1, <2>2
    DEF EventStep, PluginHandleDetect, PluginCompleteDetect, TypeDetectEvent, ButtonDetectEvent,
        PluginWhilePlaying, PluginInputs, UnplugEvent, UnplugHeadsetOff, UnplugAmpsOn,
        flags, call, hist, Orderly
  <2> QED BY <1>4, <2>1, <2>2
<1>5. CASE PcmStep
  <2>1. CASE BlockUnsol
    BY <2>1 DEF BlockUnsol, Goto, Fresh, flags, hist, Orderly
  <2>2. CASE HeadsetOutputOn \/ HeadsetInputOn
    BY <2>2 DEF HeadsetOutputOn, HeadsetInputOn, Proceed, Goto, AfterOutput, Fresh, hist, Orderly
  <2>3. CASE HeadsetMark
    <3>1. /\ UNCHANGED <<op, stream>> /\ (Orderly' => Orderly)
          /\ \/ pc = "mark_output" /\ setup_needed'["capture"] = setup_needed["capture"]
             \/ pc = "mark_input" /\ pc' = AfterInput
      BY <1>0, <2>3 DEF HeadsetMark, Proceed, Goto, TypeOK, Stream, hist, Orderly
    <3> QED BY <3>1 DEF AfterInput, Fresh
  <2>4. CASE \/ HeadsetInputOff \/ HeadsetOutputOff \/ InternalSetUp \/ InternalCleanUp
             \/ RealDrain \/ RealUnblock \/ HookUnblock \/ HookDrain \/ HookDone
    BY <2>4 DEF HeadsetInputOff, HeadsetOutputOff, InternalSetUp, InternalCleanUp, RealDrain,
                RealUnblock, HookUnblock, HookDrain, HookDone, Proceed, Goto, Fresh
  <2> QED BY <1>5, <2>1, <2>2, <2>3, <2>4 DEF PcmStep
<1>6. ASSUME NEW s \in Stream, Prepare(s) PROVE Fresh'
  <2> SUFFICES ASSUME Orderly', pc' \in {"headset", "output", "mark_output", "input"},
                      stream' = "capture"
               PROVE  setup_needed'["capture"]
    BY DEF Fresh
  <2>1. s = "capture" /\ init_count[s] = 0 /\ Orderly /\ setup_needed' = setup_needed
    BY <1>6 DEF Prepare, Begin, Orderly
  <2>2. ~(init_count["capture"] > 0)
    BY <2>1
  <2>3. setup_needed["capture"]
    BY <2>1, <2>2 DEF UnitsInv, InputsOwned
  <2> QED BY <2>1, <2>3
<1>7. ASSUME NEW s \in Stream, Cleanup(s) PROVE Fresh'
  BY <1>7 DEF Cleanup, Begin, Fresh
<1>8. CASE UNCHANGED vars
  BY <1>1, <1>8 DEF vars, flags, call, hist, Orderly
<1> QED BY <1>2, <1>3, <1>4, <1>5, <1>6, <1>7, <1>8 DEF Next, PcmCall

\* The boot leaves everything off.
LEMMA SoundingInit == PathInit => Sounding /\ Fresh
<1> SUFFICES ASSUME PathInit PROVE Sounding /\ Fresh
  OBVIOUS
<1>1. Booted(path) /\ on = {} /\ pc = "idle" /\ ~active["playback"] /\ ~(init_count["capture"] > 0)
  BY BootSets DEF PathInit, Init, Stream
<1>2. path.chip \in Chip
  BY <1>1 DEF Booted, Hardware
<1>3. Dark
  <2>1. path.chip.pll \in BOOLEAN /\ path.chip.oscillator \in BOOLEAN
    BY <1>2 DEF Chip
  <2>2. path.chip.pll = path.chip.oscillator
    BY <1>1, <2>1 DEF Booted
  <2>3. OutputBlock \subseteq path.chip.down /\ InputBlock \subseteq path.chip.down
    BY <1>1 DEF Booted, Block, OutputBlock, InputBlock
  <2>4. Quiet(path, on)
    BY <1>1, <2>2, <2>3 DEF Quiet, Booted
  <2>5. Still(path, on)
    BY <2>3 DEF Still
  <2> QED BY <2>4, <2>5 DEF Dark
<1>4. Clocked
  BY <1>1 DEF Clocked, Ticking
<1>5. OutputCarried /\ InputCarried
  BY <1>1 DEF OutputCarried, InputCarried, Playing, Recording, Capturing, SetUp
<1>6. Fresh
  BY <1>1 DEF Fresh
<1> QED BY <1>3, <1>4, <1>5, <1>6 DEF Sounding

-----------------------------------------------------------------------------
(* The theorems.                                                           *)

\* The units are in the registers, the types are right, and the streams carried.
RegistersInv == UnitsInv /\ Matched /\ Typed /\ Remembered /\ Fresh /\ Sounding

\* The initial state satisfies the inductive invariant.
LEMMA RegistersInit == PathInit => RegistersInv
<1> SUFFICES ASSUME PathInit PROVE RegistersInv
  OBVIOUS
<1>1. UnitsInv
  BY UnitsInit DEF PathInit
<1>2. Matched
  BY BootUnits DEF PathInit, Init, Matched
<1> QED BY <1>1, <1>2, TypedInit, RememberedInit, SoundingInit DEF RegistersInv

\* Every step keeps it.
LEMMA RegistersStep == RegistersInv /\ [PathNext]_pathVars => RegistersInv'
<1> SUFFICES ASSUME RegistersInv, [PathNext]_pathVars PROVE RegistersInv'
  OBVIOUS
<1> USE DEF RegistersInv
<1>1. TypeOK /\ Counted
  BY DEF UnitsInv, Inv
<1>2. [Next]_vars /\ UnitsInv'
  BY RouteStep, UnitsStep
<1>3. Matched'
  BY <1>1, MatchedByEvent, MatchedByPcm, MatchedByOthers DEF PathNext
<1>4. Typed' /\ Remembered'
  BY <1>1, RememberedStep
<1>5. Fresh'
  BY <1>2, FreshStep
<1>6. Sounding'
  BY SoundingByEvent, SoundingByPcm, SoundingByPrepare, SoundingByOthers DEF PathNext
<1> QED BY <1>2, <1>3, <1>4, <1>5, <1>6

\* The inductive invariant holds in every reachable state: what is off is quiet, what
\* is on has its clock and the stream that is stored for it.
THEOREM RegistersInvariance == PathSpec => []RegistersInv
<1> QED BY RegistersInit, RegistersStep, PTL DEF PathSpec

\* The registers and the stored parameters have their types: the jack's registers
\* only take the values that the code writes, whatever is read back and changed.
THEOREM RegistersTyped == PathSpec => []PathTypeOK
<1>1. RegistersInv => PathTypeOK
  BY DEF RegistersInv, Typed, UnitsInv, Inv, PathTypeOK, Hardware
<1> QED BY <1>1, RegistersInvariance, PTL

\* With both streams closed nothing is connected, powered or on in the hardware.
THEOREM ClosedMeansQuiet == PathSpec => []ClosedIsQuiet
<1>1. RegistersInv /\ QuietWhenClosed => ClosedIsQuiet
  <2> SUFFICES ASSUME RegistersInv, QuietWhenClosed, Calm, \A s \in Stream : init_count[s] = 0
               PROVE  /\ \A n \in {\h02, \h03, \h0a} : path.hw[n].tag = 0
                      /\ path.chip.down = Block /\ ~path.chip.pll /\ ~path.chip.buffers
                      /\ path.bits \cap {"slots12", "slots34", "slots_out", "amps12", "amps34",
                                         "clock_amps"} = {}
    BY DEF ClosedIsQuiet
  <2>1. on = {}
    BY DEF Calm, QuietWhenClosed
  <2>2. Quiet(path, on) /\ Still(path, on)
    BY DEF RegistersInv, Sounding, Dark, Orderly, Calm
  <2>3. path.chip \in Chip
    BY DEF RegistersInv, Typed, Hardware
  <2>4. path.chip.down = Block
    <3>1. path.chip.down \subseteq Block
      BY <2>3 DEF Chip
    <3> QED BY <2>1, <2>2, <3>1 DEF Quiet, Still, Block, InputBlock, OutputBlock
  <2>5. ~path.chip.pll
    <3>1. ~(Wired("clock") \subseteq path.bits /\ Chipped(path.chip, "clock"))
      BY <2>1 DEF RegistersInv, Matched, Lit, Unit
    <3>2. ~(path.chip.pll /\ path.chip.oscillator)
      BY <3>1 DEF Wired, Chipped
    <3> QED BY <2>1, <2>2, <3>2 DEF Quiet
  <2>6. /\ path.hw[\h02].tag = 0 /\ path.hw[\h03].tag = 0 /\ path.hw[\h0a].tag = 0
        /\ path.bits \cap {"slots12", "slots34", "amps12", "amps34", "clock_amps"} = {}
        /\ "slots_out" \notin path.bits /\ ~path.chip.buffers
    BY <2>1, <2>2 DEF Quiet
  <2> QED BY <2>4, <2>5, <2>6
<1> QED BY <1>1, RegistersInvariance, PathIsARoute, NothingIsLeftOn, PTL

\* A port in use has its clock, whichever of the functions that rewrite the clock
\* register of all ports came last.
THEOREM PortsAreClocked == PathSpec => []TdmClocked
<1>1. RegistersInv => TdmClocked
  BY DEF RegistersInv, Sounding, Clocked, Ticking, TdmClocked, Calm, Orderly
<1> QED BY <1>1, RegistersInvariance, PTL

\* What the format store says of a converter that has its stream.
LEMMA ParamsCarry ==
  ASSUME Typed, NEW n \in Nid, NEW ch \in {0, 2}, path.hw[n] = Params(path, n, 2, ch)
  PROVE  Carries(n, ch)
<1>1. path.papl[n] \in Stored
  BY DEF Typed, Hardware
<1>2. [path.papl[n] EXCEPT !.ch = ch]
        = [tag |-> path.papl[n].tag, ch |-> ch, fmt |-> path.papl[n].fmt]
  BY <1>1 DEF Stored
<1> QED BY <1>2 DEF Carries, Params

\* The converters of the output in use have the stream that plays, and the rear
\* speakers its third channel or its first.
THEOREM PlaybackIsCarried == PathSpec => []StreamCarried
<1>1. RegistersInv /\ OutputFollowsJack => StreamCarried
  <2> SUFFICES ASSUME RegistersInv, OutputFollowsJack, ~reprepared, ~joined, Calm,
                      active["playback"]
               PROVE  /\ path.papl[\h02].tag = 1
                      /\ IF headset = "none"
                         THEN /\ Carries(\h02, 0)
                              /\ Carries(\h03, IF path.channels = 2 THEN 0 ELSE 2)
                         ELSE Carries(\h0a, 0)
    BY DEF StreamCarried, PlaybackCarried
  <2>1. path.papl[\h02].tag = 1
    <3>1. PICK f \in Format :
            \A n \in {\h02, \h03, \h0a} : path.papl[n] = [tag |-> 1, ch |-> 0, fmt |-> f]
      BY DEF RegistersInv, Remembered, StoredPlayback
    <3>2. path.papl[\h02] = [tag |-> 1, ch |-> 0, fmt |-> f]
      BY <3>1
    <3> QED BY <3>2
  <2>2. on \cap {"speakers", "headphones", "clock"} = OutputOf(headset)
    BY DEF OutputFollowsJack, OutputFollows, Calm
  <2>3. Carried(path, on)
    BY DEF RegistersInv, Sounding, OutputCarried, Playing, Orderly, Calm
  <2>4. CASE headset = "none"
    <3>1. "speakers" \in on
      BY <2>2, <2>4 DEF OutputOf
    <3>2. path.hw[\h02] = Params(path, \h02, 2, 0) /\ path.hw[\h03] = Params(path, \h03, 2, Rear(path))
      BY <2>3, <3>1 DEF Carried
    <3>3. \h02 \in Nid /\ \h03 \in Nid /\ Rear(path) \in {0, 2}
      BY DEF Nid, Rear
    <3>4. Carries(\h02, 0) /\ Carries(\h03, Rear(path))
      BY <3>2, <3>3, ParamsCarry DEF RegistersInv
    <3> QED BY <2>1, <2>4, <3>4 DEF Rear
  <2>5. CASE headset # "none"
    <3>1. "headphones" \in on
      BY <2>2, <2>5 DEF OutputOf, HeadphonesOn
    <3>2. path.hw[\h0a] = Params(path, \h0a, 2, 0) /\ \h0a \in Nid
      BY <2>3, <3>1 DEF Carried, Nid
    <3>3. Carries(\h0a, 0)
      BY <3>2, ParamsCarry DEF RegistersInv
    <3> QED BY <2>1, <2>5, <3>3
  <2> QED BY <2>4, <2>5
<1> QED BY <1>1, RegistersInvariance, PathIsARoute, OutputIsOfTheJack, PTL

\* A capture from the microphone of the jack has its stream, and its converter is
\* powered, unless playback was closed meanwhile.
THEOREM CaptureIsCarried == PathSpec => []CaptureCarried
<1>1. RegistersInv /\ CaptureFollowsJack => CaptureCarried
  <2> SUFFICES ASSUME RegistersInv, CaptureFollowsJack, Calm, ~starved, active["capture"]
               PROVE  /\ headset = "none" /\ device = \h22
                           => Carries(\h22, 0) /\ {"afg", "intmike"} \subseteq path.bits
                      /\ headset = "mic" /\ device = \h1a
                           => Carries(\h1a, 0) /\ "afg" \in path.bits
    BY DEF CaptureCarried
  <2>1. on \cap {"internal_mike", "headset_mike"} = InputOf(headset)
    BY DEF CaptureFollowsJack, Calm
  <2>2. Orderly /\ Recording
    BY DEF RegistersInv, UnitsInv, Counted, Recording, Capturing, Orderly, Calm, AtRest, Stream
  <2>3. Recorded(path, on, device)
    BY <2>2 DEF RegistersInv, Sounding, InputCarried
  <2>4. device \in Nid /\ 0 \in {0, 2}
    BY DEF RegistersInv, Typed, Nid
  <2>5. path.hw[device] = Params(path, device, 2, 0) => Carries(device, 0)
    BY <2>4, ParamsCarry DEF RegistersInv
  <2>6. ASSUME headset = "none", device = \h22
        PROVE  Carries(\h22, 0) /\ {"afg", "intmike"} \subseteq path.bits
    <3>1. "internal_mike" \in on
      BY <2>1, <2>6 DEF InputOf
    <3>2. Wired("internal_mike") \subseteq path.bits
      BY <3>1 DEF RegistersInv, Matched, Lit
    <3>3. "intmike" \in path.bits
      BY <3>2 DEF Wired
    <3> QED BY <2>3, <2>5, <2>6, <3>1, <3>3 DEF Recorded
  <2>7. ASSUME headset = "mic", device = \h1a
        PROVE  Carries(\h1a, 0) /\ "afg" \in path.bits
    <3>1. "headset_mike" \in on
      BY <2>1, <2>7 DEF InputOf
    <3> QED BY <2>3, <2>5, <2>7, <3>1 DEF Recorded
  <2> QED BY <2>6, <2>7
<1> QED BY <1>1, RegistersInvariance, PathIsARoute, InputIsOfTheJack, PTL
=============================================================================
