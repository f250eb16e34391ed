----------------------------- MODULE LightPattern -----------------------------
(***************************************************************************)
(* src/remoteid/led/pattern.c: the patterns of the indicator and of the    *)
(* outputs, and whether an output is on at a time, computed from a clock   *)
(* of milliseconds that wraps (lighting.c:272).                            *)
(***************************************************************************)
EXTENDS Integers, Sequences, FiniteSetsExt

CONSTANT ClockMod   \* 2^32: elapsed_ms is a uint32_t

On(ms) == [on |-> TRUE, duration_ms |-> ms]
Off(ms) == [on |-> FALSE, duration_ms |-> ms]

Patterns == {"SOLID", "BEACON_1HZ_SHORT", "BEACON_1HZ_50", "STROBE_SINGLE",
             "STROBE_DOUBLE", "STROBE_TRIPLE", "FAST_STROBE"}

(* mutant: a digit of a table is lost *)
Steps_ShortFlash(pattern) ==
    CASE pattern = "STROBE_DOUBLE" -> <<On(60), Off(80), On(6), Off(1800)>>
      [] OTHER -> <<On(60), Off(440)>>

(* led_pattern_steps *)
Steps(pattern) ==
    CASE pattern = "SOLID" -> <<On(1000)>>
      [] pattern = "BEACON_1HZ_SHORT" -> <<On(100), Off(900)>>
      [] pattern = "BEACON_1HZ_50" -> <<On(500), Off(500)>>
      [] pattern = "STROBE_SINGLE" -> <<On(60), Off(1940)>>
      [] pattern = "STROBE_DOUBLE" -> <<On(60), Off(80), On(60), Off(1800)>>
      [] pattern = "STROBE_TRIPLE" ->
           <<On(60), Off(80), On(60), Off(80), On(60), Off(1660)>>
      [] pattern = "FAST_STROBE" -> <<On(60), Off(440)>>

(* When the step after the first i begins, within the period. *)
Elapsed(pattern, i) ==
    LET before[n \in 0 .. i] ==
            IF n = 0 THEN 0 ELSE before[n - 1] + Steps(pattern)[n].duration_ms
    IN  before[i]

(* led_pattern_period_ms *)
Period(pattern) == Elapsed(pattern, Len(Steps(pattern)))

ASSUME LightPatternAssumption ==
    /\ ClockMod \in Nat \ {0}
    /\ \A p \in Patterns : 2 * Period(p) <= ClockMod

-----------------------------------------------------------------------------
(* mutant: the sum of clock and phase is taken first, and overflows *)
Position_Overflows(pattern, elapsed_ms, phase_ms) ==
    ((elapsed_ms + phase_ms) % ClockMod) % Period(pattern)

(* position_ms; its sum is one of uint32_t that does not overflow *)
Position(pattern, elapsed_ms, phase_ms) ==
    (((elapsed_ms % Period(pattern)) + (phase_ms % Period(pattern))) % ClockMod)
        % Period(pattern)

Within(left, step) == left < step.duration_ms

(* led_pattern_is_on: the first step that is not over yet *)
IsOn(pattern, elapsed_ms, phase_ms) ==
    LET steps == Steps(pattern)
        left[i \in 1 .. Len(steps)] ==
            IF i = 1 THEN Position(pattern, elapsed_ms, phase_ms)
            ELSE left[i - 1] - steps[i - 1].duration_ms
        over == {i \in DOMAIN steps : Within(left[i], steps[i])}
    IN  over # {} /\ steps[Min(over)].on

-----------------------------------------------------------------------------
(* The times within a period at which the output goes on or off. *)
Edges(pattern) ==
    IF Len(Steps(pattern)) = 1 THEN {}
    ELSE {Elapsed(pattern, i - 1) : i \in DOMAIN Steps(pattern)}

(* An output is on exactly during the flashes of its pattern, its phase    *)
(* ahead of the clock.                                                     *)
FollowsPattern(pattern, elapsed_ms, phase_ms) ==
    IsOn(pattern, elapsed_ms, phase_ms) <=>
        \E i \in DOMAIN Steps(pattern) :
            /\ Steps(pattern)[i].on
            /\ (elapsed_ms + phase_ms) % Period(pattern)
                  \in Elapsed(pattern, i - 1) .. (Elapsed(pattern, i) - 1)

(* The edges of an output between two times of the clock. *)
EdgesBetween(pattern, from_ms, to_ms, phase_ms) ==
    {t \in (from_ms + 1) .. to_ms :
        (t + phase_ms) % Period(pattern) \in Edges(pattern)}

=============================================================================
