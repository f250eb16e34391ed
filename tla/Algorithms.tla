------------------------------ MODULE Algorithms ------------------------------
(***************************************************************************)
(* The pure algorithms of the firmware against what they are for, over     *)
(* their inputs: texts read token by token, the bytes of a signature, and  *)
(* the rounds of the lighting task on a clock that wraps.                  *)
(***************************************************************************)
EXTENDS AuthKey, AuthPages, LightPattern

CONSTANTS
    MaxText,        \* bound: the tokens of a text
    Phases,         \* the phases outputs are configured for
    RoundTimes      \* times between two rounds of lighting_task, in ms

ASSUME AlgorithmsAssumption ==
    /\ MaxText \in Nat
    /\ Phases \subseteq Nat
    /\ RoundTimes \subseteq 1 .. 60

VARIABLE input      \* what an algorithm is being given

Init ==
    input \in
        {[kind |-> "text", text |-> <<>>], [kind |-> "byte", index |-> 0]}
        \cup [kind : {"lights"}, pattern : Patterns, phase_ms : Phases,
              elapsed_ms : {0}]

ReadToken ==
    /\ input.kind = "text"
    /\ \E token \in Tokens :
          input' = [input EXCEPT !.text =
                       IF Len(@) = MaxText THEN <<>> ELSE Append(@, token)]

NextByte ==
    /\ input.kind = "byte"
    /\ input' = [input EXCEPT !.index = (@ + 1) % SignatureSize]

(* lighting_task: the same time for all outputs of a round *)
LightingRound ==
    /\ input.kind = "lights"
    /\ \E ms \in RoundTimes :
          input' = [input EXCEPT !.elapsed_ms = (@ + ms) % ClockMod]

Next == ReadToken \/ NextByte \/ LightingRound

Spec == Init /\ [][Next]_input

-----------------------------------------------------------------------------
(* A key that is accepted is the whole key of the text: the copy into a    *)
(* buffer shorter than the text never makes a good key out of a longer one *)
(* that is none, because what fits is longer than a key (auth.c:59-82).    *)
AcceptedKeyIsWhole ==
    input.kind = "text" /\ Parse(input.text) # Refused
        => Parse(input.text) = KeyIn(input.text)

(* How a key is laid out does not matter: with real newlines, in one line  *)
(* with escaped ones as sdkconfig has it (README.md:413-420), with blanks  *)
(* anywhere behind the first token, it is the same key or refused alike    *)
(* (auth.c:30-66).                                                         *)
LayoutDoesNotMatter ==
    input.kind = "text" /\ (input.text = <<>> \/ Head(input.text) # "blank")
        => Parse(input.text) = Parse(Plain(input.text))

(* A receiver of the pages puts the signature together, byte for byte, and *)
(* waits for no page that is not sent (auth.c:90-129, 205-212).            *)
SignatureArrives ==
    input.kind = "byte" =>
        /\ ByteArrives(input.index)
        /\ \A page \in PagesFilled : PageArrives(page)

(* An output is on exactly during the flashes of its pattern, its phase    *)
(* ahead of the clock, which "staggers matching patterns across multiple   *)
(* outputs" (README.md:156): at every value of the clock, also where the   *)
(* sum of clock and phase would overflow and where the clock wraps         *)
(* (pattern.c:84-107, lighting.c:272).                                     *)
LightsFollowPattern ==
    input.kind = "lights" =>
        FollowsPattern(input.pattern, input.elapsed_ms, input.phase_ms)

(* No flash is missed and no two melt into one, as long as a round follows *)
(* another within 60 ms (lighting.c:276-287, pattern.c:3-41), but where    *)
(* the clock wraps.                                                        *)
NoFlashMissed ==
    [][input.kind = "lights" /\ input'.elapsed_ms > input.elapsed_ms =>
          Cardinality(EdgesBetween(input.pattern, input.elapsed_ms,
                                   input'.elapsed_ms, input.phase_ms)) <= 1
      ]_input

=============================================================================
