------------------------------ MODULE MCStartup ------------------------------
EXTENDS Startup

Output(gpio, active_high) ==
    [enabled |-> gpio >= 0, gpio |-> gpio, active_high |-> active_high]

\* An active-high output, an active-low one, and one that is enabled for the
\* first one's pin.
MCOutputs == <<Output(4, TRUE), Output(5, FALSE), Output(4, FALSE)>>

=============================================================================
