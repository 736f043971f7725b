--------------------------- MODULE MCPollManager --------------------------
(* Instances of PollManager for TLC: one group with two signals, in two    *)
(* blocks or in one, and one group with a single signal.                   *)
EXTENDS PollManager, TLC

CONSTANTS g1, a, b

AbsoluteTwo == [type |-> "absolute", value |-> 2]
PercentFifty == [type |-> "percent", value |-> 50]
AnyChange == [type |-> "none", value |-> 0]

OneOwner == [s \in {a, b} |-> g1]
OneBlocks == [g \in {g1} |-> <<<<a>>, <<b>>>>]
OneOrder == <<g1>>
OneSignalOwner == [s \in {a} |-> g1]
OneSignalBlocks == [g \in {g1} |-> <<<<a>>>>]
PairBlocks == [g \in {g1} |-> <<<<a, b>>>>]

MixedBand == (a :> AbsoluteTwo) @@ (b :> PercentFifty)
PlainBand == [s \in Signals |-> AnyChange]
Numbers == {Num(0), Num(1), Num(2), Num(3)}
FewNumbers == {Num(0), Num(2)}
FirstNumber == [s \in Signals |-> Num(0)]
=============================================================================
