--------------------------- MODULE SignalInventory ------------------------
(***************************************************************************)
(* sb/signals and the two forms of sb/browse: signals, browse and          *)
(* _browse_hierarchical of command_service.py, over resolved_signals of    *)
(* poll_manager.py.                                                        *)
(*                                                                         *)
(* A request is a record of the keys of its body; Missing is a key that    *)
(* the body does not have, Null one that has no value, Other one whose     *)
(* value has the wrong type.  The adapter keeps nothing between requests:  *)
(* cursor and walked belong to the client.                                 *)
(***************************************************************************)
EXTENDS Integers, SequencesExt

CONSTANTS
    Groups,        \* poll groups in their order: [unit, signals], where a signal
                   \* is a [name, register, bit]
    Missing, Null, Other,
    Root,          \* the ref of the device node, "root"
    Requests,      \* the requests that clients make
    PageDefault,   \* BROWSE_DEFAULT_MAX, 200
    PageMax,       \* BROWSE_MAX, 1000
    RefsDefault,   \* 200
    RefsMax        \* 1000

\* The id says nothing of the bit: signals on bits of one register share one.
signal_id(unit, signal) == <<unit, signal.register>>

resolved_signals ==
    LET Listed(g) == [i \in DOMAIN g.signals |->
            [id |-> signal_id(g.unit, g.signals[i]), name |-> g.signals[i].name]]
    IN  FlattenSeq([k \in DOMAIN Groups |-> Listed(Groups[k])])

Listings == Range(resolved_signals)
NoValue == {Missing, Null, Other}

ASSUME GroupsAssumption ==
    /\ Groups \in Seq(Range(Groups))
    /\ \A g \in Range(Groups) : g.signals \in Seq(Range(g.signals))

ASSUME RequestsAssumption ==
    /\ \A r \in Requests :
          /\ DOMAIN r = {"ref", "depth", "maxRefs", "cursor", "max"}
          /\ {r.maxRefs, r.cursor, r.max} \subseteq Int \cup NoValue
    /\ {PageDefault, PageMax, RefsDefault, RefsMax} \subseteq Nat \ {0}

\* A key without a value is no number and no ref.
ASSUME NoValueAssumption ==
    /\ NoValue \cap Int = {}
    /\ Missing \notin {Null, Other} /\ Null # Other
    /\ ({Root} \cup {s.id : s \in Listings}) \cap NoValue = {}

VARIABLES
    asked,        \* the latest request
    answer,       \* and the reply to it
    cursor,       \* the client's walk: where it goes on, Missing when it is done
    walked        \* and what it has been shown

walkVars == <<asked, answer, cursor, walked>>

WalkTypeOK ==
    /\ asked \in Requests \cup {Missing}
    /\ answer \in [code : {"ok", "BAD_ARGS"}, node : Listings \cup {Missing, Root},
                   entries : Seq(Listings), cursor : Nat \cup {Missing}, truncated : BOOLEAN]
    /\ cursor \in Nat \cup {Missing}
    /\ walked \in Seq(Listings)

Reply(node, entries, next, truncated) ==
    [code |-> "ok", node |-> node, entries |-> entries, cursor |-> next,
     truncated |-> truncated]

BadArgs == [Reply(Missing, <<>>, Missing, FALSE) EXCEPT !.code = "BAD_ARGS"]

WalkInit ==
    /\ asked = Missing
    /\ answer = BadArgs
    /\ cursor = Missing
    /\ walked = <<>>

-----------------------------------------------------------------------------

\* Mutant: the limit has no lower bound.
ClampedAbove(n, default, top) ==
    IF n \in NoValue THEN default ELSE IF n > top THEN top ELSE n

\* What is not an integer counts as absent.
Clamped(n, default, top) ==
    IF n \in NoValue THEN default
    ELSE IF n < 1 THEN 1 ELSE IF n > top THEN top ELSE n

FirstOf(n) ==
    LET all == Len(resolved_signals)
    IN  SubSeq(resolved_signals, 1, IF n < all THEN n ELSE all)

Mixed(r) ==
    LET tree == {"ref", "depth", "maxRefs"}
    IN  /\ \E k \in tree : r[k] # Missing
        /\ \/ \E k \in {"cursor", "max"} : r[k] # Missing
           \/ r.ref = Missing

\* One page: what the first next signals have and the first start have not.
Page(r) ==
    LET start == IF r.cursor \in {Missing, Null} THEN 0 ELSE r.cursor
        next == start + Clamped(r.max, PageDefault, PageMax)
        page == SubSeq(FirstOf(next), start + 1, Len(FirstOf(next)))
    IN  IF r.cursor = Other \/ start < 0 THEN BadArgs
        ELSE Reply(Missing, page,
                   IF next < Len(resolved_signals) THEN next ELSE Missing, FALSE)

\* Mutant: a list that is full counts as truncated.
TreeFull(r) ==
    LET limit == Clamped(r.maxRefs, RefsDefault, RefsMax)
        matches(s) == s.id = r.ref
        found == SelectInSeq(resolved_signals, matches)
    IN  IF r.ref \in NoValue THEN BadArgs
        ELSE IF r.ref = Root
        THEN Reply(Root, FirstOf(limit), Missing, Len(resolved_signals) >= limit)
        ELSE IF found = 0 THEN BadArgs
        ELSE Reply(resolved_signals[found], <<>>, Missing, FALSE)

\* _browse_hierarchical: the children of the root, or the first signal of that id.
Tree(r) ==
    LET limit == Clamped(r.maxRefs, RefsDefault, RefsMax)
        matches(s) == s.id = r.ref
        found == SelectInSeq(resolved_signals, matches)
    IN  IF r.ref \in NoValue THEN BadArgs
        ELSE IF r.ref = Root
        THEN Reply(Root, FirstOf(limit), Missing, Len(resolved_signals) > limit)
        ELSE IF found = 0 THEN BadArgs
        ELSE Reply(resolved_signals[found], <<>>, Missing, FALSE)

Paged(r) == r.ref = Missing

\* A page that was asked for where the client is goes on with its walk, one
\* without a cursor starts another.
Browse(r) ==
    /\ asked' = r
    /\ answer' = IF Mixed(r) THEN BadArgs ELSE IF Paged(r) THEN Page(r) ELSE Tree(r)
    /\ IF answer'.code = "ok" /\ Paged(r) /\ r.cursor \in {cursor, Missing, Null}
       THEN /\ walked' = (IF r.cursor = cursor /\ cursor # Missing THEN walked ELSE <<>>)
                            \o answer'.entries
            /\ cursor' = answer'.cursor
       ELSE UNCHANGED <<walked, cursor>>

\* sb/signals
AskSignals ==
    /\ asked' = Missing
    /\ answer' = Reply(Missing, resolved_signals, Missing, FALSE)
    /\ UNCHANGED <<cursor, walked>>

WalkNext == AskSignals \/ \E r \in Requests : Browse(r)

WalkSpec == WalkInit /\ [][WalkNext]_walkVars

-----------------------------------------------------------------------------
(* Safety.                                                                 *)

\* The pages of a walk are the list that sb/signals gives, nothing twice and
\* nothing left out, whatever sizes the client asks for, page by page, and
\* whatever else it asks meanwhile; a cursor means that there is more.
WalkIsComplete ==
    IF cursor = Missing THEN walked \in {<<>>, resolved_signals}
    ELSE /\ cursor \in 1..(Len(resolved_signals) - 1)
         /\ walked = FirstOf(cursor)

\* The tree and the walk show one inventory: below the root is the list, unless
\* the reply says that it is truncated, and what is listed can be opened by its
\* id (as a signal of that id, not always the one that was listed: ids repeat).
\* Nothing else can be opened.
TreeAgreesWithWalk ==
    asked # Missing /\ ~Mixed(asked) /\ ~Paged(asked) =>
        IF asked.ref = Root
        THEN /\ answer.code = "ok"
             /\ IsPrefix(answer.entries, resolved_signals)
             /\ answer.truncated <=> answer.entries # resolved_signals
        ELSE /\ answer.code = "ok" <=> asked.ref \in {s.id : s \in Listings}
             /\ answer.code = "ok" => answer.node \in Listings /\ answer.node.id = asked.ref

=============================================================================
