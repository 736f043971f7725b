---------------------------- MODULE InstanceState -------------------------
(***************************************************************************)
(* The state that an instance reports: instance_state.py (device_state and *)
(* instance_connectivity), status, state and is_paused of                  *)
(* command_service.py, and the latch of pause.py that sb/pause and         *)
(* sb/resume set.                                                          *)
(*                                                                         *)
(* Two surfaces report it: the reply of sb/status, which a console asks    *)
(* for, and the entry of the instance in the keepalive's instances[].      *)
(* Neither is read at once: each call of is_connected and of is_paused is  *)
(* a step, and no lock holds from one to the next.                         *)
(***************************************************************************)
EXTENDS Naturals

CONSTANTS
    Consoles,     \* threads that run sb/status
    Keepalive,    \* the thread that asks for the connectivity
    MaxReports,   \* bound on reports
    MaxFlips,     \* bound on changes of the link
    MaxSwitches   \* bound on sb/pause and sb/resume commands

Readers == Consoles \cup {Keepalive}

ASSUME ReadersAssumption == Keepalive \notin Consoles
ASSUME ReportsAssumption == {MaxReports, MaxFlips, MaxSwitches} \subseteq Nat

VARIABLES
    registered,   \* devices has the instance
    link,         \* ModbusConnection._connected
    paused,       \* PauseState._paused
    reading,      \* what each reader reads next
    view,         \* what it has read so far
    witness,      \* history: what link and paused were since it began
    reports, flips, switches    \* environment: how many so far

stateBounds == <<reports, flips, switches>>
stateVars == <<registered, link, paused, reading, view, witness, stateBounds>>

NoView == [found |-> FALSE, paused |-> FALSE, link |-> FALSE, connected |-> FALSE,
           latch |-> FALSE]

StateTypeOK ==
    /\ registered \in BOOLEAN /\ link \in BOOLEAN /\ paused \in BOOLEAN
    /\ reading \in [Readers -> {"nothing", "paused", "link", "connected", "latch", "done"}]
    /\ view \in [Readers -> [DOMAIN NoView -> BOOLEAN]]
    /\ witness \in [Readers -> [link : SUBSET BOOLEAN, paused : SUBSET BOOLEAN]]
    /\ reports \in Nat /\ flips \in Nat /\ switches \in Nat

StateInit ==
    /\ registered = FALSE
    /\ link = FALSE
    /\ paused = FALSE
    /\ reading = [r \in Readers |-> "nothing"]
    /\ view = [r \in Readers |-> NoView]
    /\ witness = [r \in Readers |-> [link |-> {}, paused |-> {}]]
    /\ reports = 0 /\ flips = 0 /\ switches = 0

-----------------------------------------------------------------------------
(* What changes the state.  The histories of the reports under way see it. *)

Change(newLink, newPaused) ==
    /\ link' = newLink
    /\ paused' = newPaused
    /\ witness' = [r \in Readers |->
          IF reading[r] = "nothing" THEN witness[r]
          ELSE [link |-> witness[r].link \cup {newLink},
                paused |-> witness[r].paused \cup {newPaused}]]

\* The worker has connected the device and registers it.  The polls have begun
\* before, and may have lost the link already.
RegisterDevice ==
    /\ ~registered
    /\ registered' = TRUE
    /\ \E up \in BOOLEAN : Change(up, paused)
    /\ UNCHANGED <<reading, view, stateBounds>>

\* _set_connected, by whatever read (ModbusConnection).
FlipLink ==
    /\ registered
    /\ flips < MaxFlips
    /\ flips' = flips + 1
    /\ Change(~link, paused)
    /\ UNCHANGED <<registered, reading, view, reports, switches>>

\* sb/pause (value TRUE) and sb/resume: PauseState.set, under its lock.
Set(value) ==
    /\ registered
    /\ switches < MaxSwitches
    /\ switches' = switches + 1
    /\ Change(link, value)
    /\ UNCHANGED <<registered, reading, view, reports, flips>>

-----------------------------------------------------------------------------
(* The reports.  sb/status reads is_paused and is_connected for the token, *)
(* then is_connected and is_paused again.  The keepalive reads             *)
(* is_connected, then is_paused and is_connected for the token.            *)

After(r, what) ==
    CASE what = "paused" -> "link"
      [] what = "link" -> IF r = Keepalive THEN "done" ELSE "connected"
      [] what = "connected" -> IF r = Keepalive THEN "paused" ELSE "latch"
      [] what = "latch" -> "done"

StartReport(r, first, start) ==
    /\ reports < MaxReports
    /\ reports' = reports + 1
    /\ reading[r] = "nothing"
    /\ reading' = [reading EXCEPT ![r] = first]
    /\ view' = [view EXCEPT ![r] = start]
    /\ witness' = [witness EXCEPT ![r] = [link |-> {link}, paused |-> {paused}]]
    /\ UNCHANGED <<registered, link, paused, flips, switches>>

\* Only a registered device serves commands.
AskStatus(c) == registered /\ StartReport(c, "paused", [NoView EXCEPT !.found = TRUE])

\* devices.get: without a device the entry is complete.
BeginEntry ==
    StartReport(Keepalive, IF registered THEN "connected" ELSE "done",
                [NoView EXCEPT !.found = registered])

Read(r, what, fact) ==
    /\ reading[r] = what
    /\ reading' = [reading EXCEPT ![r] = After(r, what)]
    /\ view' = [view EXCEPT ![r] = [@ EXCEPT ![what] = fact]]
    /\ UNCHANGED <<registered, link, paused, witness, stateBounds>>

Observe(r) ==
    \/ Read(r, "paused", paused)
    \/ Read(r, "link", link)
    \/ Read(r, "connected", link)
    \/ Read(r, "latch", paused)

Send(r) ==
    /\ reading[r] = "done"
    /\ reading' = [reading EXCEPT ![r] = "nothing"]
    /\ view' = [view EXCEPT ![r] = NoView]
    /\ witness' = [witness EXCEPT ![r] = [link |-> {}, paused |-> {}]]
    /\ UNCHANGED <<registered, link, paused, stateBounds>>

\* Mutant: the pause hides the link.
DeviceStatePauseWins(isPaused, isConnected) ==
    IF isPaused THEN "PAUSED" ELSE IF isConnected THEN "ONLINE" ELSE "BACKOFF"

\* device_state
DeviceState(isPaused, isConnected) ==
    IF ~isConnected THEN "BACKOFF" ELSE IF isPaused THEN "PAUSED" ELSE "ONLINE"

Token(r) ==
    IF view[r].found THEN DeviceState(view[r].paused, view[r].link) ELSE "CONNECTING"

-----------------------------------------------------------------------------

StateNext ==
    \/ RegisterDevice
    \/ FlipLink
    \/ \E value \in BOOLEAN : Set(value)
    \/ \E c \in Consoles : AskStatus(c)
    \/ BeginEntry
    \/ \E r \in Readers : Observe(r) \/ Send(r)

StateSpec == StateInit /\ [][StateNext]_stateVars

-----------------------------------------------------------------------------
(* Safety.                                                                 *)

\* What a report says was true while it was read, and so two reports of a state
\* that does not change meanwhile agree ("a pulled answer can never disagree with
\* a pushed one", instance_state.py:9).  Link truth wins: a link that is down all
\* along is never hidden by a pause.
ReportIsWitnessed ==
    \A r \in Readers : reading[r] = "done" /\ view[r].found =>
        /\ view[r].connected \in witness[r].link
        /\ r \in Consoles => view[r].latch \in witness[r].paused
        /\ Token(r) = "BACKOFF" => FALSE \in witness[r].link
        /\ Token(r) = "PAUSED" => TRUE \in witness[r].link /\ TRUE \in witness[r].paused
        /\ Token(r) = "ONLINE" => TRUE \in witness[r].link /\ FALSE \in witness[r].paused

=============================================================================
