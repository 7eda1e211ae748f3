------------------------------ MODULE DesktopQueue ------------------------------
(***************************************************************************)
(* The durable queue of the desktop program between the screen of one      *)
(* position and the backend (src/taksklad/backend_events.py, storage.py,   *)
(* app_scanning.py, app_data_loading.py, app_finish.py, backend_flow.py).  *)
(*                                                                         *)
(* The operator scans codes and takes them back on the screen (Tk) thread. *)
(* Every code goes through a queue in SQLite that passes send to the       *)
(* backend: a pass of a timer or of a refresh in the background, one that  *)
(* saves the position and one that finishes the order.  One lock lets one  *)
(* pass run at a time; the queue is not locked while a pass runs.          *)
(*                                                                         *)
(* The order has this one position, of Plan blocks, and codes of one block.*)
(* The duplicate check of the screen is left out: any code that is not on  *)
(* the screen may be scanned.  No other station works on the position.     *)
(***************************************************************************)
EXTENDS Naturals, FiniteSets, Sequences, SequencesExt, QueueOps

CONSTANTS              \* and Codes and Plan, the blocks of the position
    Done,              \* the order_complete event of the order
    MaxTurns,          \* bound: undos, refreshes, restarts and codes taken elsewhere
    CrashBeforeRecord  \* may the program die before it records the refused events?

ASSUME CodesAssumption == IsFiniteSet(Codes)
ASSUME DoneAssumption == Done \notin Codes
ASSUME PlanAssumption == Plan \in Nat \ {0}
ASSUME TurnsAssumption == MaxTurns \in Nat
ASSUME CrashAssumption == CrashBeforeRecord \in BOOLEAN

Events == Codes \cup {Done}

VARIABLES
    \* the backend
    server,      \* the codes of the scans of the position
    closed,      \* is the order completed?
    elsewhere,   \* the codes other orders hold
    \* durable on the workstation
    queue,       \* pending_backend_events
    serverError, \* the queued events whose last_error_kind is "server"
    refused,     \* blocked_backend_events
    \* memory of the program
    position,    \* "open", "saved" or, when scanning is over, "off"
    saved,       \* the first saved_codes_count codes of the screen
    unsaved,     \* the other codes of the screen
    existing,    \* _existing_scanned_codes of the position
    delivered,   \* _DELIVERED_SCAN_KEYS
    pass,        \* the running pass over the queue
    save,        \* next_product
    finish,      \* complete_work of finish_legal_entity
    notice,      \* refused codes the timer's pass has yet to take off the screen
    remote,      \* the list of orders a refresh has fetched and not yet applied
    \* history
    accepted,    \* codes scanned and not asked back since
    again,       \* codes queued while a running pass already had an event of theirs
    takenBack,   \* codes taken back and not scanned or shown again since
    turns,       \* undos, refreshes, restarts and codes taken elsewhere so far
    undoTried    \* was a code of the position asked back since it was loaded?

backend == <<server, closed, elsewhere>>
durable == <<queue, serverError, refused>>
screen == <<position, saved, unsaved, existing>>
history == <<accepted, again, takenBack, undoTried, turns>>
vars == <<backend, durable, screen, delivered, pass, save, finish, notice, remote, history>>

Background == {"timer", "refresh"}
IdlePass ==
    [pc |-> "idle", by |-> "timer", todo |-> <<>>, answer |-> "ok", processed |-> {},
     kept |-> {}, failed |-> {}, blocked |-> {}]
IdleSave == [pc |-> "idle", codes |-> {}, unsaved |-> {}, round |-> 1, blocked |-> {}]
IdleFinish == [pc |-> "idle", blocked |-> {}]
NoRemote == [fetched |-> FALSE, codes |-> {}, closed |-> FALSE]

Init ==
    /\ server = {} /\ closed = FALSE /\ elsewhere = {}
    /\ queue = <<>> /\ serverError = {} /\ refused = {}
    /\ position = "open" /\ saved = {} /\ unsaved = {} /\ existing = {}
    /\ delivered = {}
    /\ pass = IdlePass /\ save = IdleSave /\ finish = IdleFinish
    /\ notice = {}
    /\ remote = NoRemote
    /\ accepted = {} /\ again = {} /\ takenBack = {} /\ undoTried = FALSE /\ turns = 0

-----------------------------------------------------------------------------
Queued == ToSet(queue)
OnScreen == saved \cup unsaved
\* Codes whose events the running pass took from the queue
InPass == IF pass.pc = "idle" THEN {} ELSE pass.processed \cup ToSet(pass.todo)
Busy == save.pc # "idle"

\* append_queue_item: an event that is already queued stays as it is.
Appended(q, e) == IF e \in ToSet(q) THEN q ELSE Append(q, e)
AppendAll(q, S) == q \o SetToSeq(S \ ToSet(q))

\* What the backend says to an event (create_scan, complete_order).
Verdict(e) ==
    CASE e \in server -> "ok"
      [] e \in Codes \ server ->
            IF ~closed /\ e \notin elsewhere /\ Cardinality(server) < Plan
            THEN "ok" ELSE "refused"
      [] e = Done -> IF closed \/ Cardinality(server) >= Plan THEN "ok" ELSE "refused"

\* The backend does what it is asked to, unless it refuses.
Execute(e) ==
    /\ server' = IF e \in Codes /\ Verdict(e) = "ok" THEN server \cup {e} ELSE server
    /\ closed' = (closed \/ (e = Done /\ Verdict(e) = "ok"))
    /\ UNCHANGED elsewhere

\* A call is answered, or its answer is lost (or an error) after or before it
\* took effect.
Call(e, answer) ==
    IF answer = "ok" \/ answer = "refused"
    THEN answer = Verdict(e) /\ Execute(e)
    ELSE Execute(e) \/ UNCHANGED backend

\* One more of what the bound MaxTurns counts.
Turn == turns < MaxTurns /\ turns' = turns + 1

\* Other orders take and give back codes.
Elsewhere(c) ==
    /\ Turn
    /\ c \notin server
    /\ elsewhere' = IF c \in elsewhere THEN elsewhere \ {c} ELSE elsewhere \cup {c}
    /\ UNCHANGED <<server, closed, durable, screen, delivered, pass, save, finish, notice,
                   remote, accepted, again, takenBack, undoTried>>

-----------------------------------------------------------------------------
\* The screen.

\* process_scan
Scan(c) ==
    /\ position = "open"
    /\ ~Busy
    /\ c \notin OnScreen
    /\ Cardinality(OnScreen) < Plan
    /\ unsaved' = unsaved \cup {c}
    /\ queue' = Appended(queue, c)
    /\ delivered' = IF c \in Queued THEN delivered ELSE delivered \ {c}
    /\ accepted' = accepted \cup {c}
    /\ again' = again \cup ({c} \cap InPass)
    /\ takenBack' = takenBack \ {c}
    /\ UNCHANGED <<backend, serverError, refused, position, saved, existing, pass, save,
                   finish, notice, remote, undoTried, turns>>

\* undo_scan_at_index takes code c off the screen and out of the queue.
TakeOff(c) ==
    /\ saved' = saved \ {c}
    /\ unsaved' = unsaved \ {c}
    /\ existing' = OnScreen \ {c}
    /\ queue' = Without(queue, {c})
    /\ serverError' = serverError \ {c}
    /\ delivered' = delivered \ {c}
    /\ takenBack' = takenBack \cup {c}
    /\ UNCHANGED <<position, refused>>

MayUndo(c) == position = "open" /\ ~Busy /\ c \in OnScreen

UndoTried(c) ==
    /\ Turn
    /\ accepted' = accepted \ {c}
    /\ undoTried' = TRUE
    /\ UNCHANGED <<again, pass, save, finish, notice, remote>>

\* The undo ends on the workstation: the code is not a saved one, or it was
\* still queued (undo_backend_scan, "removed_from_queue").
UndoLocally(c) ==
    /\ MayUndo(c)
    /\ c \in saved => c \in Queued
    /\ TakeOff(c)
    /\ UndoTried(c)
    /\ UNCHANGED backend

\* The backend is asked to undo the scan, and does.
UndoOnServer(c) ==
    /\ MayUndo(c)
    /\ c \in saved \ Queued
    /\ ~closed
    /\ c \in server
    /\ server' = server \ {c}
    /\ TakeOff(c)
    /\ UndoTried(c)
    /\ UNCHANGED <<closed, elsewhere>>

\* It refuses, or the answer is lost; the code stays on the screen.
UndoFails(c) ==
    /\ MayUndo(c)
    /\ c \in saved \ Queued
    /\ server' \in IF closed THEN {server} ELSE {server, server \ {c}}
    /\ delivered' = delivered \ {c}
    /\ UndoTried(c)
    /\ UNCHANGED <<closed, elsewhere, durable, screen, takenBack>>

\* apply_backend_blocked_scan_events, in the callback of the timer's pass
TakeNotice ==
    /\ notice # {}
    /\ notice' = {}
    /\ IF position = "open"
       THEN saved' = saved \ notice /\ unsaved' = unsaved \ notice
       ELSE UNCHANGED <<saved, unsaved>>
    /\ UNCHANGED <<backend, durable, position, existing, delivered, pass, save, finish,
                   remote, history>>

\* fetch_sheet_data_with_sync, after its pass
RefreshFetch ==
    /\ Turn
    /\ ~remote.fetched
    /\ remote' = [fetched |-> TRUE, codes |-> server, closed |-> closed]
    /\ UNCHANGED <<backend, durable, screen, delivered, pass, save, finish, notice, accepted,
                   again, takenBack, undoTried>>

\* reconcile_current_order_after_refresh, on the screen thread some time later.
\* The list holds open orders only: a closed one is no longer scanned.
RefreshApply ==
    /\ remote.fetched
    /\ remote' = NoRemote
    /\ IF position = "open" /\ ~remote.closed
       THEN /\ saved' = remote.codes
            /\ unsaved' = unsaved \ remote.codes
            /\ existing' = remote.codes
            /\ takenBack' = takenBack \ remote.codes
            /\ UNCHANGED position
       ELSE /\ position' = IF remote.closed THEN "off" ELSE position
            /\ UNCHANGED <<saved, unsaved, existing, takenBack>>
    /\ UNCHANGED <<backend, durable, delivered, pass, save, finish, notice, accepted, again,
                   undoTried, turns>>

-----------------------------------------------------------------------------
\* sync_pending_backend_events

Waiting == save.pc = "waiting" \/ finish.pc = "waiting"

StartPass(by, todo) ==
    /\ pass.pc = "idle"
    /\ pass' = [IdlePass EXCEPT !.pc = "next", !.by = by, !.todo = todo,
                                !.failed = serverError \cap ToSet(todo)]
    /\ UNCHANGED <<backend, durable, screen, delivered, notice, remote, history>>

StartBackground(by) ==
    /\ queue # <<>>
    /\ StartPass(by, queue)
    /\ UNCHANGED <<save, finish>>

StartSavePass ==
    /\ save.pc = "waiting"
    /\ StartPass("save", Without(queue, {Done}))
    /\ save' = [save EXCEPT !.pc = "syncing"]
    /\ UNCHANGED finish

StartFinishPass ==
    /\ finish.pc = "waiting"
    /\ StartPass("finish", queue)
    /\ finish' = [finish EXCEPT !.pc = "syncing"]
    /\ UNCHANGED save

Preempted == pass.by \in Background /\ Waiting

\* The next event of the pass is sent to the backend ...
Send ==
    /\ pass.pc = "next"
    /\ pass.todo # <<>>
    /\ ~Preempted
    /\ \E answer \in {"ok", "refused", "network", "server"} :
          /\ Call(Head(pass.todo), answer)
          /\ pass' = [pass EXCEPT !.pc = "answered", !.answer = answer]
    /\ UNCHANGED <<durable, screen, delivered, save, finish, notice, remote, history>>

\* ... and its answer is dealt with.
Handled(e, p) == [p EXCEPT !.pc = "next", !.todo = Tail(p.todo), !.processed = @ \cup {e}]

\* Mutant: the events behind one that met a broken connection are forgotten.
UntriedForgotten(p) == {}

\* The events that a broken connection keeps from being tried.
Untried(p) == ToSet(Tail(p.todo))

Answer ==
    LET e == Head(pass.todo)
        p == Handled(e, pass)
    IN  /\ pass.pc = "answered"
        /\ CASE pass.answer = "ok" ->
                  /\ pass' = p
                  /\ delivered' = delivered \cup ({e} \cap Codes)
             [] pass.answer = "refused" ->
                  /\ pass' = [p EXCEPT !.blocked = @ \cup {e}]
                  /\ delivered' = delivered \ {e}
             [] pass.answer = "server" ->
                  /\ pass' = [p EXCEPT !.kept = @ \cup {e}, !.failed = @ \cup {e}]
                  /\ delivered' = delivered \ {e}
             [] pass.answer = "network" ->
                  /\ pass' = [p EXCEPT !.todo = <<>>,
                                       !.processed = @ \cup ToSet(p.todo),
                                       !.kept = @ \cup {e} \cup Untried(pass),
                                       !.failed = @ \ {e}]
                  /\ delivered' = delivered \ {e}
        /\ UNCHANGED <<backend, durable, screen, save, finish, notice, remote, history>>

\* Mutant: the queue becomes what the pass left over, whatever happened to it since.
ReconciledBlindly(p) == SetToSeq(p.kept \cup (Queued \ p.processed))

\* reconcile_queue_section: of the events the pass dealt with, only those it kept
\* stay, and of those only the ones that are still queued.
Reconciled(p) == Without(queue, p.processed \ p.kept)

Reconcile ==
    /\ pass.pc = "next"
    /\ pass.todo = <<>> \/ Preempted
    /\ queue' = Reconciled(pass)
    /\ serverError' = ((serverError \ pass.processed) \cup (pass.failed \cap pass.kept))
                          \cap ToSet(queue')
    /\ pass' = [pass EXCEPT !.pc = "recording"]
    /\ UNCHANGED <<backend, refused, screen, delivered, save, finish, notice, remote, history>>

\* record_blocked_backend_events; the lock is given back and the pass answers its
\* caller.  The pass of a refresh does not show what was refused.
Record ==
    /\ pass.pc = "recording"
    /\ refused' = refused \cup pass.blocked
    /\ notice' = IF pass.by = "timer" THEN notice \cup (pass.blocked \cap Codes) ELSE notice
    /\ save' = IF pass.by = "save"
               THEN [save EXCEPT !.pc = "synced", !.blocked = pass.blocked] ELSE save
    /\ finish' = IF pass.by = "finish"
                 THEN [finish EXCEPT !.pc = "synced", !.blocked = pass.blocked] ELSE finish
    /\ pass' = IdlePass
    /\ UNCHANGED <<backend, queue, serverError, screen, delivered, remote, history>>

-----------------------------------------------------------------------------
\* next_product: save the position.

\* Mutant: a code the queue no longer holds counts as delivered.
UndeliveredIfQueued(s) == s.unsaved \cap Queued

\* The codes to save that no pass has delivered.
Undelivered(s) == s.unsaved \ delivered

\* unsaved_backend_scan_codes skips the codes in _existing_scanned_codes.
StartSave ==
    /\ position = "open"
    /\ ~Busy
    /\ Cardinality(OnScreen) = Plan
    /\ save' = [IdleSave EXCEPT !.pc = "queueing", !.codes = OnScreen,
                                !.unsaved = OnScreen \ existing]
    /\ UNCHANGED <<backend, durable, screen, delivered, pass, finish, notice, remote, history>>

SaveQueue ==
    /\ save.pc = "queueing"
    /\ queue' = AppendAll(queue, Undelivered(save))
    /\ save' = [save EXCEPT !.pc = "waiting"]
    /\ UNCHANGED <<backend, serverError, refused, screen, delivered, pass, finish, notice,
                   remote, history>>

PositionPending == Queued \cap Codes # {}

\* The pass left nothing of the position and all codes to save are delivered.
SaveDone ==
    /\ save.pc = "synced"
    /\ save.blocked = {}
    /\ ~PositionPending
    /\ Undelivered(save) = {}
    /\ save' = IdleSave
    /\ position' = "saved"
    /\ saved' = save.codes
    /\ unsaved' = {}
    /\ existing' = save.codes
    /\ UNCHANGED <<backend, durable, delivered, pass, finish, notice, remote, history>>

\* A pass of the background took a code away and was refused: once more.
SaveAgain ==
    /\ save.pc = "synced"
    /\ save.blocked = {}
    /\ ~PositionPending
    /\ Undelivered(save) # {}
    /\ save.round = 1
    /\ save' = [save EXCEPT !.pc = "queueing", !.round = 2]
    /\ UNCHANGED <<backend, durable, screen, delivered, pass, finish, notice, remote, history>>

\* A code was refused, is still pending, or is undelivered after two rounds.
SaveFails ==
    /\ save.pc = "synced"
    /\ save.blocked # {} \/ PositionPending \/ (save.round = 2 /\ Undelivered(save) # {})
    /\ save' = IdleSave
    /\ saved' = saved \ save.blocked
    /\ unsaved' = unsaved \ save.blocked
    /\ UNCHANGED <<backend, durable, position, existing, delivered, pass, finish, notice,
                   remote, history>>

-----------------------------------------------------------------------------
\* complete_work of finish_legal_entity, after the sheet is printed

StartFinish ==
    /\ position = "saved"
    /\ finish.pc = "idle"
    /\ finish' = [IdleFinish EXCEPT !.pc = "waiting"]
    /\ UNCHANGED <<backend, durable, screen, delivered, pass, save, notice, remote, history>>

\* Events are left over.  If all of them met a broken connection, the completion
\* is queued behind them.
FinishBlocked ==
    /\ finish.pc = "synced"
    /\ finish.blocked # {} \/ queue # <<>>
    /\ queue' = IF finish.blocked = {} /\ serverError = {} THEN Appended(queue, Done) ELSE queue
    /\ finish' = IdleFinish
    /\ UNCHANGED <<backend, serverError, refused, screen, delivered, pass, save, notice,
                   remote, history>>

\* complete_backend_orders_or_raise: the completion is queued before it is sent ...
FinishQueue ==
    /\ finish.pc = "synced"
    /\ finish.blocked = {}
    /\ queue = <<>>
    /\ queue' = Appended(queue, Done)
    /\ finish' = [finish EXCEPT !.pc = "completing"]
    /\ UNCHANGED <<backend, serverError, refused, screen, delivered, pass, save, notice,
                   remote, history>>

\* ... and taken out of the queue if the backend accepts it.
FinishCall ==
    /\ finish.pc = "completing"
    /\ \E answer \in {"ok", "refused", "network"} :
          /\ Call(Done, answer)
          /\ IF answer = "ok"
             THEN /\ queue' = Without(queue, {Done})
                  /\ serverError' = serverError \ {Done}
                  /\ position' = "off"
             ELSE UNCHANGED <<queue, serverError, position>>
    /\ finish' = IdleFinish
    /\ UNCHANGED <<refused, saved, unsaved, existing, delivered, pass, save, notice, remote,
                   history>>

-----------------------------------------------------------------------------
\* The program dies; started again, it shows what the backend has.
Restart ==
    /\ Turn
    /\ pass.pc # "recording" \/ CrashBeforeRecord
    /\ position' = IF closed THEN "off" ELSE "open"
    /\ saved' = server
    /\ existing' = server
    /\ unsaved' = {}
    /\ delivered' = {}
    /\ pass' = IdlePass
    /\ save' = IdleSave
    /\ finish' = IdleFinish
    /\ notice' = {}
    /\ remote' = NoRemote
    /\ takenBack' = takenBack \ server
    /\ undoTried' = FALSE
    /\ UNCHANGED <<backend, durable, accepted, again>>

-----------------------------------------------------------------------------
ScreenStep ==
    \/ \E c \in Codes : Scan(c) \/ UndoLocally(c) \/ UndoOnServer(c) \/ UndoFails(c)
    \/ StartSave \/ StartFinish
    \/ TakeNotice \/ RefreshFetch \/ RefreshApply

PassStep == Send \/ Answer \/ Reconcile \/ Record

SaveStep == SaveQueue \/ StartSavePass \/ SaveDone \/ SaveAgain \/ SaveFails

FinishStep == StartFinishPass \/ FinishBlocked \/ FinishQueue \/ FinishCall

Next ==
    \/ ScreenStep
    \/ PassStep
    \/ SaveStep
    \/ FinishStep
    \/ \E by \in Background : StartBackground(by)
    \/ \E c \in Codes : Elsewhere(c)
    \/ Restart

Spec == Init /\ [][Next]_vars

-----------------------------------------------------------------------------
\* Types.  "processed" holds the events the pass dealt with, "kept" those of them
\* it leaves in the queue, "failed" those whose last error came from the server.
PassType ==
    [pc : {"idle", "next", "answered", "recording"},
     by : {"timer", "refresh", "save", "finish"},
     todo : Seq(Events),
     answer : {"ok", "refused", "network", "server"},
     processed : SUBSET Events, kept : SUBSET Events,
     failed : SUBSET Events, blocked : SUBSET Events]
SaveType ==
    [pc : {"idle", "queueing", "waiting", "syncing", "synced"},
     codes : SUBSET Codes, unsaved : SUBSET Codes, round : {1, 2}, blocked : SUBSET Events]
FinishType ==
    [pc : {"idle", "waiting", "syncing", "synced", "completing"}, blocked : SUBSET Events]

\* The queue holds an event once at most, a code of the screen is saved or not, and
\* what a pass keeps or reports it has dealt with; an answer is to an event.
TypeOK ==
    /\ server \subseteq Codes /\ elsewhere \subseteq Codes /\ closed \in BOOLEAN
    /\ queue \in Seq(Events) /\ IsInjective(queue)
    /\ serverError \subseteq Queued /\ refused \subseteq Events
    /\ position \in {"open", "saved", "off"}
    /\ saved \subseteq Codes /\ unsaved \subseteq Codes /\ existing \subseteq Codes
    /\ saved \cap unsaved = {}
    /\ delivered \subseteq Codes /\ notice \subseteq Codes
    /\ pass \in PassType /\ pass.kept \cup pass.blocked \subseteq pass.processed
    /\ pass.pc = "answered" => pass.todo # <<>>
    /\ save \in SaveType /\ finish \in FinishType
    /\ remote \in [fetched : BOOLEAN, codes : SUBSET Codes, closed : BOOLEAN]
    /\ accepted \subseteq Codes /\ again \subseteq Codes /\ takenBack \subseteq Codes
    /\ undoTried \in BOOLEAN /\ turns \in 0..MaxTurns

\* A scan lives somewhere until it is asked back: the backend has it, or the queue,
\* or the record of refused events, or the pass that is about to write that record.
Kept == server \cup Queued \cup refused \cup pass.blocked

\* A code the operator scanned and did not ask back is kept somewhere, whatever
\* connection, backend, other orders and restarts do, as long as the program does
\* not die between reconcile_queue_section and record_blocked_backend_events
\* (CrashBeforeRecord) and the code was not queued again while a running pass still
\* held an earlier event of it (again).
NothingLost == accepted \ again \subseteq Kept

\* What fetch_sheet_data_with_sync says of a pass: «что не ушло, остаётся в очереди».
\* A code undone on the backend and scanned again while a pass runs breaks it:
\* reconcile_queue_section drops the new event with the old one's answer, for the
\* identifier of an event is made from the position and the code alone.
NothingLostEver == accepted \subseteq Kept

\* A code the operator took back does not come back into the queue by itself: a pass
\* that still holds its event must not write it back (reconcile_queue_section).
NotResurrected == takenBack \cap Queued = {}

\* A position the program shows as saved is saved: the backend has every code of it.
\* Holds as long as no code of the position was taken back: undo_scan_at_index counts
\* every code left on the screen, delivered or not, as one that need not be checked.
SavedIsOnServer == position = "saved" /\ ~undoTried => saved \subseteq server

\* What undo_scan_at_index promises: a code taken back is free again, for the backend
\* does not have it, unless a running pass is about to send it.  A code a pass of the
\* background delivered is not a saved one, so the backend is not asked to undo it.
UndoneIsFreed == \A c \in takenBack : c \in server => c \in ToSet(pass.todo)
=============================================================================
