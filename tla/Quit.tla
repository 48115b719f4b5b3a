--------------------------------- MODULE Quit ---------------------------------
(***************************************************************************)
(* Ending the application: the close button and the tray's Quit, the       *)
(* handshake in which the window stores what it holds, the question about  *)
(* transfers and edits with the timer behind it, the icon of a hidden      *)
(* window, and winding down.                                               *)
(***************************************************************************)
EXTENDS Naturals, Sequences

CONSTANTS
    Closes,         \* how often the close button is clicked
    TrayClicks,     \* how often the window is minimized, and Show or Quit
                    \* chosen in the tray
    WorldSteps,     \* how often a transfer or an edit comes or goes, and a
                    \* setting or a tab changes
    ModelsInFlight, \* models on their way to the backend at once
    Writers         \* who registered a shutdown writer: the settings, the tabs

ASSUME QuitAssumption ==
    Closes \in Nat /\ TrayClicks \in Nat /\ WorldSteps \in Nat /\ ModelsInFlight \in Nat \ {0}

VARIABLES
    handshake,   \* pending_flush, and what each caller of flush_renderer heard
    writers,     \* per writer, whether its state is on the disk
    flushes,     \* flushShutdownState: asked for, running, answered
    closing,     \* per click, on_close_requested
    shutdown,    \* run and wind_down
    trayModel,   \* the backend's TrayModel, and whether a timer still waits
    models,      \* models on their way to the backend
    question,    \* useQuitWhenIdle
    requests,    \* quitRequested events and app_quit commands on their way
    tray,        \* the window, TrayInner.hidden, the icon, what is scheduled
    around,       \* transfers running, edits not uploaded, clicks left
    wish,        \* history: what the user said last
    owing         \* history: what was not stored when winding down began

quitVars == <<handshake, writers, flushes, closing, shutdown, trayModel, models, question,
              requests, tray, around, wish, owing>>

Run == 0                      \* the handshake of run; click c's is c
Owners == 0..Closes
Model == [active : BOOLEAN, prompt : BOOLEAN]

QuitTypeOK ==
    /\ handshake \in [pending : SUBSET Owners,
                      heard : [Owners -> {"idle", "waiting", "saved", "failed", "dropped"}]]
    /\ writers \in [Writers -> {"stored", "changed", "writing", "again"}]
    /\ flushes \in [asked : Seq(Owners), running : SUBSET Owners, waits : [Owners -> SUBSET Writers],
                    failed : SUBSET Owners, acks : SUBSET [of : Owners, ok : BOOLEAN]]
    /\ closing \in [1..Closes -> {"idle", "flushing", "over"}]
    /\ shutdown \in [at : {"none", "begun", "flushing", "cleaning", "exited"}, excused : BOOLEAN]
    /\ trayModel \in [model : Model, waiting : BOOLEAN]
    /\ models \in Seq(Model)
    /\ question \in [prompt : BOOLEAN, pending : BOOLEAN, edits : BOOLEAN, quitting : BOOLEAN]
    /\ requests \in [asks : Seq(BOOLEAN), quits : SUBSET BOOLEAN]
    /\ tray \in [visible : BOOLEAN, hidden : BOOLEAN, icon : BOOLEAN, showing : BOOLEAN,
                 removals : 0..TrayClicks]
    /\ around \in [active : BOOLEAN, edits : BOOLEAN, left : 0..WorldSteps,
                  clicks : 0..TrayClicks]
    /\ wish \in {"none", "quit", "stay"}
    /\ owing \in SUBSET Writers

QuitInit ==
    /\ handshake = [pending |-> {}, heard |-> [o \in Owners |-> "idle"]]
    /\ writers = [w \in Writers |-> "stored"]
    /\ flushes = [asked |-> <<>>, running |-> {}, waits |-> [o \in Owners |-> {}], failed |-> {},
                  acks |-> {}]
    /\ closing = [c \in 1..Closes |-> "idle"]
    /\ shutdown = [at |-> "none", excused |-> FALSE]
    /\ trayModel = [model |-> [active |-> FALSE, prompt |-> FALSE], waiting |-> FALSE]
    /\ models = <<>>
    /\ question = [prompt |-> FALSE, pending |-> FALSE, edits |-> FALSE, quitting |-> FALSE]
    /\ requests = [asks |-> <<>>, quits |-> {}]
    /\ tray = [visible |-> TRUE, hidden |-> FALSE, icon |-> FALSE, showing |-> FALSE,
               removals |-> 0]
    /\ around = [active |-> FALSE, edits |-> FALSE, left |-> WorldSteps, clicks |-> TrayClicks]
    /\ wish = "none"
    /\ owing = {}

Running == shutdown.at # "exited"

savingVars == <<handshake, writers, flushes, owing>>
askingVars == <<trayModel, models, question, requests>>
-----------------------------------------------------------------------------
(* The handshake *)

\* request_flush and the event: a newer request takes the only place, and
\* the older one's receiver hears that its sender is gone.
RequestFlush(o) ==
    /\ handshake' = [pending |-> {o},
                     heard |-> [h \in Owners |->
                                  CASE h = o -> "waiting"
                                    [] h # o /\ h \in handshake.pending -> "dropped"
                                    [] OTHER -> handshake.heard[h]]]
    /\ flushes' = [flushes EXCEPT !.asked = Append(@, o)]

\* wait_for_flush ended: a word came, or the deadline passed with none.  The
\* place is then taken back, if it is still o's.
Waited(o) ==
    /\ handshake.heard[o] # "idle"
    /\ handshake' = [handshake EXCEPT !.pending = @ \ {o}]

\* The event reached the window: every writer is told to write what changed.
StartFlush ==
    /\ Running /\ flushes.asked # <<>>
    /\ LET o == Head(flushes.asked) IN
          flushes' = [flushes EXCEPT
                        !.asked = Tail(@), !.running = @ \cup {o},
                        !.waits[o] = {w \in Writers : writers[w] # "stored"}]
    /\ writers' = [w \in Writers |-> IF writers[w] = "changed" THEN "writing" ELSE writers[w]]
    /\ UNCHANGED <<handshake, owing, closing, shutdown, askingVars, tray, around, wish>>

\* The debounce of a writer ended.
Debounced(w) ==
    /\ Running /\ writers[w] = "changed"
    /\ writers' = [writers EXCEPT ![w] = "writing"]
    /\ UNCHANGED <<handshake, flushes, owing, closing, shutdown, askingVars, tray, around, wish>>

\* A write ended.  What changed meanwhile is written next, by the same drain;
\* a refusal with nothing newer fails the flushes that wait for it.
WriteEnds(w, ok) ==
    /\ Running /\ writers[w] \in {"writing", "again"}
    /\ LET settled == writers[w] = "writing"
           waiters == {o \in flushes.running : w \in flushes.waits[o]}
       IN /\ writers' = [writers EXCEPT ![w] = CASE ~settled -> "writing"
                                                 [] settled /\ ok -> "stored"
                                                 [] settled /\ ~ok -> "changed"]
          /\ flushes' = IF settled
                        THEN [flushes EXCEPT !.waits = [o \in Owners |-> @[o] \ {w}],
                                             !.failed = IF ok THEN @ ELSE @ \cup waiters]
                        ELSE flushes
          /\ owing' = IF settled /\ ok THEN owing \ {w} ELSE owing
          /\ shutdown' = [shutdown EXCEPT !.excused = @ \/ (~ok /\ w \in owing)]
    /\ UNCHANGED <<handshake, closing, askingVars, tray, around, wish>>

\* allSettled: one answer for all writers goes back.
FlushSettles(o) ==
    /\ Running /\ o \in flushes.running /\ flushes.waits[o] = {}
    /\ flushes' = [flushes EXCEPT !.running = @ \ {o},
                                  !.acks = @ \cup {[of |-> o, ok |-> o \notin flushes.failed]}]
    /\ UNCHANGED <<handshake, writers, owing, closing, shutdown, askingVars, tray, around, wish>>

\* state_flushed: only the current request is answered.
StateFlushed(a) ==
    /\ Running /\ a \in flushes.acks
    /\ flushes' = [flushes EXCEPT !.acks = @ \ {a}]
    /\ handshake' = IF a.of \in handshake.pending
                    THEN [pending |-> {},
                          heard |-> [handshake.heard EXCEPT
                                       ![a.of] = IF a.ok THEN "saved" ELSE "failed"]]
                    ELSE handshake
    /\ UNCHANGED <<writers, owing, closing, shutdown, askingVars, tray, around, wish>>
-----------------------------------------------------------------------------
(* Models to the backend, and the tray *)

\* A change of the menu goes out at once, an unchanged model never.
Sends(m, old) ==
    IF m = old THEN UNCHANGED models
    ELSE Len(models) < ModelsInFlight /\ models' = Append(models, m)

Shown == [active |-> around.active, prompt |-> question.prompt]

\* set_model: the renderer has said something, so the timers that wait for
\* it with an older generation let go.  Mutant: the generation moves only
\* when there is an icon to redraw.
SetModelCountsWithIcon ==
    /\ Running /\ models # <<>> /\ models' = Tail(models)
    /\ trayModel' = [model |-> Head(models), waiting |-> trayModel.waiting /\ ~tray.icon]
    /\ UNCHANGED <<savingVars, closing, shutdown, question, requests, tray, around, wish>>

SetModel ==
    /\ Running /\ models # <<>> /\ models' = Tail(models)
    /\ trayModel' = [model |-> Head(models), waiting |-> FALSE]
    /\ UNCHANGED <<savingVars, closing, shutdown, question, requests, tray, around, wish>>

\* hide_to_tray on the main thread.  Without an icon the window is only
\* minimized, and stays within reach.
Hidden(t, created) ==
    IF t.icon \/ created
    THEN [t EXCEPT !.icon = TRUE, !.hidden = TRUE, !.visible = FALSE]
    ELSE t

\* restore: the flag now, the window and the icon's removal later.
RestoredWindow(t) == [t EXCEPT !.hidden = FALSE, !.showing = TRUE,
                         !.removals = @ + 1]

\* The window was minimized, with minimizeToTray on.
Minimized ==
    /\ Running /\ tray.visible /\ around.clicks > 0
    /\ \E created \in BOOLEAN : tray' = Hidden(tray, created)
    /\ around' = [around EXCEPT !.clicks = @ - 1]
    /\ UNCHANGED <<savingVars, closing, shutdown, askingVars, wish>>

\* Show in the menu, a click on the icon, a second launch.
RestoreWindow ==
    /\ Running /\ ~tray.visible /\ around.clicks > 0
    /\ tray' = RestoredWindow(tray)
    /\ around' = [around EXCEPT !.clicks = @ - 1]
    /\ UNCHANGED <<savingVars, closing, shutdown, askingVars, wish>>

Show ==
    /\ Running /\ tray.showing
    /\ tray' = [tray EXCEPT !.visible = TRUE, !.showing = FALSE]
    /\ UNCHANGED <<savingVars, closing, shutdown, askingVars, around, wish>>

\* The removal comes later, and a hide in between keeps the icon.
RemoveIcon ==
    /\ Running /\ tray.removals > 0
    /\ tray' = [tray EXCEPT !.removals = @ - 1, !.icon = @ /\ tray.hidden]
    /\ UNCHANGED <<savingVars, closing, shutdown, askingVars, around, wish>>
-----------------------------------------------------------------------------
(* Asking *)

\* quit_route, of what the renderer last reported and the edits on disk.
MustAsk == trayModel.model.active \/ around.edits

\* ask_window: not while the question is on screen; else an event, and a
\* timer for a window that never answers it.
AskQuit ==
    IF trayModel.model.prompt THEN UNCHANGED <<trayModel, requests>>
    ELSE /\ trayModel' = [trayModel EXCEPT !.waiting = TRUE]
         /\ requests' = [requests EXCEPT !.asks = Append(@, around.edits)]

\* begin: once only.
BeginShutdown == shutdown' = IF shutdown.at = "none" THEN [shutdown EXCEPT !.at = "begun"] ELSE shutdown

\* The click waits for the handshake first.
CloseRequested(c) ==
    /\ Running /\ closing[c] = "idle" /\ tray.visible
    /\ closing' = [closing EXCEPT ![c] = "flushing"]
    /\ RequestFlush(c)
    /\ UNCHANGED <<writers, owing, shutdown, askingVars, tray, around, wish>>

\* Then the setting is read: hide, ask or end.
CloseDecides(c, toTray) ==
    /\ Running /\ closing[c] = "flushing" /\ Waited(c)
    /\ closing' = [closing EXCEPT ![c] = "over"]
    /\ \/ /\ toTray
          /\ \E created \in BOOLEAN : tray' = Hidden(tray, created)
          /\ UNCHANGED <<shutdown, trayModel, requests, wish>>
       \/ /\ ~toTray /\ MustAsk /\ AskQuit
          /\ wish' = "quit" /\ UNCHANGED <<shutdown, tray>>
       \/ /\ ~toTray /\ ~MustAsk /\ BeginShutdown
          /\ wish' = "quit" /\ UNCHANGED <<trayModel, requests, tray>>
    /\ UNCHANGED <<writers, flushes, owing, models, question, around>>

\* quit, from the icon's menu.
TrayQuit ==
    /\ Running /\ tray.icon /\ around.clicks > 0
    /\ around' = [around EXCEPT !.clicks = @ - 1]
    /\ wish' = "quit"
    /\ IF MustAsk THEN AskQuit /\ tray' = RestoredWindow(tray) /\ UNCHANGED shutdown
                  ELSE BeginShutdown /\ UNCHANGED <<trayModel, requests, tray>>
    /\ UNCHANGED <<savingVars, closing, models, question>>

\* The timer of ask_window, ten seconds after: nothing was heard since.  A
\* model that was sent has long arrived.
TimerQuits ==
    /\ Running /\ trayModel.waiting /\ models = <<>>
    /\ trayModel' = [trayModel EXCEPT !.waiting = FALSE]
    /\ BeginShutdown
    /\ UNCHANGED <<savingVars, closing, models, question, requests, tray, around, wish>>

\* app_quit: an edit saved meanwhile is asked about, unless keeping it for
\* recovery was the answer.
AppQuit(preserve) ==
    /\ Running /\ preserve \in requests.quits
    /\ IF around.edits /\ ~preserve
       THEN /\ requests' = [requests EXCEPT !.quits = @ \ {preserve}, !.asks = Append(@, TRUE)]
            /\ UNCHANGED shutdown
       ELSE requests' = [requests EXCEPT !.quits = @ \ {preserve}] /\ BeginShutdown
    /\ UNCHANGED <<savingVars, closing, trayModel, models, question, tray, around, wish>>
-----------------------------------------------------------------------------
(* The question in the window *)

\* What the window's hook does to its state q, and quits it asks for.
Becomes(q, quits) ==
    /\ question' = q
    /\ Sends([active |-> around.active, prompt |-> q.prompt], Shown)
    /\ requests' = [requests EXCEPT !.quits = @ \cup quits]

\* quitOnce, after q.
Once(q, preserve) ==
    Becomes([q EXCEPT !.quitting = TRUE], IF q.quitting THEN {} ELSE {preserve})

quietVars == <<savingVars, closing, shutdown, trayModel, tray, around>>

\* quitRequested.
Requested ==
    /\ Running /\ requests.asks # <<>>
    /\ LET unsynced == Head(requests.asks)
           q == [question EXCEPT !.quitting = FALSE, !.pending = FALSE, !.edits = unsynced,
                                 !.prompt = @ \/ around.active \/ unsynced]
           now == ~around.active /\ ~unsynced
       IN /\ question' = [q EXCEPT !.quitting = now]
          /\ Sends([active |-> around.active, prompt |-> q.prompt], Shown)
          /\ requests' = [asks |-> Tail(requests.asks),
                          quits |-> requests.quits \cup (IF now THEN {FALSE} ELSE {})]
    /\ UNCHANGED <<quietVars, wish>>

\* The effect: with nothing active the question answers itself, edits apart.
Settles ==
    /\ Running /\ ~around.active /\ (question.pending \/ question.prompt)
    /\ IF question.edits
       THEN Becomes([question EXCEPT !.pending = FALSE, !.prompt = TRUE], {})
       ELSE Once([question EXCEPT !.prompt = FALSE], FALSE)
    /\ UNCHANGED <<quietVars, wish>>

QuitNow ==
    /\ Running /\ question.prompt
    /\ Once([question EXCEPT !.prompt = FALSE], question.edits)
    /\ wish' = "quit" /\ UNCHANGED quietVars

QuitWhenIdle ==
    /\ Running /\ question.prompt
    /\ Becomes([question EXCEPT !.prompt = FALSE, !.pending = TRUE], {})
    /\ wish' = "quit" /\ UNCHANGED quietVars

\* Staying, said while no older request is still on its way.
Stays == wish' = IF requests.asks = <<>> /\ requests.quits = {} THEN "stay" ELSE wish

Dismiss ==
    /\ Running /\ question.prompt
    /\ Becomes([question EXCEPT !.prompt = FALSE], {})
    /\ Stays /\ UNCHANGED quietVars

CancelQuit ==
    /\ Running /\ question.pending
    /\ Becomes([question EXCEPT !.pending = FALSE], {})
    /\ Stays /\ UNCHANGED quietVars

\* A transfer starts or ends.
TransfersChange ==
    /\ Running /\ around.left > 0
    /\ around' = [around EXCEPT !.left = @ - 1, !.active = ~@]
    /\ Sends([active |-> ~around.active, prompt |-> question.prompt], Shown)
    /\ UNCHANGED <<savingVars, closing, shutdown, trayModel, question, requests, tray, wish>>

\* An editor saves a copy, or the copy is uploaded.
EditsChange ==
    /\ Running /\ around.left > 0
    /\ around' = [around EXCEPT !.left = @ - 1, !.edits = ~@]
    /\ UNCHANGED <<savingVars, closing, shutdown, askingVars, tray, wish>>

\* The user changes a setting or a tab.  What changes after winding down has
\* begun is nobody's promise, and left out.
StateChanges(w) ==
    /\ shutdown.at = "none" /\ around.left > 0
    /\ around' = [around EXCEPT !.left = @ - 1]
    /\ writers' = [writers EXCEPT ![w] = IF @ \in {"writing", "again"} THEN "again" ELSE "changed"]
    /\ UNCHANGED <<handshake, flushes, owing, closing, shutdown, askingVars, tray, wish>>
-----------------------------------------------------------------------------
(* Winding down *)

RunFlushes ==
    /\ shutdown.at = "begun"
    /\ shutdown' = [shutdown EXCEPT !.at = "flushing"]
    /\ RequestFlush(Run)
    /\ owing' = {w \in Writers : writers[w] # "stored"}
    /\ UNCHANGED <<writers, closing, askingVars, tray, around, wish>>

\* A word came, or three seconds went by without one: that excuses run.
RunFlushed ==
    /\ shutdown.at = "flushing" /\ Waited(Run)
    /\ shutdown' = [shutdown EXCEPT !.at = "cleaning",
                                    !.excused = @ \/ handshake.heard[Run] = "waiting"]
    /\ UNCHANGED <<writers, flushes, owing, closing, askingVars, tray, around, wish>>

\* The bounds are stored, the sessions torn down, the copies collected and
\* the vault locked, side by side for five seconds at most; the log follows.
ExitProcess ==
    /\ shutdown.at = "cleaning"
    /\ shutdown' = [shutdown EXCEPT !.at = "exited"]
    /\ UNCHANGED <<savingVars, closing, askingVars, tray, around, wish>>
-----------------------------------------------------------------------------
QuitNext ==
    \/ StartFlush
    \/ \E w \in Writers : Debounced(w) \/ StateChanges(w)
    \/ \E w \in Writers, ok \in BOOLEAN : WriteEnds(w, ok)
    \/ \E o \in Owners : FlushSettles(o)
    \/ \E a \in flushes.acks : StateFlushed(a)
    \/ SetModel \/ Minimized \/ RestoreWindow \/ Show \/ RemoveIcon
    \/ \E c \in 1..Closes : CloseRequested(c)
    \/ \E c \in 1..Closes, toTray \in BOOLEAN : CloseDecides(c, toTray)
    \/ TrayQuit \/ TimerQuits
    \/ \E preserve \in BOOLEAN : AppQuit(preserve)
    \/ Requested \/ Settles \/ QuitNow \/ QuitWhenIdle \/ Dismiss \/ CancelQuit
    \/ TransfersChange \/ EditsChange
    \/ RunFlushes \/ RunFlushed \/ ExitProcess

QuitSpec == QuitInit /\ [][QuitNext]_quitVars
-----------------------------------------------------------------------------
(* The user keeps the last word.  Once they have answered the question     *)
(* with staying, or have called off a quit that waits for the transfers,   *)
(* the application does not end until it is asked to again: no timer, late *)
(* command or settling effect begins it (ask_window, useQuitWhenIdle).     *)
(* And a window out of sight has its icon in the tray, or is about to be   *)
(* shown: a removal scheduled by an earlier restore leaves no hidden       *)
(* window without a way back (hide_to_tray, restore).                      *)
UserHasTheLastWord ==
    [][ /\ shutdown.at = "none" /\ shutdown'.at # "none" => wish' = "quit"
        /\ tray'.visible \/ tray'.showing \/ tray'.icon ]_quitVars

(* What the window held when winding down began is stored before the       *)
(* process ends, unless the three seconds passed or a write was refused    *)
(* (the comment of SHUTDOWN_FLUSH_TIMEOUT).                                *)
SavedBeforeExit == shutdown.at = "exited" => owing = {} \/ shutdown.excused
=============================================================================
