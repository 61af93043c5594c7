------------------------------ MODULE Desktop ------------------------------
(***************************************************************************)
(* The Qt side of the application: ui/main_window.py, ui/workers.py, the   *)
(* composition and the ShutdownCoordinator of ui/app.py, and what the      *)
(* dialogs of Settings and Calculate do with worker threads.               *)
(*                                                                         *)
(* One GUI thread takes, in any order, a click, the next zero timer, a     *)
(* signal of a worker, or the return of a closed dialog's exec().  A       *)
(* worker posts its result before its finished signal.  Dialogs are modal  *)
(* and run nested event loops: timers and signals still reach the window.  *)
(***************************************************************************)
EXTENDS Naturals, Sequences

CONSTANTS Threads,    \* worker threads, used again once they are released
          NoThread,
          MaxClicks,  \* clicks of the user, the quit apart
          Hasty       \* the user may act between two zero timers

ASSUME NoThreadAssumption == NoThread \notin Threads
ASSUME UserAssumption == MaxClicks \in Nat /\ Hasty \in BOOLEAN

VARIABLES phase,    \* the ShutdownCoordinator: pending from "closing" on
          window,   \* MainWindow: its flags and which of its buttons are on
          queue,    \* callbacks posted with QTimer.singleShot(0, ...)
          threads,  \* the worker threads
          owned,    \* WorkerOwner._threads
          active,   \* MainWindow.active_threads
          dialogs,  \* open modal dialogs, the last one on top
          clicks    \* clicks left

vars == <<phase, window, queue, threads, owned, active, dialogs, clicks>>

Background == {"settings", "calculation", "history", "status"}
Captures == {"refresh", "status"}
SettingsJobs == {"test", "save"}
CalculationJobs == {"calculate", "import"}
Jobs == {"none", "bootstrap", "refresh"} \cup Background \cup SettingsJobs \cup CalculationJobs

\* A job of Background posts its name: the callback that opens its dialog.
Callbacks == Background \cup
    {"load_initial_state", "refresh_devices", "show_settings", "reject", "close", "_finish", "quit"}

Free == [job |-> "none", state |-> "free", outcome |-> "none", cancelled |-> FALSE]
Workers == [job : Jobs, state : {"free", "running", "done"},
            outcome : {"none", "succeeded", "failed"}, cancelled : BOOLEAN]

Windows == [boot : BOOLEAN,        \* bootstrap_workflow is not None
            configured : BOOLEAN,  \* settings_configured
            rows : BOOLEAN,        \* the table has rows
            again : BOOLEAN,       \* _refresh_when_idle
            refresh : BOOLEAN, settings : BOOLEAN, status : BOOLEAN,  \* enabled
            panel : {"loading", "error", "settings", "empty", "table"}]

Dialog(kind) == [kind |-> kind, thread |-> NoThread, closing |-> FALSE,
                 rejecting |-> FALSE, saved |-> FALSE, over |-> FALSE]
Dialogs == [kind : {"plain", "settings", "calculation"}, thread : Threads \cup {NoThread},
            closing : BOOLEAN,     \* _close_when_idle
            rejecting : BOOLEAN,   \* its reject is posted
            saved : BOOLEAN,       \* _pending_saved, _saved_result
            over : BOOLEAN]        \* accepted or rejected, exec() not returned

Init == /\ phase = "running"
        /\ window = [boot |-> TRUE, configured |-> FALSE, rows |-> FALSE, again |-> FALSE,
                     refresh |-> FALSE, settings |-> FALSE, status |-> FALSE,
                     panel |-> "loading"]
        /\ queue = <<"load_initial_state">>
        /\ threads = [t \in Threads |-> Free]
        /\ owned = {} /\ active = {}
        /\ dialogs = <<>>
        /\ clicks = MaxClicks

Pending == phase \in {"closing", "issued"}
Post(callback) == Append(queue, callback)
Top == dialogs[Len(dialogs)]
Open(kind) == dialogs' = Append(dialogs, Dialog(kind))

\* Mutant: a new table enables its buttons whatever is running.
SetRowsEnabled(w) == [w EXCEPT !.status = w.configured, !.refresh = w.configured,
                               !.panel = CASE w.rows -> "table"
                                           [] ~w.rows /\ w.configured -> "empty"
                                           [] OTHER -> "settings"]

\* MainWindow.set_rows
SetRows(w) == [w EXCEPT !.status = w.configured /\ active = {},
                        !.refresh = w.configured /\ active = {},
                        !.panel = CASE w.rows -> "table"
                                    [] ~w.rows /\ w.configured -> "empty"
                                    [] OTHER -> "settings"]

-----------------------------------------------------------------------------
(* Starting workers.  The queue and the clicks are left to the caller. *)

\* WorkerOwner.track and start.
Started(t, job) ==
    /\ threads[t].state = "free"
    /\ threads' = [threads EXCEPT ![t] = [Free EXCEPT !.job = job, !.state = "running"]]
    /\ owned' = owned \cup {t}

\* MainWindow._run_worker
RunWorker(job, w) ==
    /\ window' = [w EXCEPT !.settings = FALSE, !.status = FALSE]
    /\ \E t \in Threads : Started(t, job) /\ active' = active \cup {t}

NoWorker == UNCHANGED <<window, threads, owned, active>>

LoadInitialState ==
    IF window.boot /\ active = {}
    THEN RunWorker("bootstrap", [window EXCEPT !.panel = "loading", !.refresh = FALSE])
    ELSE NoWorker

\* Mutant: a refresh starts beside the running one.
RefreshDevicesTwice ==
    IF window.configured THEN RunWorker("refresh", [window EXCEPT !.refresh = FALSE])
                         ELSE NoWorker

RefreshDevices ==
    IF ~window.configured
    THEN /\ window' = [window EXCEPT !.panel = "settings"]
         /\ UNCHANGED <<threads, owned, active>>
    ELSE IF active = {}
    THEN RunWorker("refresh", [window EXCEPT !.refresh = FALSE])
    ELSE NoWorker

\* MainWindow.run_background_operation
RunBackground(job) ==
    IF active = {} THEN RunWorker(job, [window EXCEPT !.refresh = FALSE]) ELSE NoWorker

-----------------------------------------------------------------------------
(* The user *)

Acts == Hasty \/ queue = <<>>
Click == Acts /\ clicks > 0 /\ clicks' = clicks - 1
OnWindow == /\ phase \in {"running", "closing"} /\ dialogs = <<>> /\ Click
            /\ UNCHANGED <<phase, queue, dialogs>>

ClickRetry == OnWindow /\ window.panel = "error" /\ LoadInitialState
ClickRefresh == OnWindow /\ window.refresh /\ RefreshDevices

\* The panel and the warning offer settings too, and never disable them.
ClickSettings == /\ OnWindow
                 /\ \/ window.settings
                    \/ window.panel = "settings"
                    \/ window.panel = "table" /\ ~window.configured
                 /\ RunBackground("settings")

ClickRow == /\ OnWindow /\ window.panel = "table"
            /\ \E job \in {"calculation", "history", "status"} :
                  /\ job = "status" => window.status
                  /\ RunBackground(job)

OnDialog == /\ phase \in {"running", "closing"} /\ dialogs # <<>> /\ ~Top.over /\ Click
            /\ UNCHANGED <<phase, window, active>>

ChangeTop(d) == dialogs' = [dialogs EXCEPT ![Len(dialogs)] = d]

\* test_connection, save, import_cloud; the import needs complete settings.
StartInDialog ==
    /\ OnDialog /\ Top.thread = NoThread
    /\ \E t \in Threads, job \in SettingsJobs \cup CalculationJobs :
          /\ Top.kind = IF job \in SettingsJobs THEN "settings" ELSE "calculation"
          /\ job = "import" => window.configured
          /\ Started(t, job)
          /\ ChangeTop([Top EXCEPT !.thread = t])
    /\ UNCHANGED queue

Interrupted(t) == [threads EXCEPT ![t].cancelled = TRUE]

\* reject() and closeEvent of the nth dialog, d: an import goes on without it,
\* any other operation is awaited.
RejectDialog(n, d) ==
    IF d.thread = NoThread
    THEN dialogs' = [dialogs EXCEPT ![n] = [d EXCEPT !.over = TRUE]] /\ UNCHANGED threads
    ELSE /\ threads' = Interrupted(d.thread)
         /\ dialogs' = [dialogs EXCEPT ![n] =
               IF threads[d.thread].job = "import"
               THEN [d EXCEPT !.over = TRUE, !.thread = NoThread]
               ELSE [d EXCEPT !.closing = TRUE]]

\* Mutant: the thread of an import is dropped with its dialog.
RejectDropping ==
    /\ OnDialog /\ RejectDialog(Len(dialogs), Top)
    /\ owned' = owned \ {t \in {Top.thread} \cap Threads : threads[t].job = "import"}
    /\ UNCHANGED queue

Reject == /\ OnDialog /\ RejectDialog(Len(dialogs), Top)
          /\ UNCHANGED <<queue, owned>>

\* open_cloud_settings, offered while no settings are complete.
CloudSettings ==
    /\ OnDialog /\ Top.kind = "calculation" /\ Top.thread = NoThread /\ ~window.configured
    /\ ChangeTop([Top EXCEPT !.over = TRUE])
    /\ queue' = Post("show_settings")
    /\ UNCHANGED <<threads, owned>>

-----------------------------------------------------------------------------
(* Quitting *)

\* Mutant: an idle application waits for a worker to finish.
RequestQuitWaiting ==
    /\ Acts /\ phase = "running" /\ phase' = "closing"
    /\ window' = [window EXCEPT !.refresh = FALSE, !.settings = FALSE, !.status = FALSE]
    /\ threads' = [t \in Threads |-> [threads[t] EXCEPT !.cancelled = @ \/ t \in owned]]
    /\ UNCHANGED <<queue, owned, active, dialogs, clicks>>

\* request_quit, from the window's close button or a quit event.
RequestQuit ==
    /\ Acts /\ phase = "running" /\ phase' = "closing"
    /\ window' = [window EXCEPT !.refresh = FALSE, !.settings = FALSE, !.status = FALSE]
    /\ threads' = [t \in Threads |-> [threads[t] EXCEPT !.cancelled = @ \/ t \in owned]]
    /\ queue' = IF owned = {} THEN Post("_finish") ELSE queue
    /\ UNCHANGED <<owned, active, dialogs, clicks>>

\* A quit event that comes once the coordinator issues the quit itself.
QuitEvent == /\ phase = "issued" /\ phase' = "exited"
             /\ UNCHANGED <<window, queue, threads, owned, active, dialogs, clicks>>

-----------------------------------------------------------------------------
(* Workers *)

\* WorkflowThread.run: a cancelled workflow posts no result, unless it fails
\* unexpectedly.
RunEnds(t) ==
    /\ threads[t].state = "running"
    /\ \E outcome \in IF threads[t].cancelled THEN {"none", "failed"} ELSE {"succeeded", "failed"} :
          threads' = [threads EXCEPT ![t].state = "done", ![t].outcome = outcome]
    /\ UNCHANGED <<phase, window, queue, owned, active, dialogs, clicks>>

Posted(t, outcome) == /\ phase # "exited"
                      /\ threads[t].state = "done" /\ threads[t].outcome = outcome
Handled(t) == threads' = [threads EXCEPT ![t].outcome = "none"]

\* Dialogs that still wait for this thread.
Waiting(t) == {n \in DOMAIN dialogs : dialogs[n].thread = t}

\* _schedule_refresh
ScheduleRefresh(w) ==
    IF active # {} THEN /\ window' = [w EXCEPT !.again = TRUE] /\ UNCHANGED queue
                   ELSE /\ window' = w /\ queue' = Post("refresh_devices")

BootstrapSucceeded(t) ==
    /\ Posted(t, "succeeded") /\ threads[t].job = "bootstrap" /\ Handled(t)
    /\ \E configured, rows \in BOOLEAN :
          LET w == SetRows([window EXCEPT !.boot = FALSE, !.configured = configured,
                                          !.rows = rows])
          IN  IF configured THEN ScheduleRefresh(w)
                            ELSE window' = w /\ UNCHANGED queue
    /\ UNCHANGED <<phase, owned, active, dialogs, clicks>>

RefreshSucceeded(t) ==
    /\ Posted(t, "succeeded") /\ threads[t].job = "refresh" /\ Handled(t)
    /\ \E rows \in BOOLEAN : window' = SetRows([window EXCEPT !.rows = rows])
    /\ UNCHANGED <<phase, queue, owned, active, dialogs, clicks>>

BackgroundSucceeded(t) ==
    /\ Posted(t, "succeeded") /\ threads[t].job \in Background /\ Handled(t)
    /\ queue' = Post(threads[t].job)
    /\ UNCHANGED <<phase, window, owned, active, dialogs, clicks>>

\* Only saves leave something for the finished signal of the thread.
DialogSucceeded(t) ==
    /\ Posted(t, "succeeded") /\ threads[t].job \in SettingsJobs \cup CalculationJobs
    /\ Handled(t)
    /\ dialogs' = [n \in DOMAIN dialogs |->
                     IF n \in Waiting(t) /\ threads[t].job \in {"save", "calculate"}
                     THEN [dialogs[n] EXCEPT !.saved = TRUE] ELSE dialogs[n]]
    /\ UNCHANGED <<phase, window, queue, owned, active, clicks>>

\* Every failure is shown in a modal dialog, except that of an import whose
\* dialog is gone.
Failed(t) ==
    /\ Posted(t, "failed") /\ Handled(t)
    /\ window' = IF threads[t].job = "bootstrap"
                 THEN [window EXCEPT !.panel = "error", !.refresh = FALSE] ELSE window
    /\ IF threads[t].job = "import" /\ Waiting(t) = {} THEN UNCHANGED dialogs
                                                        ELSE Open("plain")
    /\ UNCHANGED <<phase, queue, owned, active, clicks>>

-----------------------------------------------------------------------------
(* The finished signal *)

\* WorkerOwner._finished: the owner lets go, and tells the coordinator.
Released(t) == /\ Posted(t, "none")
               /\ threads' = [threads EXCEPT ![t] = Free]
               /\ owned' = owned \ {t}
               /\ UNCHANGED <<phase, clicks>>
Drained(t) == IF owned = {t} /\ Pending THEN Post("_finish") ELSE queue

\* Mutant: the refresh button stays off.
OperationFinishedHalf(w) ==
    [w EXCEPT !.settings = ~Pending, !.status = w.configured /\ ~Pending]

\* MainWindow._operation_finished
OperationFinished(w) ==
    [w EXCEPT !.refresh = w.configured /\ ~w.boot /\ ~Pending,
              !.settings = ~Pending,
              !.status = w.configured /\ ~Pending]

\* _operation_finished, then _worker_finished.
WindowWorkerFinished(t) ==
    /\ t \in active /\ Released(t)
    /\ active' = active \ {t}
    /\ LET w == OperationFinished(window)
           idle == active = {t}
       IN  CASE Pending /\ idle -> window' = w /\ queue' = Append(Drained(t), "close")
             [] ~Pending /\ idle /\ w.again ->
                  /\ window' = [w EXCEPT !.again = FALSE]
                  /\ queue' = Append(Drained(t), "refresh_devices")
             [] OTHER -> window' = w /\ queue' = Drained(t)
    /\ UNCHANGED dialogs

RejectsLater(d) == d.kind = "calculation" /\ d.closing /\ ~d.saved

\* _thread_finished of Settings, _save_finished of Calculate; the latter
\* closes by a callback of its own when it was asked to wait.
DialogWorkerFinished(t) ==
    /\ t \notin active /\ Released(t)
    /\ dialogs' = [n \in DOMAIN dialogs |->
                     IF n \in Waiting(t)
                     THEN [dialogs[n] EXCEPT
                             !.thread = NoThread,
                             !.rejecting = @ \/ RejectsLater(dialogs[n]),
                             !.over = \/ @ \/ dialogs[n].saved
                                      \/ dialogs[n].kind = "settings" /\ dialogs[n].closing]
                     ELSE dialogs[n]]
    /\ queue' = IF \E n \in Waiting(t) : RejectsLater(dialogs[n])
                THEN Append(Drained(t), "reject") ELSE Drained(t)
    /\ UNCHANGED <<window, active>>

-----------------------------------------------------------------------------
(* Timers and returning dialogs *)

Timer(callback) == /\ phase # "exited" /\ queue # <<>> /\ Head(queue) = callback
                   /\ queue' = Tail(queue)

TimerLoad == Timer("load_initial_state") /\ LoadInitialState
             /\ UNCHANGED <<phase, dialogs, clicks>>
TimerRefresh == Timer("refresh_devices") /\ RefreshDevices
                /\ UNCHANGED <<phase, dialogs, clicks>>
TimerSettings == Timer("show_settings") /\ RunBackground("settings")
                 /\ UNCHANGED <<phase, dialogs, clicks>>

\* open_dialog; that of Status shows the captured reading first.
TimerOpen(job) ==
    /\ Timer(job)
    /\ Open(IF job \in {"settings", "calculation"} THEN job ELSE "plain")
    /\ \/ window' = window
       \/ job = "status" /\ window' = SetRows(window)
    /\ UNCHANGED <<phase, threads, owned, active, clicks>>

\* The dialog that posted it may be gone, or at work again.
TimerReject ==
    /\ Timer("reject")
    /\ \/ \E n \in DOMAIN dialogs :
             /\ dialogs[n].rejecting
             /\ RejectDialog(n, [dialogs[n] EXCEPT !.rejecting = FALSE])
       \/ /\ \A n \in DOMAIN dialogs : ~dialogs[n].rejecting
          /\ UNCHANGED <<threads, dialogs>>
    /\ UNCHANGED <<phase, window, owned, active, clicks>>

\* close() asks the coordinator, which is pending already.
TimerClose == Timer("close") /\ UNCHANGED <<phase, window, threads, owned, active, dialogs, clicks>>

\* ShutdownCoordinator._finish
Finish ==
    /\ phase # "exited" /\ queue # <<>> /\ Head(queue) = "_finish"
    /\ IF owned = {} THEN phase' = "issued" /\ queue' = Append(Tail(queue), "quit")
                     ELSE queue' = Tail(queue) /\ UNCHANGED phase
    /\ UNCHANGED <<window, threads, owned, active, dialogs, clicks>>

Quit == /\ Timer("quit") /\ phase' = "exited"
        /\ UNCHANGED <<window, threads, owned, active, dialogs, clicks>>

\* exec() of the dialog on top returns; saved settings are applied, with a
\* refresh if the connection was tested (apply_settings).
Return ==
    /\ phase # "exited" /\ dialogs # <<>> /\ Top.over
    /\ dialogs' = SubSeq(dialogs, 1, Len(dialogs) - 1)
    /\ IF Top.kind = "settings" /\ Top.saved
       THEN LET w == SetRows([window EXCEPT !.configured = TRUE])
            IN  \/ ScheduleRefresh(w)
                \/ window' = w /\ UNCHANGED queue
       ELSE UNCHANGED <<window, queue>>
    /\ UNCHANGED <<phase, threads, owned, active, clicks>>

-----------------------------------------------------------------------------

User == \/ ClickRetry \/ ClickRefresh \/ ClickSettings \/ ClickRow
        \/ StartInDialog \/ Reject \/ CloudSettings

Loop == \/ TimerLoad \/ TimerRefresh \/ TimerSettings \/ TimerReject \/ TimerClose
        \/ \E job \in Background : TimerOpen(job)
        \/ Finish \/ Quit \/ Return

Signal(t) == \/ BootstrapSucceeded(t) \/ RefreshSucceeded(t) \/ BackgroundSucceeded(t)
             \/ DialogSucceeded(t) \/ Failed(t)
             \/ WindowWorkerFinished(t) \/ DialogWorkerFinished(t)

Next == \/ User \/ RequestQuit \/ QuitEvent \/ Loop
        \/ \E t \in Threads : RunEnds(t) \/ Signal(t)

Spec == Init /\ [][Next]_vars

\* The event loop runs timers and signals; every workflow has a deadline.
FairSpec == /\ Spec /\ WF_vars(Loop)
            /\ \A t \in Threads : WF_vars(RunEnds(t)) /\ WF_vars(Signal(t))
-----------------------------------------------------------------------------
(* Properties *)

TypeOK == /\ phase \in {"running", "closing", "issued", "exited"}
          /\ window \in Windows
          /\ queue \in Seq(Callbacks)
          /\ threads \in [Threads -> Workers]
          /\ owned \subseteq Threads /\ active \subseteq Threads
          /\ dialogs \in Seq(Dialogs)
          /\ clicks \in 0..MaxClicks

Runs(t) == threads[t].state = "running"
Idle == phase = "running" /\ owned = {} /\ queue = <<>> /\ dialogs = <<>>

\* At most one refresh or status capture runs in the application, whatever
\* dialogs, detached imports and posted refreshes come between.
OneCapture ==
    \A t, u \in Threads :
        Runs(t) /\ Runs(u) /\ {threads[t].job, threads[u].job} \subseteq Captures => t = u

\* While a capture runs, Refresh and every Status button are disabled.
TriggersDisabled == TypeOK /\
    \A t \in Threads :
        Runs(t) /\ threads[t].job \in Captures => ~window.refresh /\ ~window.status

\* The owner holds every thread from before its start until its finished
\* signal, also after the dialog that started it is gone.
OwnedUntilFinished == \A t \in Threads : threads[t].state # "free" => t \in owned

\* An idle window: settings open; once they are complete the status of a meter
\* can be asked for, and a refresh unless the start has failed and was not
\* retried (main_window.py:364); a failed start can be retried or configured.
IdleOffers ==
    Idle => /\ window.settings
            /\ window.configured => window.status
            /\ window.configured /\ ~window.boot => window.refresh
            /\ window.boot /\ ~window.configured => window.panel = "error"

Queued(callback) == \E n \in 1..Len(queue) : queue[n] = callback

\* What was asked to end is going to: a quit has a worker to wait for or its
\* next callback queued, and a dialog that is closing a worker or its reject.
EndingGoesOn ==
    /\ phase = "closing" => owned # {} \/ Queued("_finish")
    /\ phase = "issued" => Queued("quit")
    /\ \A n \in DOMAIN dialogs : dialogs[n].closing /\ ~dialogs[n].over =>
          \/ dialogs[n].thread \in owned
          \/ dialogs[n].rejecting /\ Queued("reject")

\* The application is never stuck, in whatever order results, callbacks,
\* clicks and requests to close come.
NeverStuck == IdleOffers /\ EndingGoesOn

\* A requested quit happens, whatever runs, is open or is clicked.
QuitHappens == phase = "closing" ~> phase = "exited"

\* ui/app.py, _assert_no_active_workers: the application does not quit while
\* worker threads are active.
QuitWaits == phase = "exited" => owned = {}
=============================================================================
