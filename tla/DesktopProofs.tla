---------------------------- MODULE DesktopProofs ----------------------------
(***************************************************************************)
(* The theorems of Desktop: for any number of threads and clicks, captures *)
(* exclude each other, their triggers are off meanwhile, every thread is   *)
(* owned until it has finished, an idle window is never stuck, what was    *)
(* asked to end goes on, and a quit takes its steps in order.              *)
(***************************************************************************)
EXTENDS Desktop, SequenceTheorems, TLAPS

(* The inductive invariant, of the phase p, the window w, the queue q, the  *)
(* threads th, the owner's ow, the window's ac, the dialogs ds, clicks c.   *)

DialogJobs == SettingsJobs \cup CalculationJobs

Typed(p, w, q, th, ow, ac, ds, c) ==
    /\ p \in {"running", "closing", "issued", "exited"}
    /\ w \in Windows /\ q \in Seq(Callbacks) /\ th \in [Threads -> Workers]
    /\ ow \subseteq Threads /\ ac \subseteq Threads /\ ds \in Seq(Dialogs)
    /\ c \in 0..MaxClicks

\* The owner has the threads that are not free, the window one of them at
\* most, and the dialogs the others.
Owned(th, ow, ac) ==
    /\ \A t \in Threads : t \in ow <=> th[t].state # "free"
    /\ ac \subseteq ow /\ \A t, u \in ac : t = u
    /\ \A t \in ow : t \in ac <=> th[t].job \notin DialogJobs

Buttons(w, ac) == ac # {} => ~w.refresh /\ ~w.status

Waits(ds, ow, ac) ==
    \A n \in 1..Len(ds) : ds[n].thread # NoThread => ds[n].thread \in ow \ ac

\* The first callback loads the initial state, and no other.
Starting(q) == Len(q) > 0 /\ q[1] = "load_initial_state"
Once(q) == \A n \in 1..Len(q) : q[n] = "load_initial_state" => n = 1

StartInv(q, w, ow, ds) == Starting(q) =>
    /\ ow = {} /\ ds = <<>> /\ w.boot /\ ~w.configured /\ w.panel = "loading"
    /\ ~w.settings /\ ~w.refresh /\ ~w.status

\* A window without a worker has its buttons back.
IdleInv(p, q, w, ac) ==
    p = "running" /\ ac = {} /\ ~Starting(q) =>
        /\ w.settings
        /\ w.configured => w.status
        /\ w.configured /\ ~w.boot => w.refresh

\* Before anything was loaded: no table, no refresh, and while the window says
\* that it loads, it does.
Early(w) == w.boot /\ ~w.configured
Calm(q) == \A n \in 1..Len(q) : q[n] \notin {"refresh_devices", "status"}
Loads(worker) == /\ worker.job = "bootstrap"
                 /\ worker.state = "running" \/ worker.outcome # "none"

EarlyInv(p, q, w, th, ac) == Early(w) =>
    /\ w.panel \in {"loading", "error"} /\ ~w.again /\ ~w.refresh /\ Calm(q)
    /\ \A t \in Threads : th[t].job \notin {"refresh", "status"}
    /\ p = "running" /\ w.panel = "loading" /\ ~Starting(q) => \E t \in ac : Loads(th[t])

Uncancelled(p, th, ac) == p = "running" => \A t \in ac : ~th[t].cancelled

Good(p, w, q, th, ow, ac, ds, c) ==
    /\ Typed(p, w, q, th, ow, ac, ds, c)
    /\ Owned(th, ow, ac) /\ Buttons(w, ac) /\ Waits(ds, ow, ac)
    /\ Once(q) /\ StartInv(q, w, ow, ds) /\ IdleInv(p, q, w, ac)
    /\ EarlyInv(p, q, w, th, ac) /\ Uncancelled(p, th, ac)

IInv == Good(phase, window, queue, threads, owned, active, dialogs, clicks)

-----------------------------------------------------------------------------
(* The queue *)

LEMMA Appended ==
    ASSUME NEW q \in Seq(Callbacks), NEW c \in Callbacks, c # "load_initial_state",
           Once(q), NEW r, r = Append(q, c)
    PROVE  /\ r \in Seq(Callbacks) /\ Once(r) /\ (Starting(r) <=> Starting(q))
           /\ Calm(q) /\ c \notin {"refresh_devices", "status"} => Calm(r)
<1>1. /\ r \in Seq(Callbacks) /\ Len(r) = Len(q) + 1 /\ r[Len(q) + 1] = c
      /\ \A n \in 1..Len(q) : r[n] = q[n]
    OBVIOUS
<1>2. Len(q) \in Nat
    OBVIOUS
<1>3. \A n \in 1..Len(r) : n \in 1..Len(q) \/ n = Len(q) + 1
    BY <1>1, <1>2
<1>4. Once(r)
    BY <1>1, <1>2, <1>3 DEF Once
<1>5. Starting(r) <=> Starting(q)
    BY <1>1, <1>2 DEF Starting
<1>6. Calm(q) /\ c \notin {"refresh_devices", "status"} => Calm(r)
    BY <1>1, <1>3 DEF Calm
<1>7. QED
    BY <1>1, <1>4, <1>5, <1>6

LEMMA Taken ==
    ASSUME NEW q \in Seq(Callbacks), q # <<>>, Once(q), NEW r, r = Tail(q)
    PROVE  /\ r \in Seq(Callbacks) /\ Once(r) /\ ~Starting(r)
           /\ Calm(q) => Calm(r)
           /\ Head(q) = q[1] /\ Len(q) \in Nat /\ Len(q) > 0
<1>1. /\ r \in Seq(Callbacks) /\ Len(q) \in Nat /\ Len(q) > 0 /\ Len(r) = Len(q) - 1
      /\ Head(q) = q[1]
      /\ \A n \in 1..Len(r) : r[n] = q[n + 1] /\ n + 1 \in 1..Len(q) /\ n + 1 # 1
    OBVIOUS
<1>2. Once(r) /\ ~Starting(r) /\ (Calm(q) => Calm(r))
    BY <1>1 DEF Once, Starting, Calm
<1>3. QED
    BY <1>1, <1>2

-----------------------------------------------------------------------------
(* The threads *)

LEMMA Begun ==
    ASSUME threads \in [Threads -> Workers], NEW t \in Threads, NEW job \in Jobs, Started(t, job)
    PROVE  /\ threads[t].state = "free" /\ owned' = owned \cup {t}
           /\ threads' \in [Threads -> Workers]
           /\ threads'[t].job = job /\ threads'[t].state = "running"
           /\ ~threads'[t].cancelled
           /\ \A u \in Threads : u # t => threads'[u] = threads[u]
<1>1. PICK worker : worker = [Free EXCEPT !.job = job, !.state = "running"]
    OBVIOUS
<1>2. /\ worker \in Workers /\ worker.job = job /\ worker.state = "running"
      /\ ~worker.cancelled
    BY <1>1 DEF Free, Workers
<1>3. threads' = [threads EXCEPT ![t] = worker]
    BY <1>1 DEF Started
<1>4. /\ threads' \in [Threads -> Workers] /\ threads'[t] = worker
      /\ \A u \in Threads : u # t => threads'[u] = threads[u]
    BY <1>2, <1>3
<1>5. QED
    BY <1>2, <1>4 DEF Started

LEMMA ReleasedOwned ==
    ASSUME NEW th \in [Threads -> Workers], NEW ow, NEW ac, Owned(th, ow, ac),
           NEW t \in Threads, NEW nx \in [Threads -> Workers], nx[t].state = "free",
           \A u \in Threads : u # t => nx[u] = th[u], ow \subseteq Threads
    PROVE  Owned(nx, ow \ {t}, ac \ {t})
BY DEF Owned

LEMMA SameOwned ==
    ASSUME NEW th, NEW nx, NEW ow, NEW ac, ow \subseteq Threads, Owned(th, ow, ac),
           \A t \in Threads : nx[t].job = th[t].job,
           \A t \in Threads : (nx[t].state = "free") <=> (th[t].state = "free")
    PROVE  Owned(nx, ow, ac)
<1>1. \A t \in Threads : t \in ow <=> nx[t].state # "free"
    BY DEF Owned
<1>2. \A t \in ow : t \in ac <=> nx[t].job \notin DialogJobs
    BY DEF Owned
<1>3. QED
    BY <1>1, <1>2 DEF Owned

-----------------------------------------------------------------------------
(* The window *)

LEMMA RowsWindow ==
    ASSUME NEW w \in Windows, NEW v, v = SetRows(w)
    PROVE  /\ v \in Windows /\ Buttons(v, active)
           /\ v.boot = w.boot /\ v.configured = w.configured /\ v.again = w.again
           /\ v.settings = w.settings
           /\ active = {} => v.status = w.configured /\ v.refresh = w.configured
<1>1. PICK panel, on :
          /\ panel = CASE w.rows -> "table"
                       [] ~w.rows /\ w.configured -> "empty"
                       [] OTHER -> "settings"
          /\ on = (w.configured /\ active = {})
    OBVIOUS
<1>2. panel \in {"loading", "error", "settings", "empty", "table"}
    <2>1. CASE w.rows
        BY <1>1, <2>1
    <2>2. CASE ~w.rows /\ w.configured
        BY <1>1, <2>2
    <2>3. CASE ~w.rows /\ ~w.configured
        BY <1>1, <2>3
    <2>4. QED
        BY <2>1, <2>2, <2>3
<1>3. on \in BOOLEAN /\ v = [w EXCEPT !.status = on, !.refresh = on, !.panel = panel]
    BY <1>1 DEF SetRows
<1>4. /\ v \in Windows /\ v.status = on /\ v.refresh = on
      /\ v.boot = w.boot /\ v.configured = w.configured /\ v.again = w.again
      /\ v.settings = w.settings
    BY <1>2, <1>3 DEF Windows
<1>5. QED
    BY <1>1, <1>4 DEF Buttons, Windows

-----------------------------------------------------------------------------
(* What the steps have in common. *)

Phases == {"running", "closing", "issued", "exited"}
WindowJobs == {"bootstrap", "refresh"} \cup Background

\* The owner and the window keep their threads; neither what was loaded nor,
\* while the application runs, what a button offers is changed.
LEMMA Kept ==
    ASSUME NEW p, NEW w, NEW q, NEW th, NEW ow, NEW ac, NEW ds, NEW c,
           Good(p, w, q, th, ow, ac, ds, c),
           NEW o \in Phases, o = "running" => p = "running",
           NEW v \in Windows, v.boot = w.boot, v.configured = w.configured,
           v.again = w.again, v.refresh => w.refresh, v.status => w.status,
           v.settings => w.settings,
           o = "running" => v.settings = w.settings /\ v.status = w.status,
           o = "running" /\ ac = {} => v.refresh = w.refresh,
           Starting(q) => v.panel = w.panel,
           Early(w) => v.panel \in {"loading", "error"},
           NEW r \in Seq(Callbacks), Once(r), Starting(r) <=> Starting(q),
           Calm(q) => Calm(r),
           NEW nx \in [Threads -> Workers],
           \A t \in Threads : nx[t].job = th[t].job,
           \A t \in Threads : (nx[t].state = "free") <=> (th[t].state = "free"),
           o = "running" => \A t \in ac : ~th[t].cancelled => ~nx[t].cancelled,
           Early(w) /\ o = "running" /\ v.panel = "loading" =>
               /\ w.panel = "loading"
               /\ \A t \in ac : Loads(th[t]) => Loads(nx[t]),
           NEW e \in Seq(Dialogs), Waits(e, ow, ac), Starting(q) => e = <<>>,
           NEW k \in 0..MaxClicks
    PROVE  Good(o, v, r, nx, ow, ac, e, k)
<1>1. Typed(o, v, r, nx, ow, ac, e, k)
    BY DEF Good, Typed, Phases
<1>2. Owned(nx, ow, ac)
    BY SameOwned DEF Good, Typed
<1>3. Buttons(v, ac)
    BY DEF Good, Buttons
<1>4. StartInv(r, v, ow, e)
    BY DEF Good, StartInv, Windows
<1>5. IdleInv(o, r, v, ac)
    BY DEF Good, IdleInv
<1>6. EarlyInv(o, r, v, nx, ac)
    <2>1. SUFFICES ASSUME Early(v)
                   PROVE  /\ v.panel \in {"loading", "error"} /\ ~v.again /\ ~v.refresh
                          /\ Calm(r)
                          /\ \A t \in Threads : nx[t].job \notin {"refresh", "status"}
                          /\ o = "running" /\ v.panel = "loading" /\ ~Starting(r) =>
                                \E t \in ac : Loads(nx[t])
        BY DEF EarlyInv
    <2>2. Early(w)
        BY <2>1 DEF Early
    <2>3. QED
        BY <2>2 DEF Good, EarlyInv
<1>7. Uncancelled(o, nx, ac)
    BY DEF Good, Uncancelled
<1>8. QED
    BY <1>1, <1>2, <1>3, <1>4, <1>5, <1>6, <1>7 DEF Good

\* The window starts a worker.
LEMMA WindowStarts ==
    ASSUME NEW p, NEW w, NEW q, NEW th, NEW ow, NEW ds, NEW c,
           Good(p, w, q, th, ow, {}, ds, c),
           NEW v \in Windows, v.boot = w.boot, v.configured = w.configured,
           v.again = w.again, ~v.refresh, ~v.status,
           NEW r \in Seq(Callbacks), Once(r), ~Starting(r), Calm(q) => Calm(r),
           NEW job \in WindowJobs,
           Early(w) => /\ v.panel \in {"loading", "error"} /\ job \notin {"refresh", "status"}
                       /\ p = "running" /\ v.panel = "loading" => job = "bootstrap",
           NEW t \in Threads, th[t].state = "free",
           NEW nx \in [Threads -> Workers], nx[t].job = job, nx[t].state = "running",
           ~nx[t].cancelled, \A u \in Threads : u # t => nx[u] = th[u],
           NEW k \in 0..MaxClicks
    PROVE  Good(p, v, r, nx, ow \cup {t}, {t}, ds, k)
<1>1. job \in Jobs /\ job \notin DialogJobs
    BY DEF WindowJobs, Background, Jobs, DialogJobs, SettingsJobs, CalculationJobs
<1>2. /\ th \in [Threads -> Workers] /\ Owned(th, ow, {}) /\ ow \subseteq Threads
    BY DEF Good, Typed
<1>3. t \notin ow /\ Owned(nx, ow \cup {t}, {t})
    BY <1>1, <1>2 DEF Owned
<1>4. Typed(p, v, r, nx, ow \cup {t}, {t}, ds, k)
    BY <1>2, <1>3 DEF Good, Typed
<1>5. Buttons(v, {t}) /\ StartInv(r, v, ow \cup {t}, ds) /\ IdleInv(p, r, v, {t})
    BY DEF Buttons, StartInv, IdleInv
<1>6. Waits(ds, ow \cup {t}, {t})
    BY <1>3 DEF Good, Waits
<1>7. EarlyInv(p, r, v, nx, {t})
    <2>1. SUFFICES ASSUME Early(v)
                   PROVE  /\ v.panel \in {"loading", "error"} /\ ~v.again /\ ~v.refresh
                          /\ Calm(r)
                          /\ \A u \in Threads : nx[u].job \notin {"refresh", "status"}
                          /\ p = "running" /\ v.panel = "loading" /\ ~Starting(r) =>
                                \E u \in {t} : Loads(nx[u])
        BY DEF EarlyInv
    <2>2. Early(w)
        BY <2>1 DEF Early
    <2>3. ~w.again /\ Calm(q) /\ \A u \in Threads : th[u].job \notin {"refresh", "status"}
        BY <2>2 DEF Good, EarlyInv
    <2>4. \A u \in Threads : nx[u].job \notin {"refresh", "status"}
        BY <1>3, <2>2, <2>3
    <2>5. p = "running" /\ v.panel = "loading" => Loads(nx[t])
        BY <1>3, <2>2 DEF Loads
    <2>6. QED
        BY <2>2, <2>3, <2>4, <2>5
<1>8. Uncancelled(p, nx, {t})
    BY <1>3 DEF Uncancelled
<1>9. QED
    BY <1>3, <1>4, <1>5, <1>6, <1>7, <1>8 DEF Good

\* A dialog starts a worker.
LEMMA DialogStarts ==
    ASSUME NEW p, NEW w, NEW q, NEW th, NEW ow, NEW ac, NEW ds, NEW c,
           Good(p, w, q, th, ow, ac, ds, c), ~Starting(q),
           NEW job \in DialogJobs,
           NEW t \in Threads, th[t].state = "free",
           NEW nx \in [Threads -> Workers], nx[t].job = job, nx[t].state = "running",
           ~nx[t].cancelled, \A u \in Threads : u # t => nx[u] = th[u],
           NEW e \in Seq(Dialogs), Waits(e, ow \cup {t}, ac),
           NEW k \in 0..MaxClicks
    PROVE  Good(p, w, q, nx, ow \cup {t}, ac, e, k)
<1>1. job \in Jobs /\ job \notin {"refresh", "status"}
    BY DEF Jobs, DialogJobs, SettingsJobs, CalculationJobs
<1>2. /\ th \in [Threads -> Workers] /\ Owned(th, ow, ac) /\ ow \subseteq Threads
      /\ ac \subseteq ow
    BY DEF Good, Typed, Owned
<1>3. t \notin ow /\ t \notin ac
    BY <1>2 DEF Owned
<1>4. Owned(nx, ow \cup {t}, ac)
    BY <1>2, <1>3 DEF Owned
<1>5. Typed(p, w, q, nx, ow \cup {t}, ac, e, k)
    BY <1>2, <1>3 DEF Good, Typed
<1>6. Buttons(w, ac) /\ StartInv(q, w, ow \cup {t}, e) /\ IdleInv(p, q, w, ac) /\ Once(q)
    BY DEF Good, StartInv
<1>7. \A u \in ac : nx[u] = th[u]
    BY <1>2, <1>3
<1>8. EarlyInv(p, q, w, nx, ac)
    BY <1>1, <1>3, <1>7 DEF Good, EarlyInv
<1>9. Uncancelled(p, nx, ac)
    BY <1>7 DEF Good, Uncancelled
<1>10. QED
    BY <1>5, <1>6, <1>8, <1>9, <1>4 DEF Good

\* Once something was loaded or configured, little is left to keep.
LEMMA Later ==
    ASSUME NEW p, NEW w, NEW q, NEW th, NEW ow, NEW ac, NEW ds, NEW c,
           Good(p, w, q, th, ow, ac, ds, c), ~Starting(q),
           NEW v \in Windows, ~Early(v), Buttons(v, ac), IdleInv(p, q, v, ac),
           NEW r \in Seq(Callbacks), Once(r), ~Starting(r),
           NEW nx \in [Threads -> Workers],
           \A t \in Threads : nx[t].job = th[t].job,
           \A t \in Threads : (nx[t].state = "free") <=> (th[t].state = "free"),
           \A t \in ac : ~th[t].cancelled => ~nx[t].cancelled,
           NEW e \in Seq(Dialogs), Waits(e, ow, ac)
    PROVE  Good(p, v, r, nx, ow, ac, e, c)
<1>1. Typed(p, v, r, nx, ow, ac, e, c)
    BY DEF Good, Typed
<1>2. Owned(nx, ow, ac)
    BY SameOwned DEF Good, Typed
<1>3. StartInv(r, v, ow, e) /\ IdleInv(p, r, v, ac) /\ EarlyInv(p, r, v, nx, ac)
    BY DEF StartInv, IdleInv, EarlyInv
<1>4. Uncancelled(p, nx, ac)
    BY DEF Good, Uncancelled
<1>5. QED
    BY <1>1, <1>2, <1>3, <1>4 DEF Good

-----------------------------------------------------------------------------
(* The frame of a step *)

LEMMA Basics ==
    ASSUME IInv
    PROVE  /\ phase \in Phases /\ window \in Windows /\ queue \in Seq(Callbacks)
           /\ threads \in [Threads -> Workers] /\ owned \subseteq Threads
           /\ active \subseteq owned /\ active \subseteq Threads
           /\ dialogs \in Seq(Dialogs) /\ clicks \in 0..MaxClicks
           /\ Once(queue) /\ Waits(dialogs, owned, active)
           /\ owned # {} \/ dialogs # <<>> => ~Starting(queue)
           /\ \A t \in Threads : t \in owned <=> threads[t].state # "free"
           /\ \A t \in owned : t \in active <=> threads[t].job \notin DialogJobs
BY DEF IInv, Good, Typed, Phases, Owned, StartInv

LEMMA TimerTaken ==
    ASSUME IInv, NEW callback, Timer(callback)
    PROVE  /\ queue' \in Seq(Callbacks) /\ Once(queue') /\ ~Starting(queue')
           /\ Calm(queue) => Calm(queue')
           /\ callback # "load_initial_state" => ~Starting(queue)
           /\ callback = "load_initial_state" => Starting(queue)
           /\ callback \in {"refresh_devices", "status"} => ~Calm(queue)
<1>1. /\ queue \in Seq(Callbacks) /\ queue # <<>> /\ Once(queue) /\ queue' = Tail(queue)
      /\ Head(queue) = callback
    BY Basics DEF Timer
<1>2. /\ queue' \in Seq(Callbacks) /\ Once(queue') /\ ~Starting(queue')
      /\ Calm(queue) => Calm(queue')
      /\ Head(queue) = queue[1] /\ Len(queue) \in Nat /\ Len(queue) > 0
    BY <1>1, Taken
<1>3. 1 \in 1..Len(queue)
    BY <1>2
<1>4. QED
    BY <1>1, <1>2, <1>3 DEF Starting, Calm

\* The window starts a worker with its buttons off.
LEMMA WorkerRuns ==
    ASSUME IInv, active = {}, NEW job \in WindowJobs, NEW v \in Windows, RunWorker(job, v),
           v.boot = window.boot, v.configured = window.configured, v.again = window.again,
           ~v.refresh,
           queue' \in Seq(Callbacks), Once(queue'), ~Starting(queue'),
           Calm(queue) => Calm(queue'),
           Early(window) => /\ v.panel \in {"loading", "error"}
                            /\ job \notin {"refresh", "status"}
                            /\ phase = "running" /\ v.panel = "loading" => job = "bootstrap",
           phase' = phase, dialogs' = dialogs, clicks' \in 0..MaxClicks
    PROVE  IInv'
<1>1. /\ window' \in Windows /\ window'.boot = window.boot
      /\ window'.configured = window.configured /\ window'.again = window.again
      /\ ~window'.refresh /\ ~window'.status /\ window'.panel = v.panel
    BY DEF RunWorker, Windows
<1>2. PICK t \in Threads : Started(t, job) /\ active' = active \cup {t}
    BY DEF RunWorker
<1>3. job \in Jobs
    BY DEF WindowJobs, Background, Jobs
<1>4. /\ threads[t].state = "free" /\ owned' = owned \cup {t}
      /\ threads' \in [Threads -> Workers]
      /\ threads'[t].job = job /\ threads'[t].state = "running"
      /\ ~threads'[t].cancelled
      /\ \A u \in Threads : u # t => threads'[u] = threads[u]
    BY <1>2, <1>3, Basics, Begun
<1>5. Good(phase, window, queue, threads, owned, {}, dialogs, clicks)
    BY DEF IInv
<1>6. Good(phase, window', queue', threads', owned \cup {t}, {t}, dialogs, clicks')
    BY <1>1, <1>4, <1>5, WindowStarts
<1>7. active' = {t}
    BY <1>2
<1>8. QED
    BY <1>4, <1>6, <1>7 DEF IInv

\* Neither the window nor a worker is touched.
LEMMA NothingRuns ==
    ASSUME IInv, NoWorker, phase' \in Phases, phase' = "running" => phase = "running",
           queue' \in Seq(Callbacks), Once(queue'), Starting(queue') <=> Starting(queue),
           Calm(queue) => Calm(queue'),
           dialogs' \in Seq(Dialogs), Waits(dialogs', owned, active),
           Starting(queue) => dialogs' = <<>>,
           clicks' \in 0..MaxClicks
    PROVE  IInv'
<1>1. Good(phase, window, queue, threads, owned, active, dialogs, clicks)
    BY DEF IInv
<1>2. Early(window) => window.panel \in {"loading", "error"}
    BY <1>1 DEF Good, EarlyInv
<1>3. /\ window \in Windows /\ threads \in [Threads -> Workers]
      /\ \A t \in Threads : threads[t].job = threads[t].job
      /\ \A t \in Threads : (threads[t].state = "free") <=> (threads[t].state = "free")
    BY Basics
<1>4. Good(phase', window, queue', threads, owned, active, dialogs', clicks')
    BY <1>1, <1>2, <1>3, Kept, SMTT(60)
<1>5. QED
    BY <1>4 DEF NoWorker, IInv

-----------------------------------------------------------------------------
(* The user *)

LEMMA OnWindowFrame ==
    ASSUME IInv, OnWindow
    PROVE  /\ phase' = phase /\ queue' = queue /\ dialogs' = dialogs
           /\ clicks' \in 0..MaxClicks
BY Basics, UserAssumption DEF OnWindow, Click

\* load_initial_state, of a window that shows an error or was just opened.
LEMMA Loading ==
    ASSUME IInv, LoadInitialState,
           queue' \in Seq(Callbacks), Once(queue'), ~Starting(queue'),
           Calm(queue) => Calm(queue'),
           ~Starting(queue) \/ (window.boot /\ active = {}),
           phase' = phase, dialogs' = dialogs, clicks' \in 0..MaxClicks
    PROVE  IInv'
<1>1. CASE window.boot /\ active = {}
    <2>1. PICK v : v = [window EXCEPT !.panel = "loading", !.refresh = FALSE]
        OBVIOUS
    <2>2. /\ v \in Windows /\ v.boot = window.boot /\ v.configured = window.configured
          /\ v.again = window.again /\ ~v.refresh /\ v.panel = "loading"
        BY <2>1, Basics DEF Windows
    <2>3. RunWorker("bootstrap", v) /\ "bootstrap" \in WindowJobs
        BY <1>1, <2>1 DEF LoadInitialState, WindowJobs
    <2>4. QED
        BY <1>1, <2>2, <2>3, WorkerRuns
<1>2. CASE ~(window.boot /\ active = {})
    <2>1. NoWorker
        BY <1>2 DEF LoadInitialState
    <2>2. QED
        BY <1>2, <2>1, Basics, NothingRuns
<1>3. QED
    BY <1>1, <1>2

LEMMA RetryStep == ASSUME IInv, ClickRetry PROVE IInv'
<1>1. ~Starting(queue)
    BY DEF ClickRetry, IInv, Good, StartInv
<1>2. QED
    BY <1>1, Basics, OnWindowFrame, Loading DEF ClickRetry

\* refresh_devices, once something was loaded or configured.
LEMMA Refreshing ==
    ASSUME IInv, RefreshDevices, ~Early(window), ~Starting(queue),
           queue' \in Seq(Callbacks), Once(queue'), ~Starting(queue'),
           Calm(queue) => Calm(queue'),
           phase' = phase, dialogs' = dialogs, clicks' \in 0..MaxClicks
    PROVE  IInv'
<1>1. CASE ~window.configured
    <2>1. /\ window' = [window EXCEPT !.panel = "settings"]
          /\ UNCHANGED <<threads, owned, active>>
        BY <1>1 DEF RefreshDevices
    <2>2. /\ window' \in Windows /\ window'.boot = window.boot
          /\ window'.configured = window.configured /\ window'.again = window.again
          /\ window'.refresh = window.refresh /\ window'.status = window.status
          /\ window'.settings = window.settings
        BY <2>1, Basics DEF Windows
    <2>3. Good(phase, window, queue, threads, owned, active, dialogs, clicks)
        BY DEF IInv
    <2>4. Good(phase, window', queue', threads, owned, active, dialogs, clicks')
        BY <2>2, <2>3, Basics, Kept
    <2>5. QED
        BY <2>1, <2>4 DEF IInv
<1>2. CASE window.configured /\ active = {}
    <2>1. PICK v : v = [window EXCEPT !.refresh = FALSE]
        OBVIOUS
    <2>2. /\ v \in Windows /\ v.boot = window.boot /\ v.configured = window.configured
          /\ v.again = window.again /\ ~v.refresh
        BY <2>1, Basics DEF Windows
    <2>3. RunWorker("refresh", v) /\ "refresh" \in WindowJobs
        BY <1>2, <2>1 DEF RefreshDevices, WindowJobs
    <2>4. QED
        BY <1>2, <2>2, <2>3, WorkerRuns
<1>3. CASE window.configured /\ active # {}
    <2>1. NoWorker
        BY <1>3 DEF RefreshDevices
    <2>2. QED
        BY <2>1, Basics, NothingRuns
<1>4. QED
    BY <1>1, <1>2, <1>3

LEMMA RefreshStep == ASSUME IInv, ClickRefresh PROVE IInv'
<1>1. ~Early(window) /\ ~Starting(queue)
    BY DEF ClickRefresh, IInv, Good, StartInv, EarlyInv
<1>2. QED
    BY <1>1, Basics, OnWindowFrame, Refreshing DEF ClickRefresh

\* run_background_operation
LEMMA BackgroundRuns ==
    ASSUME IInv, NEW job \in Background, RunBackground(job), ~Starting(queue),
           job = "status" => ~Early(window),
           queue' \in Seq(Callbacks), Once(queue'), ~Starting(queue'),
           Calm(queue) => Calm(queue'),
           phase' = phase, dialogs' = dialogs, clicks' \in 0..MaxClicks
    PROVE  IInv'
<1>1. CASE active = {}
    <2>1. PICK v : v = [window EXCEPT !.refresh = FALSE]
        OBVIOUS
    <2>2. /\ v \in Windows /\ v.boot = window.boot /\ v.configured = window.configured
          /\ v.again = window.again /\ ~v.refresh /\ v.panel = window.panel
        BY <2>1, Basics DEF Windows
    <2>3. RunWorker(job, v) /\ job \in WindowJobs /\ job # "refresh"
        BY <1>1, <2>1 DEF RunBackground, WindowJobs, Background
    <2>4. Early(window) => /\ window.panel \in {"loading", "error"}
                           /\ ~(phase = "running" /\ window.panel = "loading")
        BY <1>1 DEF IInv, Good, EarlyInv
    <2>5. QED
        BY <1>1, <2>2, <2>3, <2>4, WorkerRuns
<1>2. CASE active # {}
    <2>1. NoWorker
        BY <1>2 DEF RunBackground
    <2>2. QED
        BY <2>1, Basics, NothingRuns
<1>3. QED
    BY <1>1, <1>2

LEMMA SettingsStep == ASSUME IInv, ClickSettings PROVE IInv'
<1>1. ~Starting(queue)
    BY DEF ClickSettings, IInv, Good, StartInv
<1>2. "settings" \in Background
    BY DEF Background
<1>3. QED
    BY <1>1, <1>2, Basics, OnWindowFrame, BackgroundRuns DEF ClickSettings

LEMMA RowStep == ASSUME IInv, ClickRow PROVE IInv'
<1>1. ~Starting(queue) /\ ~Early(window)
    BY DEF ClickRow, IInv, Good, StartInv, EarlyInv
<1>2. PICK job \in {"calculation", "history", "status"} : RunBackground(job)
    BY DEF ClickRow
<1>3. job \in Background
    BY DEF Background
<1>4. QED
    BY <1>1, <1>2, <1>3, Basics, OnWindowFrame, BackgroundRuns DEF ClickRow

-----------------------------------------------------------------------------
(* Dialogs and quitting *)

LEMMA OnDialogFrame ==
    ASSUME IInv, OnDialog
    PROVE  /\ phase' = phase /\ window' = window /\ active' = active
           /\ clicks' \in 0..MaxClicks /\ dialogs # <<>> /\ ~Starting(queue)
           /\ Top \in Dialogs /\ Len(dialogs) \in 1..Len(dialogs)
           /\ Top.thread # NoThread => Top.thread \in owned \ active
<1>1. /\ phase' = phase /\ window' = window /\ active' = active
      /\ clicks' \in 0..MaxClicks /\ dialogs # <<>>
    BY Basics, UserAssumption DEF OnDialog, Click
<1>2. dialogs \in Seq(Dialogs) /\ ~Starting(queue) /\ Waits(dialogs, owned, active)
    BY <1>1, Basics
<1>3. Top \in Dialogs /\ Len(dialogs) \in 1..Len(dialogs)
    BY <1>1, <1>2 DEF Top
<1>4. Top.thread # NoThread => Top.thread \in owned \ active
    BY <1>2, <1>3 DEF Top, Waits
<1>5. QED
    BY <1>1, <1>2, <1>3, <1>4

\* A changed dialog waits for nothing, for a thread that it may wait for, or
\* for the one it waited for before.
LEMMA ChangedTop ==
    ASSUME NEW ds \in Seq(Dialogs), NEW ow, NEW ac, NEW pool, Waits(ds, ow, ac),
           ow \ ac \subseteq pool \ ac,
           NEW n \in 1..Len(ds), NEW d \in Dialogs,
           d.thread # NoThread => d.thread \in pool \ ac,
           NEW e, e = [ds EXCEPT ![n] = d]
    PROVE  e \in Seq(Dialogs) /\ Waits(e, pool, ac)
<1>1. /\ e \in Seq(Dialogs) /\ Len(e) = Len(ds) /\ e[n] = d
      /\ \A m \in 1..Len(ds) : m # n => e[m] = ds[m]
    OBVIOUS
<1>2. Waits(e, pool, ac)
    BY <1>1 DEF Waits
<1>3. QED
    BY <1>1, <1>2

LEMMA StartInDialogStep == ASSUME IInv, StartInDialog PROVE IInv'
<1>1. PICK t \in Threads, job \in SettingsJobs \cup CalculationJobs :
          Started(t, job) /\ ChangeTop([Top EXCEPT !.thread = t])
    BY DEF StartInDialog
<1>2. OnDialog /\ queue' = queue
    BY DEF StartInDialog
<1>3. job \in DialogJobs /\ job \in Jobs
    BY DEF DialogJobs, Jobs, SettingsJobs, CalculationJobs
<1>4. /\ threads[t].state = "free" /\ owned' = owned \cup {t}
      /\ threads' \in [Threads -> Workers]
      /\ threads'[t].job = job /\ threads'[t].state = "running"
      /\ ~threads'[t].cancelled
      /\ \A u \in Threads : u # t => threads'[u] = threads[u]
    BY <1>1, <1>3, Basics, Begun
<1>5. PICK d : d = [Top EXCEPT !.thread = t]
    OBVIOUS
<1>6. d \in Dialogs /\ d.thread = t
    BY <1>2, <1>5, OnDialogFrame DEF Dialogs
<1>7. t \notin active /\ t \notin owned
    BY <1>4, Basics
<1>8. dialogs' = [dialogs EXCEPT ![Len(dialogs)] = d]
    BY <1>1, <1>5 DEF ChangeTop
<1>9. dialogs' \in Seq(Dialogs) /\ Waits(dialogs', owned \cup {t}, active)
    BY <1>2, <1>6, <1>7, <1>8, Basics, OnDialogFrame, ChangedTop
<1>10. Good(phase, window, queue, threads, owned, active, dialogs, clicks)
    BY DEF IInv
<1>11. Good(phase, window, queue, threads', owned \cup {t}, active, dialogs', clicks')
    BY <1>2, <1>3, <1>4, <1>9, <1>10, OnDialogFrame, DialogStarts
<1>12. QED
    BY <1>2, <1>4, <1>11, OnDialogFrame DEF IInv

\* A dialog is over or waits on; its thread may be cancelled.
LEMMA DialogChanges ==
    ASSUME IInv, UNCHANGED <<phase, window, owned, active>>, clicks' \in 0..MaxClicks,
           ~Starting(queue), queue' \in Seq(Callbacks), Once(queue'), ~Starting(queue'),
           Calm(queue) => Calm(queue'), NEW n \in 1..Len(dialogs),
           NEW d \in Dialogs, d.thread = NoThread \/ d.thread = dialogs[n].thread,
           dialogs' = [dialogs EXCEPT ![n] = d],
           \/ threads' = threads
           \/ dialogs[n].thread # NoThread /\ threads' = Interrupted(dialogs[n].thread)
    PROVE  IInv'
<1>1. dialogs' \in Seq(Dialogs) /\ Waits(dialogs', owned, active)
    <2>1. dialogs \in Seq(Dialogs) /\ Waits(dialogs, owned, active)
        BY Basics
    <2>2. d.thread # NoThread => d.thread \in owned \ active
        BY <2>1 DEF Waits
    <2>3. QED
        BY <2>1, <2>2, ChangedTop
<1>2. /\ threads' \in [Threads -> Workers]
      /\ \A t \in Threads : threads'[t].job = threads[t].job
      /\ \A t \in Threads : (threads'[t].state = "free") <=> (threads[t].state = "free")
      /\ \A t \in active : threads'[t] = threads[t]
    <2>1. CASE threads' = threads
        BY <2>1, Basics
    <2>2. CASE dialogs[n].thread # NoThread /\ threads' = Interrupted(dialogs[n].thread)
        <3>1. PICK t \in Threads : t = dialogs[n].thread /\ t \notin active
            BY <2>2, Basics DEF Waits
        <3>2. PICK worker : worker = [threads[t] EXCEPT !.cancelled = TRUE]
            OBVIOUS
        <3>3. /\ worker \in Workers /\ worker.job = threads[t].job
              /\ worker.state = threads[t].state
            BY <3>2, Basics DEF Workers
        <3>4. threads' = [threads EXCEPT ![t] = worker]
            BY <2>2, <3>1, <3>2 DEF Interrupted
        <3>5. QED
            BY <3>1, <3>3, <3>4, Basics
    <2>3. QED
        BY <2>1, <2>2
<1>3. Good(phase, window, queue, threads, owned, active, dialogs, clicks)
    BY DEF IInv
<1>4. PICK q, th, ds, c : q = queue' /\ th = threads' /\ ds = dialogs' /\ c = clicks'
    OBVIOUS
<1>5. /\ q \in Seq(Callbacks) /\ Once(q) /\ ~Starting(q) /\ (Calm(queue) => Calm(q))
      /\ ds \in Seq(Dialogs) /\ Waits(ds, owned, active) /\ c \in 0..MaxClicks
    BY <1>1, <1>4
<1>6. /\ th \in [Threads -> Workers] /\ active \subseteq Threads
      /\ \A t \in Threads : th[t].job = threads[t].job
      /\ \A t \in Threads : (th[t].state = "free") <=> (threads[t].state = "free")
      /\ \A t \in active : th[t] = threads[t]
    BY <1>2, <1>4, Basics
<1>7. Good(phase, window, q, th, owned, active, ds, c)
    <2>1. Typed(phase, window, q, th, owned, active, ds, c)
        BY <1>3, <1>5, <1>6 DEF Good, Typed
    <2>2. Owned(th, owned, active)
        BY <1>3, <1>6, SameOwned DEF Good, Typed
    <2>3. /\ Buttons(window, active) /\ StartInv(q, window, owned, ds)
          /\ IdleInv(phase, q, window, active)
        BY <1>3, <1>5 DEF Good, StartInv, IdleInv
    <2>4. EarlyInv(phase, q, window, th, active)
        BY <1>3, <1>5, <1>6 DEF Good, EarlyInv
    <2>5. Uncancelled(phase, th, active)
        BY <1>3, <1>6 DEF Good, Uncancelled
    <2>6. QED
        BY <1>5, <2>1, <2>2, <2>3, <2>4, <2>5 DEF Good
<1>8. QED
    BY <1>4, <1>7 DEF IInv

\* What reject() makes of a dialog.
LEMMA RejectedDialog ==
    ASSUME NEW n \in DOMAIN dialogs, NEW d \in Dialogs, RejectDialog(n, d)
    PROVE  \E e \in Dialogs :
               /\ e.thread = NoThread \/ e.thread = d.thread
               /\ dialogs' = [dialogs EXCEPT ![n] = e]
               /\ e.over \/ (e.thread # NoThread /\ e.closing)
               /\ e.kind = d.kind /\ e.rejecting = d.rejecting
               /\ e.thread # NoThread => e.over = d.over
               /\ \/ threads' = threads
                  \/ d.thread # NoThread /\ threads' = Interrupted(d.thread)
<1>1. PICK over, gone, closing :
          /\ over = [d EXCEPT !.over = TRUE]
          /\ gone = [d EXCEPT !.over = TRUE, !.thread = NoThread]
          /\ closing = [d EXCEPT !.closing = TRUE]
    OBVIOUS
<1>2. /\ over \in Dialogs /\ over.thread = d.thread /\ over.over
      /\ over.kind = d.kind /\ over.rejecting = d.rejecting
    BY <1>1 DEF Dialogs
<1>3. /\ gone \in Dialogs /\ gone.thread = NoThread /\ gone.over
      /\ gone.kind = d.kind /\ gone.rejecting = d.rejecting
    BY <1>1 DEF Dialogs
<1>4. /\ closing \in Dialogs /\ closing.thread = d.thread /\ closing.closing
      /\ closing.kind = d.kind /\ closing.rejecting = d.rejecting /\ closing.over = d.over
    BY <1>1 DEF Dialogs
<1>5. CASE d.thread = NoThread
    BY <1>1, <1>2, <1>5 DEF RejectDialog
<1>6. CASE d.thread # NoThread /\ threads[d.thread].job = "import"
    BY <1>1, <1>3, <1>6 DEF RejectDialog
<1>7. CASE d.thread # NoThread /\ threads[d.thread].job # "import"
    BY <1>1, <1>4, <1>7 DEF RejectDialog
<1>8. QED
    BY <1>5, <1>6, <1>7

LEMMA RejectStep == ASSUME IInv, Reject PROVE IInv'
<1>1. /\ OnDialog /\ owned' = owned /\ queue' \in Seq(Callbacks) /\ Once(queue')
      /\ ~Starting(queue') /\ (Calm(queue) => Calm(queue'))
    BY Basics, OnDialogFrame DEF Reject
<1>2. PICK n : n = Len(dialogs)
    OBVIOUS
<1>3. n \in DOMAIN dialogs /\ n \in 1..Len(dialogs) /\ Top = dialogs[n] /\ Top \in Dialogs
    BY <1>1, <1>2, Basics, OnDialogFrame DEF Top
<1>4. RejectDialog(n, dialogs[n])
    BY <1>2, <1>3 DEF Reject
<1>5. PICK d \in Dialogs :
          /\ d.thread = NoThread \/ d.thread = dialogs[n].thread
          /\ dialogs' = [dialogs EXCEPT ![n] = d]
          /\ \/ threads' = threads
             \/ dialogs[n].thread # NoThread /\ threads' = Interrupted(dialogs[n].thread)
    BY <1>3, <1>4, RejectedDialog
<1>6. /\ UNCHANGED <<phase, window, owned, active>> /\ clicks' \in 0..MaxClicks
      /\ ~Starting(queue)
    BY <1>1, OnDialogFrame
<1>7. QED
    BY <1>1, <1>3, <1>5, <1>6, DialogChanges

LEMMA CloudSettingsStep == ASSUME IInv, CloudSettings PROVE IInv'
<1>1. OnDialog /\ owned' = owned /\ threads' = threads /\ queue' = Append(queue, "show_settings")
    BY DEF CloudSettings, Post
<1>2. "show_settings" \in Callbacks
    BY DEF Callbacks
<1>3. /\ queue' \in Seq(Callbacks) /\ Once(queue') /\ ~Starting(queue')
      /\ Calm(queue) => Calm(queue')
    BY <1>1, <1>2, Basics, OnDialogFrame, Appended
<1>4. PICK d : d = [Top EXCEPT !.over = TRUE]
    OBVIOUS
<1>5. d \in Dialogs /\ d.thread = Top.thread
    BY <1>1, <1>4, OnDialogFrame DEF Dialogs
<1>6. PICK n : n = Len(dialogs)
    OBVIOUS
<1>7. n \in 1..Len(dialogs) /\ Top = dialogs[n]
    BY <1>1, <1>6, Basics, OnDialogFrame DEF Top
<1>8. dialogs' = [dialogs EXCEPT ![n] = d]
    BY <1>4, <1>6 DEF CloudSettings, ChangeTop
<1>9. /\ UNCHANGED <<phase, window, owned, active>> /\ clicks' \in 0..MaxClicks
      /\ ~Starting(queue)
    BY <1>1, OnDialogFrame
<1>10. QED
    BY <1>1, <1>3, <1>5, <1>7, <1>8, <1>9, DialogChanges

LEMMA RequestQuitStep == ASSUME IInv, RequestQuit PROVE IInv'
<1>1. /\ phase' = "closing" /\ phase' \in Phases
      /\ owned' = owned /\ active' = active /\ dialogs' = dialogs /\ clicks' = clicks
    BY DEF RequestQuit, Phases
<1>2. /\ window' \in Windows /\ window'.boot = window.boot
      /\ window'.configured = window.configured /\ window'.again = window.again
      /\ window'.panel = window.panel
      /\ ~window'.refresh /\ ~window'.status /\ ~window'.settings
    BY Basics DEF RequestQuit, Windows
<1>3. /\ threads' \in [Threads -> Workers]
      /\ \A t \in Threads : threads'[t].job = threads[t].job
      /\ \A t \in Threads : (threads'[t].state = "free") <=> (threads[t].state = "free")
      /\ \A t \in active : Loads(threads[t]) => Loads(threads'[t])
    <2>1. threads' = [t \in Threads |-> [threads[t] EXCEPT !.cancelled = @ \/ t \in owned]]
        BY DEF RequestQuit
    <2>2. ASSUME NEW t \in Threads
          PROVE  /\ threads'[t] \in Workers /\ threads'[t].job = threads[t].job
                 /\ threads'[t].state = threads[t].state
                 /\ threads'[t].outcome = threads[t].outcome
        <3>1. PICK gone \in BOOLEAN : gone = (threads[t].cancelled \/ t \in owned)
            OBVIOUS
        <3>2. threads'[t] = [threads[t] EXCEPT !.cancelled = gone] /\ threads[t] \in Workers
            BY <2>1, <3>1, Basics
        <3>3. QED
            BY <3>2 DEF Workers
    <2>3. threads' \in [Threads -> Workers]
        BY <2>1, <2>2
    <2>4. QED
        BY <2>2, <2>3, Basics DEF Loads
<1>4. /\ queue' \in Seq(Callbacks) /\ Once(queue') /\ (Starting(queue') <=> Starting(queue))
      /\ Calm(queue) => Calm(queue')
    <2>1. "_finish" \in Callbacks
        BY DEF Callbacks
    <2>2. CASE owned = {}
        BY <2>1, <2>2, Basics, Appended DEF RequestQuit, Post
    <2>3. CASE owned # {}
        BY <2>3, Basics DEF RequestQuit
    <2>4. QED
        BY <2>2, <2>3
<1>5. Good(phase, window, queue, threads, owned, active, dialogs, clicks)
    BY DEF IInv
<1>6. Early(window) => window.panel \in {"loading", "error"}
    BY <1>5 DEF Good, EarlyInv
<1>7. /\ dialogs \in Seq(Dialogs) /\ Waits(dialogs, owned, active)
      /\ Starting(queue) => dialogs = <<>>
      /\ clicks \in 0..MaxClicks
    BY Basics
<1>8. Good(phase', window', queue', threads', owned, active, dialogs, clicks)
    BY <1>1, <1>2, <1>3, <1>4, <1>5, <1>6, <1>7, Kept, SMTT(60)
<1>9. QED
    BY <1>1, <1>8 DEF IInv

LEMMA QuitEventStep == ASSUME IInv, QuitEvent PROVE IInv'
BY Basics, NothingRuns DEF QuitEvent, NoWorker, Phases

-----------------------------------------------------------------------------
(* Workers and their results *)

\* A worker that is not free remains its owner's; any other is untouched.
LEMMA WorkerChanges ==
    ASSUME IInv, NEW t \in Threads, threads[t].state # "free", NEW worker \in Workers,
           worker.job = threads[t].job, worker.state # "free",
           worker.cancelled = threads[t].cancelled,
           threads' = [threads EXCEPT ![t] = worker]
    PROVE  /\ threads' \in [Threads -> Workers] /\ threads'[t] = worker
           /\ \A u \in Threads : u # t => threads'[u] = threads[u]
           /\ \A u \in Threads : threads'[u].job = threads[u].job
           /\ \A u \in Threads : (threads'[u].state = "free") <=> (threads[u].state = "free")
           /\ \A u \in Threads : ~threads[u].cancelled => ~threads'[u].cancelled
           /\ t \in owned /\ ~Starting(queue)
<1>1. /\ threads' \in [Threads -> Workers] /\ threads'[t] = worker
      /\ \A u \in Threads : u # t => threads'[u] = threads[u]
    BY Basics
<1>2. t \in owned /\ ~Starting(queue)
    BY Basics
<1>3. QED
    BY <1>1, <1>2

LEMMA RunEndsStep == ASSUME IInv, NEW t \in Threads, RunEnds(t) PROVE IInv'
<1>1. PICK outcome \in {"none", "succeeded", "failed"} :
          /\ threads' = [threads EXCEPT ![t].state = "done", ![t].outcome = outcome]
          /\ ~threads[t].cancelled => outcome # "none"
    BY DEF RunEnds
<1>2. PICK worker : worker = [threads[t] EXCEPT !.state = "done", !.outcome = outcome]
    OBVIOUS
<1>3. /\ worker \in Workers /\ worker.job = threads[t].job /\ worker.state = "done"
      /\ worker.cancelled = threads[t].cancelled /\ worker.outcome = outcome
    BY <1>2, Basics DEF Workers
<1>4. threads' = [threads EXCEPT ![t] = worker]
    BY <1>1, <1>2, Basics
<1>5. threads[t].state # "free"
    BY DEF RunEnds
<1>6. /\ threads' \in [Threads -> Workers] /\ threads'[t] = worker
      /\ \A u \in Threads : u # t => threads'[u] = threads[u]
      /\ \A u \in Threads : threads'[u].job = threads[u].job
      /\ \A u \in Threads : (threads'[u].state = "free") <=> (threads[u].state = "free")
      /\ \A u \in Threads : ~threads[u].cancelled => ~threads'[u].cancelled
      /\ t \in owned /\ ~Starting(queue)
    BY <1>3, <1>4, <1>5, WorkerChanges
<1>7. Good(phase, window, queue, threads, owned, active, dialogs, clicks)
    BY DEF IInv
<1>8. phase = "running" => \A u \in active : Loads(threads[u]) => Loads(threads'[u])
    BY <1>1, <1>3, <1>6, <1>7, Basics DEF Loads, Good, Uncancelled
<1>9. Early(window) => window.panel \in {"loading", "error"}
    BY <1>7 DEF Good, EarlyInv
<1>10. Good(phase, window, queue, threads', owned, active, dialogs, clicks)
    BY <1>6, <1>7, <1>8, <1>9, Basics, Kept, SMTT(60)
<1>11. QED
    BY <1>10 DEF RunEnds, IInv

\* What a posted result says of its thread, which has one result less.
LEMMA ResultHandled ==
    ASSUME IInv, NEW t \in Threads, NEW outcome \in {"succeeded", "failed"},
           Posted(t, outcome), Handled(t)
    PROVE  /\ threads' \in [Threads -> Workers]
           /\ \A u \in Threads : u # t => threads'[u] = threads[u]
           /\ \A u \in Threads : threads'[u].job = threads[u].job
           /\ \A u \in Threads : (threads'[u].state = "free") <=> (threads[u].state = "free")
           /\ \A u \in Threads : ~threads[u].cancelled => ~threads'[u].cancelled
           /\ t \in owned /\ ~Starting(queue)
           /\ t \in active <=> threads[t].job \notin DialogJobs
<1>1. PICK worker : worker = [threads[t] EXCEPT !.outcome = "none"]
    OBVIOUS
<1>2. /\ worker \in Workers /\ worker.job = threads[t].job
      /\ worker.state = threads[t].state /\ threads[t].state = "done"
      /\ worker.cancelled = threads[t].cancelled
    BY <1>1, Basics DEF Workers, Posted
<1>3. threads' = [threads EXCEPT ![t] = worker]
    BY <1>1, Basics DEF Handled
<1>4. /\ threads' \in [Threads -> Workers] /\ threads'[t] = worker
      /\ \A u \in Threads : u # t => threads'[u] = threads[u]
      /\ \A u \in Threads : threads'[u].job = threads[u].job
      /\ \A u \in Threads : (threads'[u].state = "free") <=> (threads[u].state = "free")
      /\ \A u \in Threads : ~threads[u].cancelled => ~threads'[u].cancelled
      /\ t \in owned /\ ~Starting(queue)
    BY <1>2, <1>3, WorkerChanges
<1>5. t \in active <=> threads[t].job \notin DialogJobs
    BY <1>4, Basics
<1>6. QED
    BY <1>4, <1>5

LEMMA Scheduled ==
    ASSUME IInv, NEW w \in Windows, ScheduleRefresh(w)
    PROVE  /\ queue' \in Seq(Callbacks) /\ Once(queue') /\ (Starting(queue') <=> Starting(queue))
           /\ window' \in Windows /\ window'.boot = w.boot
           /\ window'.configured = w.configured /\ window'.status = w.status
           /\ window'.refresh = w.refresh /\ window'.settings = w.settings
<1>1. CASE active # {}
    BY <1>1, Basics DEF ScheduleRefresh, Windows
<1>2. CASE active = {}
    <2>1. "refresh_devices" \in Callbacks
        BY DEF Callbacks
    <2>2. window' = w /\ queue' = Append(queue, "refresh_devices")
        BY <1>2 DEF ScheduleRefresh, Post
    <2>3. QED
        BY <2>1, <2>2, Basics, Appended
<1>3. QED
    BY <1>1, <1>2

LEMMA BootstrapSucceededStep ==
    ASSUME IInv, NEW t \in Threads, BootstrapSucceeded(t) PROVE IInv'
<1>1. Posted(t, "succeeded") /\ Handled(t) /\ threads[t].job = "bootstrap"
    BY DEF BootstrapSucceeded
<1>2. /\ threads' \in [Threads -> Workers]
      /\ \A u \in Threads : threads'[u].job = threads[u].job
      /\ \A u \in Threads : (threads'[u].state = "free") <=> (threads[u].state = "free")
      /\ \A u \in Threads : ~threads[u].cancelled => ~threads'[u].cancelled
      /\ ~Starting(queue)
      /\ t \in active <=> threads[t].job \notin DialogJobs
    BY <1>1, ResultHandled
<1>3. t \in active
    BY <1>1, <1>2 DEF DialogJobs, SettingsJobs, CalculationJobs
<1>4. PICK configured, rows, v :
          /\ configured \in BOOLEAN /\ rows \in BOOLEAN
          /\ v = [window EXCEPT !.boot = FALSE, !.configured = configured, !.rows = rows]
          /\ IF configured THEN ScheduleRefresh(SetRows(v))
                           ELSE window' = SetRows(v) /\ UNCHANGED queue
    BY DEF BootstrapSucceeded
<1>5. v \in Windows /\ v.boot = FALSE
    BY <1>4, Basics DEF Windows
<1>6. PICK w : w = SetRows(v)
    OBVIOUS
<1>7. w \in Windows /\ Buttons(w, active) /\ w.boot = FALSE
    BY <1>5, <1>6, RowsWindow
<1>8. /\ queue' \in Seq(Callbacks) /\ Once(queue') /\ ~Starting(queue')
      /\ window' \in Windows /\ window'.boot = FALSE
      /\ window'.refresh = w.refresh /\ window'.status = w.status
    <2>1. CASE configured
        BY <1>2, <1>4, <1>6, <1>7, <2>1, Scheduled
    <2>2. CASE ~configured
        BY <1>2, <1>4, <1>6, <1>7, <2>2, Basics
    <2>3. QED
        BY <2>1, <2>2
<1>9. Buttons(window', active) /\ ~Early(window') /\ IdleInv(phase, queue, window', active)
    BY <1>3, <1>7, <1>8 DEF Buttons, Early, IdleInv
<1>10. Good(phase, window, queue, threads, owned, active, dialogs, clicks)
    BY DEF IInv
<1>11. Good(phase, window', queue', threads', owned, active, dialogs, clicks)
    BY <1>2, <1>8, <1>9, <1>10, Basics, Later, SMTT(60)
<1>12. QED
    BY <1>11 DEF BootstrapSucceeded, IInv

LEMMA RefreshSucceededStep ==
    ASSUME IInv, NEW t \in Threads, RefreshSucceeded(t) PROVE IInv'
<1>1. Posted(t, "succeeded") /\ Handled(t) /\ threads[t].job = "refresh"
    BY DEF RefreshSucceeded
<1>2. /\ threads' \in [Threads -> Workers]
      /\ \A u \in Threads : threads'[u].job = threads[u].job
      /\ \A u \in Threads : (threads'[u].state = "free") <=> (threads[u].state = "free")
      /\ \A u \in Threads : ~threads[u].cancelled => ~threads'[u].cancelled
      /\ ~Starting(queue)
      /\ t \in active <=> threads[t].job \notin DialogJobs
    BY <1>1, ResultHandled
<1>3. t \in active
    BY <1>1, <1>2 DEF DialogJobs, SettingsJobs, CalculationJobs
<1>4. PICK rows, v : /\ rows \in BOOLEAN /\ v = [window EXCEPT !.rows = rows]
                     /\ window' = SetRows(v)
    BY DEF RefreshSucceeded
<1>5. /\ v \in Windows /\ v.boot = window.boot /\ v.configured = window.configured
    BY <1>4, Basics DEF Windows
<1>6. /\ window' \in Windows /\ Buttons(window', active) /\ window'.boot = window.boot
      /\ window'.configured = window.configured
    BY <1>4, <1>5, RowsWindow
<1>7. Good(phase, window, queue, threads, owned, active, dialogs, clicks)
    BY DEF IInv
<1>8. ~Early(window)
    BY <1>1, <1>7 DEF Good, EarlyInv
<1>9. ~Early(window') /\ IdleInv(phase, queue, window', active)
    BY <1>3, <1>6, <1>8 DEF Early, IdleInv
<1>10. Good(phase, window', queue, threads', owned, active, dialogs, clicks)
    BY <1>2, <1>6, <1>7, <1>9, Basics, Later, SMTT(60)
<1>11. QED
    BY <1>10 DEF RefreshSucceeded, IInv

\* A result that concerns neither the window's flags nor what it loads.
LEMMA ResultPasses ==
    ASSUME IInv, NEW t \in Threads, NEW outcome \in {"succeeded", "failed"},
           Posted(t, outcome), Handled(t), threads[t].job # "bootstrap",
           queue' \in Seq(Callbacks), Once(queue'), ~Starting(queue'),
           Early(window) => (Calm(queue) => Calm(queue')),
           dialogs' \in Seq(Dialogs), Waits(dialogs', owned, active),
           UNCHANGED <<phase, window, owned, active, clicks>>
    PROVE  IInv'
<1>1. /\ threads' \in [Threads -> Workers]
      /\ \A u \in Threads : u # t => threads'[u] = threads[u]
      /\ \A u \in Threads : threads'[u].job = threads[u].job
      /\ \A u \in Threads : (threads'[u].state = "free") <=> (threads[u].state = "free")
      /\ \A u \in Threads : ~threads[u].cancelled => ~threads'[u].cancelled
      /\ ~Starting(queue)
    BY ResultHandled
<1>2. Good(phase, window, queue, threads, owned, active, dialogs, clicks)
    BY DEF IInv
<1>3. CASE Early(window)
    <2>1. \A u \in active : Loads(threads[u]) => Loads(threads'[u])
        BY <1>1, Basics DEF Loads
    <2>2. window.panel \in {"loading", "error"} /\ (Calm(queue) => Calm(queue'))
        BY <1>2, <1>3 DEF Good, EarlyInv
    <2>3. \A u \in active : ~threads[u].cancelled => ~threads'[u].cancelled
        BY <1>1, Basics
    <2>4. Good(phase, window, queue', threads', owned, active, dialogs', clicks)
        BY <1>1, <1>2, <2>1, <2>2, <2>3, Basics, Kept, SMTT(60)
    <2>5. QED
        BY <2>4 DEF IInv
<1>4. CASE ~Early(window)
    <2>1. Buttons(window, active) /\ IdleInv(phase, queue, window, active)
        BY <1>2 DEF Good
    <2>2. \A u \in active : ~threads[u].cancelled => ~threads'[u].cancelled
        BY <1>1, Basics
    <2>3. Good(phase, window, queue', threads', owned, active, dialogs', clicks)
        BY <1>1, <1>2, <1>4, <2>1, <2>2, Basics, Later, SMTT(60)
    <2>4. QED
        BY <2>3 DEF IInv
<1>5. QED
    BY <1>3, <1>4

LEMMA BackgroundSucceededStep ==
    ASSUME IInv, NEW t \in Threads, BackgroundSucceeded(t) PROVE IInv'
<1>1. /\ Posted(t, "succeeded") /\ Handled(t) /\ threads[t].job \in Background
      /\ queue' = Append(queue, threads[t].job)
      /\ UNCHANGED <<phase, window, owned, active, dialogs, clicks>>
    BY DEF BackgroundSucceeded, Post
<1>2. ~Starting(queue)
    BY <1>1, ResultHandled
<1>3. PICK job \in Background : job = threads[t].job
    BY <1>1
<1>4. job \in Callbacks /\ job # "load_initial_state" /\ job # "bootstrap" /\ job # "refresh_devices"
    BY DEF Background, Callbacks
<1>5. /\ queue' \in Seq(Callbacks) /\ Once(queue') /\ ~Starting(queue')
      /\ Calm(queue) /\ job # "status" => Calm(queue')
    BY <1>1, <1>2, <1>3, <1>4, Basics, Appended
<1>6. Early(window) => job # "status"
    BY <1>3 DEF IInv, Good, EarlyInv
<1>7. QED
    BY <1>1, <1>3, <1>4, <1>5, <1>6, Basics, ResultPasses

\* Dialogs that keep their threads, or lose some, wait for no other.
LEMMA FewerWaits ==
    ASSUME NEW ds \in Seq(Dialogs), NEW ow, NEW ac, Waits(ds, ow, ac), NEW e,
           e = [n \in DOMAIN ds |-> e[n]],
           \A n \in DOMAIN ds : /\ e[n] \in Dialogs
                                /\ e[n].thread \in {NoThread, ds[n].thread}
    PROVE  e \in Seq(Dialogs) /\ Waits(e, ow, ac)
<1>1. DOMAIN ds = 1..Len(ds) /\ Len(ds) \in Nat
    OBVIOUS
<1>2. e \in [1..Len(ds) -> Dialogs]
    BY <1>1
<1>3. e \in Seq(Dialogs) /\ Len(e) = Len(ds)
    BY <1>1, <1>2
<1>4. QED
    BY <1>1, <1>3 DEF Waits

LEMMA DialogSucceededStep ==
    ASSUME IInv, NEW t \in Threads, DialogSucceeded(t) PROVE IInv'
<1>1. /\ Posted(t, "succeeded") /\ Handled(t)
      /\ threads[t].job \in SettingsJobs \cup CalculationJobs
      /\ UNCHANGED <<phase, window, queue, owned, active, clicks>>
    BY DEF DialogSucceeded
<1>2. ~Starting(queue)
    BY <1>1, ResultHandled
<1>3. dialogs' = [n \in DOMAIN dialogs |->
                    IF n \in Waiting(t) /\ threads[t].job \in {"save", "calculate"}
                    THEN [dialogs[n] EXCEPT !.saved = TRUE] ELSE dialogs[n]]
    BY DEF DialogSucceeded
<1>4. \A n \in DOMAIN dialogs : dialogs[n] \in Dialogs
    BY Basics
<1>5. ASSUME NEW n \in DOMAIN dialogs
      PROVE  /\ dialogs'[n] \in Dialogs
             /\ dialogs'[n].thread \in {NoThread, dialogs[n].thread}
    <2>1. PICK d : d = [dialogs[n] EXCEPT !.saved = TRUE]
        OBVIOUS
    <2>2. d \in Dialogs /\ d.thread = dialogs[n].thread
        BY <1>4, <2>1 DEF Dialogs
    <2>3. dialogs'[n] = d \/ dialogs'[n] = dialogs[n]
        BY <1>3, <2>1
    <2>4. QED
        BY <1>4, <2>2, <2>3
<1>6. dialogs' = [n \in DOMAIN dialogs |-> dialogs'[n]]
    BY <1>3
<1>7. dialogs' \in Seq(Dialogs) /\ Waits(dialogs', owned, active)
    BY <1>5, <1>6, Basics, FewerWaits
<1>8. threads[t].job # "bootstrap"
    BY <1>1 DEF SettingsJobs, CalculationJobs
<1>9. QED
    BY <1>1, <1>2, <1>7, <1>8, Basics, ResultPasses

LEMMA Opened ==
    ASSUME IInv, NEW kind \in {"plain", "settings", "calculation"}, Open(kind)
    PROVE  dialogs' \in Seq(Dialogs) /\ Waits(dialogs', owned, active)
<1>1. PICK d : d = Dialog(kind)
    OBVIOUS
<1>2. d \in Dialogs /\ d.thread = NoThread
    BY <1>1 DEF Dialog, Dialogs
<1>3. dialogs' = Append(dialogs, d) /\ dialogs \in Seq(Dialogs)
    BY <1>1, Basics DEF Open
<1>4. /\ dialogs' \in Seq(Dialogs) /\ Len(dialogs') = Len(dialogs) + 1
      /\ dialogs'[Len(dialogs) + 1] = d /\ Len(dialogs) \in Nat
      /\ \A n \in 1..Len(dialogs) : dialogs'[n] = dialogs[n]
    BY <1>2, <1>3
<1>5. \A n \in 1..Len(dialogs') : n \in 1..Len(dialogs) \/ n = Len(dialogs) + 1
    BY <1>4
<1>6. Waits(dialogs', owned, active)
    BY <1>2, <1>4, <1>5, Basics DEF Waits
<1>7. QED
    BY <1>4, <1>6

LEMMA FailedStep == ASSUME IInv, NEW t \in Threads, Failed(t) PROVE IInv'
<1>1. /\ Posted(t, "failed") /\ Handled(t)
      /\ UNCHANGED <<phase, queue, owned, active, clicks>>
    BY DEF Failed
<1>2. /\ threads' \in [Threads -> Workers]
      /\ \A u \in Threads : threads'[u].job = threads[u].job
      /\ \A u \in Threads : (threads'[u].state = "free") <=> (threads[u].state = "free")
      /\ \A u \in Threads : ~threads[u].cancelled => ~threads'[u].cancelled
      /\ ~Starting(queue)
      /\ t \in active <=> threads[t].job \notin DialogJobs
    BY <1>1, ResultHandled
<1>3. dialogs' \in Seq(Dialogs) /\ Waits(dialogs', owned, active)
    <2>1. CASE dialogs' = dialogs
        BY <2>1, Basics
    <2>2. CASE Open("plain")
        BY <2>2, Opened
    <2>3. QED
        BY <2>1, <2>2 DEF Failed
<1>4. CASE threads[t].job # "bootstrap"
    <2>1. window' = window
        BY <1>4 DEF Failed
    <2>2. QED
        BY <1>1, <1>2, <1>3, <1>4, <2>1, Basics, ResultPasses
<1>5. CASE threads[t].job = "bootstrap"
    <2>1. /\ window' \in Windows /\ window'.boot = window.boot
          /\ window'.configured = window.configured /\ window'.again = window.again
          /\ window'.settings = window.settings /\ window'.status = window.status
          /\ window'.panel = "error" /\ ~window'.refresh
        BY <1>5, Basics DEF Failed, Windows
    <2>2. active # {} /\ \A u \in active : ~threads[u].cancelled => ~threads'[u].cancelled
        BY <1>2, <1>5, Basics DEF DialogJobs, SettingsJobs, CalculationJobs
    <2>3. Good(phase, window, queue, threads, owned, active, dialogs, clicks)
        BY DEF IInv
    <2>4. PICK v, nx, e : v = window' /\ nx = threads' /\ e = dialogs'
        OBVIOUS
    <2>5. /\ v \in Windows /\ v.boot = window.boot /\ v.configured = window.configured
          /\ v.again = window.again /\ v.settings = window.settings
          /\ v.status = window.status /\ v.panel = "error" /\ ~v.refresh
          /\ nx \in [Threads -> Workers]
          /\ \A u \in Threads : nx[u].job = threads[u].job
          /\ \A u \in Threads : (nx[u].state = "free") <=> (threads[u].state = "free")
          /\ \A u \in active : ~threads[u].cancelled => ~nx[u].cancelled
          /\ e \in Seq(Dialogs) /\ Waits(e, owned, active)
        BY <1>2, <1>3, <2>1, <2>2, <2>4
    <2>6. /\ phase \in Phases /\ queue \in Seq(Callbacks) /\ Once(queue)
          /\ ~Starting(queue) /\ clicks \in 0..MaxClicks
        BY <1>2, Basics
    <2>7. Good(phase, v, queue, nx, owned, active, e, clicks)
        BY <2>2, <2>3, <2>5, <2>6, Kept, SMTT(60)
    <2>8. QED
        BY <1>1, <2>4, <2>7 DEF IInv
<1>6. QED
    BY <1>4, <1>5

-----------------------------------------------------------------------------
(* The finished signal *)

LEMMA ThreadReleased ==
    ASSUME IInv, NEW t \in Threads, Released(t)
    PROVE  /\ threads' \in [Threads -> Workers] /\ threads'[t].job = "none"
           /\ \A u \in Threads : u # t => threads'[u] = threads[u]
           /\ Owned(threads', owned \ {t}, active \ {t})
           /\ t \in owned /\ ~Starting(queue) /\ ~Loads(threads[t])
           /\ owned' = owned \ {t} /\ phase' = phase /\ clicks' = clicks
<1>1. /\ threads[t].state = "done" /\ threads[t].outcome = "none"
      /\ threads' = [threads EXCEPT ![t] = Free]
      /\ owned' = owned \ {t} /\ phase' = phase /\ clicks' = clicks
    BY DEF Released, Posted
<1>2. /\ threads \in [Threads -> Workers] /\ Owned(threads, owned, active)
      /\ owned \subseteq Threads
    BY DEF IInv, Good, Typed
<1>3. /\ threads' \in [Threads -> Workers] /\ Owned(threads', owned \ {t}, active \ {t})
      /\ threads'[t].job = "none"
      /\ \A u \in Threads : u # t => threads'[u] = threads[u]
    <2>1. Free \in Workers /\ Free.state = "free" /\ Free.job = "none"
        BY DEF Free, Workers, Jobs
    <2>2. /\ threads' \in [Threads -> Workers] /\ threads'[t] = Free
          /\ \A u \in Threads : u # t => threads'[u] = threads[u]
        BY <1>1, <1>2, <2>1
    <2>3. QED
        BY <1>2, <2>1, <2>2, ReleasedOwned
<1>4. t \in owned /\ ~Starting(queue)
    BY <1>1, Basics
<1>5. ~Loads(threads[t])
    BY <1>1 DEF Loads
<1>6. QED
    BY <1>1, <1>3, <1>4, <1>5

LEMMA DrainedQueue ==
    ASSUME IInv, NEW t \in Threads, ~Starting(queue)
    PROVE  /\ Drained(t) \in Seq(Callbacks) /\ Once(Drained(t)) /\ ~Starting(Drained(t))
           /\ Calm(queue) => Calm(Drained(t))
<1>1. "_finish" \in Callbacks
    BY DEF Callbacks
<1>2. CASE owned = {t} /\ Pending
    <2>1. Drained(t) = Append(queue, "_finish")
        BY <1>2 DEF Drained, Post
    <2>2. QED
        BY <1>1, <2>1, Basics, Appended
<1>3. CASE ~(owned = {t} /\ Pending)
    <2>1. Drained(t) = queue
        BY <1>3 DEF Drained
    <2>2. QED
        BY <2>1, Basics
<1>4. QED
    BY <1>2, <1>3

LEMMA WindowWorkerFinishedStep ==
    ASSUME IInv, NEW t \in Threads, WindowWorkerFinished(t) PROVE IInv'
<1>1. t \in active /\ Released(t) /\ active' = active \ {t} /\ dialogs' = dialogs
    BY DEF WindowWorkerFinished
<1>2. /\ threads' \in [Threads -> Workers] /\ threads'[t].job = "none"
      /\ \A u \in Threads : u # t => threads'[u] = threads[u]
      /\ Owned(threads', owned \ {t}, active \ {t})
      /\ t \in owned /\ ~Starting(queue) /\ ~Loads(threads[t])
      /\ owned' = owned \ {t} /\ phase' = phase /\ clicks' = clicks
    BY <1>1, ThreadReleased
<1>3. active = {t} /\ active \ {t} = {}
    BY <1>1 DEF IInv, Good, Owned
<1>4. PICK w : w = OperationFinished(window)
    OBVIOUS
<1>5. Pending \in BOOLEAN
    BY DEF Pending
<1>6. /\ w \in Windows /\ w.boot = window.boot /\ w.configured = window.configured
      /\ w.again = window.again /\ w.panel = window.panel
      /\ w.refresh => w.configured
      /\ ~Pending => /\ w.settings /\ w.status = w.configured
                     /\ w.configured /\ ~w.boot => w.refresh
    BY <1>4, <1>5, Basics DEF OperationFinished, Windows
<1>7. PICK q : q = Drained(t)
    OBVIOUS
<1>8. /\ q \in Seq(Callbacks) /\ Once(q) /\ ~Starting(q) /\ (Calm(queue) => Calm(q))
    BY <1>2, <1>7, DrainedQueue
<1>9. /\ window' \in Windows /\ window'.boot = window.boot
      /\ window'.configured = window.configured /\ window'.panel = window.panel
      /\ window'.refresh => window'.configured
      /\ ~Pending => /\ window'.settings /\ window'.status = window'.configured
                     /\ window'.configured /\ ~window'.boot => window'.refresh
      /\ ~window.again => ~window'.again
      /\ queue' \in Seq(Callbacks) /\ Once(queue') /\ ~Starting(queue')
      /\ Calm(queue) /\ ~window.again => Calm(queue')
    <2>1. CASE Pending
        <3>1. window' = w /\ queue' = Append(q, "close")
            BY <1>3, <1>4, <1>7, <2>1 DEF WindowWorkerFinished
        <3>2. "close" \in Callbacks
            BY DEF Callbacks
        <3>3. /\ queue' \in Seq(Callbacks) /\ Once(queue') /\ ~Starting(queue')
              /\ Calm(q) => Calm(queue')
            BY <1>8, <3>1, <3>2, Appended
        <3>4. QED
            BY <1>6, <1>8, <2>1, <3>1, <3>3
    <2>2. CASE ~Pending /\ w.again
        <3>1. window' = [w EXCEPT !.again = FALSE] /\ queue' = Append(q, "refresh_devices")
            BY <1>3, <1>4, <1>7, <2>2 DEF WindowWorkerFinished
        <3>2. "refresh_devices" \in Callbacks
            BY DEF Callbacks
        <3>3. queue' \in Seq(Callbacks) /\ Once(queue') /\ ~Starting(queue')
            BY <1>8, <3>1, <3>2, Appended
        <3>4. /\ window' \in Windows /\ window'.boot = w.boot
              /\ window'.configured = w.configured /\ window'.panel = w.panel
              /\ window'.refresh = w.refresh /\ window'.settings = w.settings
              /\ window'.status = w.status
            BY <1>6, <3>1 DEF Windows
        <3>5. QED
            BY <1>6, <2>2, <3>3, <3>4
    <2>3. CASE ~Pending /\ ~w.again
        <3>1. window' = w /\ queue' = q
            BY <1>3, <1>4, <1>7, <2>3 DEF WindowWorkerFinished
        <3>2. QED
            BY <1>6, <1>8, <3>1
    <2>4. QED
        BY <2>1, <2>2, <2>3
<1>10. Good(phase, window, queue, threads, owned, active, dialogs, clicks)
    BY DEF IInv
<1>11. Typed(phase, window', queue', threads', owned \ {t}, {}, dialogs, clicks)
    BY <1>2, <1>9, <1>10 DEF Good, Typed
<1>12. Buttons(window', {}) /\ StartInv(queue', window', owned \ {t}, dialogs)
    BY <1>9 DEF Buttons, StartInv
<1>13. Waits(dialogs, owned \ {t}, {})
    BY <1>3, <1>10 DEF Good, Waits
<1>14. IdleInv(phase, queue', window', {})
    BY <1>9 DEF IdleInv, Pending
<1>15. EarlyInv(phase, queue', window', threads', {})
    <2>1. SUFFICES ASSUME Early(window')
                   PROVE  /\ window'.panel \in {"loading", "error"} /\ ~window'.again
                          /\ ~window'.refresh /\ Calm(queue')
                          /\ \A u \in Threads : threads'[u].job \notin {"refresh", "status"}
                          /\ ~(phase = "running" /\ window'.panel = "loading")
        BY DEF EarlyInv
    <2>2. Early(window)
        BY <1>9, <2>1 DEF Early
    <2>3. /\ window.panel \in {"loading", "error"} /\ ~window.again /\ Calm(queue)
          /\ \A u \in Threads : threads[u].job \notin {"refresh", "status"}
          /\ phase = "running" /\ window.panel = "loading" => \E u \in active : Loads(threads[u])
        BY <1>2, <1>10, <2>2 DEF Good, EarlyInv
    <2>4. \A u \in Threads : threads'[u].job \notin {"refresh", "status"}
        BY <1>2, <2>3
    <2>5. ~(phase = "running" /\ window'.panel = "loading")
        BY <1>2, <1>3, <1>9, <2>3
    <2>6. QED
        BY <1>9, <2>1, <2>3, <2>4, <2>5 DEF Early
<1>16. Uncancelled(phase, threads', {})
    BY DEF Uncancelled
<1>17. Good(phase, window', queue', threads', owned \ {t}, {}, dialogs, clicks)
    BY <1>2, <1>3, <1>9, <1>11, <1>12, <1>13, <1>14, <1>15, <1>16 DEF Good
<1>18. active' = {}
    BY <1>1, <1>3
<1>19. QED
    BY <1>1, <1>2, <1>17, <1>18 DEF IInv

LEMMA DialogWorkerFinishedStep ==
    ASSUME IInv, NEW t \in Threads, DialogWorkerFinished(t) PROVE IInv'
<1>1. t \notin active /\ Released(t) /\ UNCHANGED <<window, active>>
    BY DEF DialogWorkerFinished
<1>2. /\ threads' \in [Threads -> Workers] /\ threads'[t].job = "none"
      /\ \A u \in Threads : u # t => threads'[u] = threads[u]
      /\ Owned(threads', owned \ {t}, active \ {t})
      /\ t \in owned /\ ~Starting(queue) /\ ~Loads(threads[t])
      /\ owned' = owned \ {t} /\ phase' = phase /\ clicks' = clicks
    BY <1>1, ThreadReleased
<1>3. active \ {t} = active
    BY <1>1
<1>4. PICK q : q = Drained(t)
    OBVIOUS
<1>5. /\ q \in Seq(Callbacks) /\ Once(q) /\ ~Starting(q) /\ (Calm(queue) => Calm(q))
    BY <1>2, <1>4, DrainedQueue
<1>6. /\ queue' \in Seq(Callbacks) /\ Once(queue') /\ ~Starting(queue')
      /\ Calm(queue) => Calm(queue')
    <2>1. CASE queue' = q
        BY <1>5, <2>1
    <2>2. CASE queue' = Append(q, "reject")
        <3>1. "reject" \in Callbacks
            BY DEF Callbacks
        <3>2. QED
            BY <1>5, <2>2, <3>1, Appended
    <2>3. QED
        BY <1>4, <2>1, <2>2 DEF DialogWorkerFinished
<1>7. \A n \in DOMAIN dialogs : dialogs[n] \in Dialogs
    BY Basics
<1>8. ASSUME NEW n \in DOMAIN dialogs
      PROVE  /\ dialogs'[n] \in Dialogs
             /\ dialogs'[n].thread \in {NoThread, dialogs[n].thread}
             /\ dialogs[n].thread = t => dialogs'[n].thread = NoThread
    <2>1. PICK over \in BOOLEAN : over = (\/ dialogs[n].over \/ dialogs[n].saved
                                         \/ (dialogs[n].kind = "settings" /\ dialogs[n].closing))
        BY <1>7 DEF Dialogs
    <2>2. CASE n \in Waiting(t)
        <3>1. PICK rejecting \in BOOLEAN :
                  rejecting = (dialogs[n].rejecting \/ RejectsLater(dialogs[n]))
            OBVIOUS
        <3>2. dialogs'[n] = [dialogs[n] EXCEPT !.thread = NoThread, !.rejecting = rejecting,
                                               !.over = over]
            BY <2>1, <2>2, <3>1 DEF DialogWorkerFinished
        <3>3. QED
            BY <1>7, <3>2 DEF Dialogs
    <2>3. CASE n \notin Waiting(t)
        <3>1. dialogs'[n] = dialogs[n]
            BY <2>3 DEF DialogWorkerFinished
        <3>2. QED
            BY <1>7, <2>3, <3>1 DEF Waiting
    <2>4. QED
        BY <2>2, <2>3
<1>9. dialogs' = [n \in DOMAIN dialogs |-> dialogs'[n]]
    BY DEF DialogWorkerFinished
<1>10. dialogs' \in Seq(Dialogs) /\ Waits(dialogs', owned, active)
    BY <1>8, <1>9, Basics, FewerWaits
<1>11. Waits(dialogs', owned \ {t}, active)
    <2>1. DOMAIN dialogs = 1..Len(dialogs) /\ DOMAIN dialogs' = 1..Len(dialogs')
        BY <1>10, Basics
    <2>2. DOMAIN dialogs' = DOMAIN dialogs
        BY <1>9
    <2>3. ASSUME NEW n \in 1..Len(dialogs'), dialogs'[n].thread # NoThread
          PROVE  dialogs'[n].thread \in (owned \ {t}) \ active
        BY <1>8, <1>10, <2>1, <2>2, <2>3 DEF Waits
    <2>4. QED
        BY <2>3 DEF Waits
<1>12. Good(phase, window, queue, threads, owned, active, dialogs, clicks)
    BY DEF IInv
<1>13. \A u \in active : threads'[u] = threads[u]
    BY <1>1, <1>2, Basics
<1>14. Typed(phase, window, queue', threads', owned \ {t}, active, dialogs', clicks)
    BY <1>2, <1>6, <1>10, <1>12 DEF Good, Typed
<1>15. Buttons(window, active) /\ StartInv(queue', window, owned \ {t}, dialogs')
    BY <1>6, <1>12 DEF Good, StartInv
<1>16. IdleInv(phase, queue', window, active)
    BY <1>2, <1>12 DEF Good, IdleInv
<1>17. EarlyInv(phase, queue', window, threads', active)
    BY <1>2, <1>6, <1>12, <1>13 DEF Good, EarlyInv
<1>18. Uncancelled(phase, threads', active)
    BY <1>12, <1>13 DEF Good, Uncancelled
<1>19. Good(phase, window, queue', threads', owned \ {t}, active, dialogs', clicks)
    BY <1>2, <1>3, <1>6, <1>11, <1>14, <1>15, <1>16, <1>17, <1>18 DEF Good
<1>20. QED
    BY <1>1, <1>2, <1>19 DEF IInv

-----------------------------------------------------------------------------
(* Timers and returning dialogs *)

LEMMA TimerLoadStep == ASSUME IInv, TimerLoad PROVE IInv'
<1>1. /\ Timer("load_initial_state") /\ LoadInitialState
      /\ UNCHANGED <<phase, dialogs, clicks>>
    BY DEF TimerLoad
<1>2. Starting(queue)
    BY <1>1, TimerTaken
<1>3. window.boot /\ active = {}
    BY <1>2 DEF IInv, Good, StartInv, Owned
<1>4. QED
    BY <1>1, <1>3, Basics, TimerTaken, Loading

LEMMA TimerRefreshStep == ASSUME IInv, TimerRefresh PROVE IInv'
<1>1. /\ Timer("refresh_devices") /\ RefreshDevices
      /\ UNCHANGED <<phase, dialogs, clicks>>
    BY DEF TimerRefresh
<1>2. ~Calm(queue) /\ ~Starting(queue)
    BY <1>1, TimerTaken
<1>3. ~Early(window)
    BY <1>2 DEF IInv, Good, EarlyInv
<1>4. QED
    BY <1>1, <1>2, <1>3, Basics, TimerTaken, Refreshing

LEMMA TimerSettingsStep == ASSUME IInv, TimerSettings PROVE IInv'
<1>1. /\ Timer("show_settings") /\ RunBackground("settings")
      /\ UNCHANGED <<phase, dialogs, clicks>>
    BY DEF TimerSettings
<1>2. ~Starting(queue) /\ "settings" \in Background
    BY <1>1, TimerTaken DEF Background
<1>3. QED
    BY <1>1, <1>2, Basics, TimerTaken, BackgroundRuns

\* A timer that leaves the window and the workers alone.
LEMMA TimerPasses ==
    ASSUME IInv, NEW callback, callback # "load_initial_state", Timer(callback), NoWorker,
           phase' \in Phases, phase' = "running" => phase = "running",
           dialogs' \in Seq(Dialogs), Waits(dialogs', owned, active), clicks' = clicks
    PROVE  IInv'
BY Basics, TimerTaken, NothingRuns

LEMMA TimerOpenStep ==
    ASSUME IInv, NEW job \in Background, TimerOpen(job) PROVE IInv'
<1>1. /\ Timer(job) /\ job # "load_initial_state"
      /\ UNCHANGED <<phase, threads, owned, active, clicks>>
    BY DEF TimerOpen, Background
<1>2. dialogs' \in Seq(Dialogs) /\ Waits(dialogs', owned, active)
    BY Opened DEF TimerOpen
<1>3. CASE window' = window
    BY <1>1, <1>2, <1>3, Basics, TimerPasses DEF NoWorker
<1>4. CASE job = "status" /\ window' = SetRows(window)
    <2>1. /\ queue' \in Seq(Callbacks) /\ Once(queue') /\ ~Starting(queue')
          /\ ~Starting(queue) /\ ~Calm(queue)
        BY <1>1, <1>4, TimerTaken
    <2>2. Good(phase, window, queue, threads, owned, active, dialogs, clicks)
        BY DEF IInv
    <2>3. ~Early(window)
        BY <2>1, <2>2 DEF Good, EarlyInv
    <2>4. /\ window' \in Windows /\ Buttons(window', active)
          /\ window'.boot = window.boot /\ window'.configured = window.configured
          /\ window'.settings = window.settings
          /\ active = {} => window'.status = window.configured /\ window'.refresh = window.configured
        BY <1>4, Basics, RowsWindow
    <2>5. ~Early(window') /\ IdleInv(phase, queue, window', active)
        BY <2>2, <2>3, <2>4 DEF Good, IdleInv, Early
    <2>6. Good(phase, window', queue', threads, owned, active, dialogs', clicks)
        BY <1>2, <2>1, <2>2, <2>4, <2>5, Basics, Later, SMTT(60)
    <2>7. QED
        BY <1>1, <2>6 DEF IInv
<1>5. QED
    BY <1>3, <1>4 DEF TimerOpen

LEMMA TimerRejectStep == ASSUME IInv, TimerReject PROVE IInv'
<1>1. Timer("reject") /\ UNCHANGED <<phase, window, owned, active, clicks>>
    BY DEF TimerReject
<1>2. ASSUME NEW n \in DOMAIN dialogs, dialogs[n].rejecting,
             RejectDialog(n, [dialogs[n] EXCEPT !.rejecting = FALSE])
      PROVE  IInv'
    <2>1. PICK d : d = [dialogs[n] EXCEPT !.rejecting = FALSE]
        OBVIOUS
    <2>2. d \in Dialogs /\ d.thread = dialogs[n].thread /\ n \in 1..Len(dialogs)
        <3>1. n \in 1..Len(dialogs) /\ dialogs[n] \in Dialogs
            BY Basics
        <3>2. QED
            BY <2>1, <3>1 DEF Dialogs
    <2>3. RejectDialog(n, d)
        BY <1>2, <2>1
    <2>4. PICK e \in Dialogs :
              /\ e.thread = NoThread \/ e.thread = dialogs[n].thread
              /\ dialogs' = [dialogs EXCEPT ![n] = e]
              /\ \/ threads' = threads
                 \/ dialogs[n].thread # NoThread /\ threads' = Interrupted(dialogs[n].thread)
        BY <2>2, <2>3, RejectedDialog
    <2>5. /\ queue' \in Seq(Callbacks) /\ Once(queue') /\ ~Starting(queue')
          /\ ~Starting(queue) /\ (Calm(queue) => Calm(queue'))
        BY <1>1, TimerTaken
    <2>6. clicks' \in 0..MaxClicks
        BY <1>1, Basics
    <2>7. QED
        BY <1>1, <2>2, <2>4, <2>5, <2>6, DialogChanges
<1>3. CASE UNCHANGED <<threads, dialogs>>
    BY <1>1, <1>3, Basics, TimerPasses DEF NoWorker
<1>4. QED
    BY <1>2, <1>3 DEF TimerReject

LEMMA TimerCloseStep == ASSUME IInv, TimerClose PROVE IInv'
<1>1. Timer("close") /\ NoWorker /\ UNCHANGED <<phase, dialogs, clicks>>
    BY DEF TimerClose, NoWorker
<1>2. QED
    BY <1>1, Basics, TimerPasses

LEMMA QuitStep == ASSUME IInv, Quit PROVE IInv'
<1>1. Timer("quit") /\ NoWorker /\ phase' = "exited" /\ UNCHANGED <<dialogs, clicks>>
    BY DEF Quit, NoWorker
<1>2. QED
    BY <1>1, Basics, TimerPasses DEF Phases

LEMMA FinishStep == ASSUME IInv, Finish PROVE IInv'
<1>1. PICK q : q = Tail(queue)
    OBVIOUS
<1>2. queue \in Seq(Callbacks) /\ queue # <<>> /\ Once(queue) /\ Head(queue) = "_finish"
    BY Basics DEF Finish
<1>3. /\ q \in Seq(Callbacks) /\ Once(q) /\ ~Starting(q) /\ (Calm(queue) => Calm(q))
      /\ ~Starting(queue)
    BY <1>1, <1>2, Taken DEF Starting
<1>4. NoWorker /\ UNCHANGED <<dialogs, clicks>>
    BY DEF Finish, NoWorker
<1>5. CASE owned = {}
    <2>1. queue' = Append(q, "quit") /\ phase' = "issued"
        BY <1>1, <1>5 DEF Finish
    <2>2. "quit" \in Callbacks /\ phase' \in Phases
        BY <2>1 DEF Callbacks, Phases
    <2>3. /\ queue' \in Seq(Callbacks) /\ Once(queue') /\ ~Starting(queue')
          /\ Calm(q) => Calm(queue')
        BY <1>3, <2>1, <2>2, Appended
    <2>4. QED
        BY <1>3, <1>4, <2>1, <2>2, <2>3, Basics, NothingRuns
<1>6. CASE owned # {}
    <2>1. queue' = q /\ phase' = phase
        BY <1>1, <1>6 DEF Finish
    <2>2. QED
        BY <1>3, <1>4, <2>1, Basics, NothingRuns
<1>7. QED
    BY <1>5, <1>6

\* The dialogs below the one that returned.
LEMMA Popped ==
    ASSUME NEW ds \in Seq(Dialogs), ds # <<>>, NEW e, e = SubSeq(ds, 1, Len(ds) - 1)
    PROVE  /\ e \in Seq(Dialogs) /\ Len(ds) \in Nat /\ Len(e) = Len(ds) - 1
           /\ \A n \in 1..Len(e) : e[n] = ds[n] /\ n \in 1..Len(ds)
<1>1. PICK last : last = Len(ds) - 1
    OBVIOUS
<1>2. last \in Nat /\ Len(ds) \in Nat /\ \A n \in 1..last : ds[n] \in Dialogs
    BY <1>1
<1>3. /\ SubSeq(ds, 1, last) \in Seq(Dialogs)
      /\ Len(SubSeq(ds, 1, last)) = IF 1 <= last THEN last - 1 + 1 ELSE 0
      /\ \A n \in 1..(last - 1 + 1) : SubSeq(ds, 1, last)[n] = ds[1 + n - 1]
    BY <1>2, SubSeqProperties
<1>4. e = SubSeq(ds, 1, last)
    BY <1>1
<1>5. QED
    BY <1>1, <1>2, <1>3, <1>4

LEMMA ReturnStep == ASSUME IInv, Return PROVE IInv'
<1>1. /\ dialogs # <<>> /\ dialogs' = SubSeq(dialogs, 1, Len(dialogs) - 1)
      /\ UNCHANGED <<phase, threads, owned, active, clicks>>
    BY DEF Return
<1>2. ~Starting(queue)
    BY <1>1, Basics
<1>3. dialogs' \in Seq(Dialogs) /\ Waits(dialogs', owned, active)
    <2>1. dialogs \in Seq(Dialogs) /\ Len(dialogs) \in Nat /\ Len(dialogs) > 0
        BY <1>1, Basics
    <2>2. /\ dialogs' \in Seq(Dialogs) /\ Len(dialogs') = Len(dialogs) - 1
          /\ \A n \in 1..Len(dialogs') : dialogs'[n] = dialogs[n] /\ n \in 1..Len(dialogs)
        BY <1>1, <2>1, Popped
    <2>3. QED
        BY <2>2, Basics DEF Waits
<1>4. CASE Top.kind = "settings" /\ Top.saved
    <2>1. PICK v : v = [window EXCEPT !.configured = TRUE]
        OBVIOUS
    <2>2. v \in Windows /\ v.configured = TRUE /\ v.settings = window.settings
        BY <2>1, Basics DEF Windows
    <2>3. PICK w : w = SetRows(v)
        OBVIOUS
    <2>4. /\ w \in Windows /\ Buttons(w, active) /\ w.configured = TRUE
          /\ w.settings = window.settings
          /\ active = {} => w.status = TRUE /\ w.refresh = TRUE
        BY <2>2, <2>3, RowsWindow
    <2>5. ScheduleRefresh(w) \/ (window' = w /\ UNCHANGED queue)
        BY <1>4, <2>1, <2>3 DEF Return
    <2>6. /\ queue' \in Seq(Callbacks) /\ Once(queue') /\ ~Starting(queue')
          /\ window' \in Windows /\ window'.configured = TRUE
          /\ window'.status = w.status /\ window'.refresh = w.refresh
          /\ window'.settings = w.settings
        <3>1. CASE ScheduleRefresh(w)
            BY <1>2, <2>4, <3>1, Scheduled
        <3>2. CASE window' = w /\ UNCHANGED queue
            BY <1>2, <2>4, <3>2, Basics
        <3>3. QED
            BY <2>5, <3>1, <3>2
    <2>7. Good(phase, window, queue, threads, owned, active, dialogs, clicks)
        BY DEF IInv
    <2>8. /\ ~Early(window') /\ Buttons(window', active)
          /\ IdleInv(phase, queue, window', active)
        BY <2>4, <2>6, <2>7 DEF Good, IdleInv, Early, Buttons
    <2>9. Good(phase, window', queue', threads, owned, active, dialogs', clicks)
        BY <1>2, <1>3, <2>6, <2>7, <2>8, Basics, Later, SMTT(60)
    <2>10. QED
        BY <1>1, <2>9 DEF IInv
<1>5. CASE ~(Top.kind = "settings" /\ Top.saved)
    <2>1. NoWorker /\ queue' = queue
        BY <1>1, <1>5 DEF Return, NoWorker
    <2>2. QED
        BY <1>1, <1>2, <1>3, <2>1, Basics, NothingRuns
<1>6. QED
    BY <1>4, <1>5

-----------------------------------------------------------------------------
(* What was asked to end goes on *)

In(q, callback) == \E n \in 1..Len(q) : q[n] = callback

\* The coordinator waits for a worker, or its next callback is queued.
Quitting(p, q, ow) == /\ p = "closing" => ow # {} \/ In(q, "_finish")
                      /\ p = "issued" => In(q, "quit")

\* No two dialogs wait for one thread; one that was asked to close waits, is
\* over or has posted its reject.
Orderly(ds) ==
    /\ \A m, n \in 1..Len(ds) : ds[m].thread = ds[n].thread /\ ds[n].thread # NoThread => m = n
    /\ \A n \in 1..Len(ds) :
          /\ ds[n].thread # NoThread => ds[n].kind # "plain" /\ ~ds[n].over
          /\ ds[n].closing => ds[n].over \/ ds[n].thread # NoThread \/ ds[n].rejecting

\* Every dialog that has posted its reject has a place of its own in the queue.
Places(f, ds, q) ==
    /\ \A n \in 1..Len(ds) : ds[n].rejecting => f[n] \in 1..Len(q) /\ q[f[n]] = "reject"
    /\ \A m, n \in 1..Len(ds) :
          ds[m].rejecting /\ ds[n].rejecting /\ f[m] = f[n] => m = n
Promised(ds, q) == \E f \in [1..Len(ds) -> Nat] : Places(f, ds, q)

Ending == /\ Quitting(phase, queue, owned)
          /\ Orderly(dialogs) /\ Promised(dialogs, queue)

Extends(q, r) == Len(q) <= Len(r) /\ \A n \in 1..Len(q) : r[n] = q[n]

LEMMA SameLength ==
    ASSUME NEW m \in Nat, NEW n \in Nat, 1..m = 1..n
    PROVE  m = n
<1>1. m <= n
    <2>1. m = 0 \/ m \in 1..n
        OBVIOUS
    <2>2. QED
        BY <2>1
<1>2. n <= m
    <2>1. n = 0 \/ n \in 1..m
        OBVIOUS
    <2>2. QED
        BY <2>1
<1>3. QED
    BY <1>1, <1>2

LEMMA StillIn ==
    ASSUME NEW q \in Seq(Callbacks), NEW r \in Seq(Callbacks), Extends(q, r),
           NEW callback, In(q, callback)
    PROVE  In(r, callback)
BY DEF Extends, In

LEMMA NowIn ==
    ASSUME NEW q \in Seq(Callbacks), NEW c \in Callbacks, NEW r, r = Append(q, c)
    PROVE  r \in Seq(Callbacks) /\ Extends(q, r) /\ In(r, c)
<1>1. /\ r \in Seq(Callbacks) /\ Len(r) = Len(q) + 1 /\ Len(q) \in Nat
      /\ \A n \in 1..Len(q) : r[n] = q[n]
      /\ r[Len(q) + 1] = c
    OBVIOUS
<1>2. Len(q) + 1 \in 1..Len(r)
    BY <1>1
<1>3. QED
    BY <1>1, <1>2 DEF Extends, In

LEMMA ExtendsTwice ==
    ASSUME NEW q \in Seq(Callbacks), NEW r \in Seq(Callbacks), NEW s \in Seq(Callbacks),
           Extends(q, r), Extends(r, s)
    PROVE  Extends(q, s)
BY DEF Extends

LEMMA StillInTail ==
    ASSUME NEW q \in Seq(Callbacks), q # <<>>, NEW callback, In(q, callback),
           Head(q) # callback, NEW r, r = Tail(q)
    PROVE  In(r, callback)
<1>1. PICK n \in 1..Len(q) : q[n] = callback
    BY DEF In
<1>2. n # 1 /\ Len(q) \in Nat
    BY <1>1
<1>3. n - 1 \in 1..Len(r) /\ r[n - 1] = callback
    BY <1>1, <1>2
<1>4. QED
    BY <1>3 DEF In

\* Fewer dialogs have posted a reject, and no callback was taken.
LEMMA PlacesRemain ==
    ASSUME NEW ds \in Seq(Dialogs), NEW q \in Seq(Callbacks), Promised(ds, q),
           NEW r \in Seq(Callbacks), Extends(q, r), NEW e \in Seq(Dialogs),
           \A n \in 1..Len(e) : e[n].rejecting => n \in 1..Len(ds) /\ ds[n].rejecting
    PROVE  Promised(e, r)
<1>1. PICK f \in [1..Len(ds) -> Nat] : Places(f, ds, q)
    BY DEF Promised
<1>2. PICK g : g = [n \in 1..Len(e) |-> IF n \in 1..Len(ds) THEN f[n] ELSE 0]
    OBVIOUS
<1>3. g \in [1..Len(e) -> Nat]
    BY <1>1, <1>2
<1>4. \A n \in 1..Len(e) : e[n].rejecting => n \in 1..Len(ds) /\ ds[n].rejecting /\ g[n] = f[n]
    BY <1>2
<1>5. \A n \in 1..Len(e) : e[n].rejecting => g[n] \in 1..Len(r) /\ r[g[n]] = "reject"
    BY <1>1, <1>4 DEF Places, Extends
<1>6. Places(g, e, r)
    BY <1>1, <1>4, <1>5 DEF Places
<1>7. QED
    BY <1>3, <1>6 DEF Promised

\* Another callback is taken.
LEMMA PlacesShift ==
    ASSUME NEW ds \in Seq(Dialogs), NEW q \in Seq(Callbacks), Promised(ds, q),
           q # <<>>, Head(q) # "reject", NEW r, r = Tail(q)
    PROVE  Promised(ds, r)
<1>1. PICK f \in [1..Len(ds) -> Nat] : Places(f, ds, q)
    BY DEF Promised
<1>2. PICK g : g = [n \in 1..Len(ds) |-> IF f[n] > 0 THEN f[n] - 1 ELSE 0]
    OBVIOUS
<1>3. g \in [1..Len(ds) -> Nat]
    BY <1>1, <1>2
<1>4. ASSUME NEW n \in 1..Len(ds), ds[n].rejecting
      PROVE  /\ f[n] \in Nat /\ g[n] = f[n] - 1
             /\ g[n] \in 1..Len(r) /\ r[g[n]] = "reject"
    <2>1. f[n] \in 1..Len(q) /\ q[f[n]] = "reject"
        BY <1>1, <1>4 DEF Places
    <2>2. f[n] # 1 /\ Len(q) \in Nat
        BY <2>1
    <2>3. g[n] = f[n] - 1
        BY <1>2, <2>1
    <2>4. QED
        BY <2>1, <2>2, <2>3
<1>5. Places(g, ds, r)
    BY <1>1, <1>4 DEF Places
<1>6. QED
    BY <1>3, <1>5 DEF Promised

\* A reject is taken; the dialog that had its place gets that of the dialog
\* that is rejected.
LEMMA PlacesSwap ==
    ASSUME NEW ds \in Seq(Dialogs), NEW q \in Seq(Callbacks), Promised(ds, q),
           q # <<>>, Head(q) = "reject", NEW r, r = Tail(q),
           NEW k \in 1..Len(ds), ds[k].rejecting,
           NEW e \in Seq(Dialogs), Len(e) = Len(ds),
           \A n \in 1..Len(ds) : e[n].rejecting => n # k /\ ds[n].rejecting
    PROVE  Promised(e, r)
<1>1. PICK f \in [1..Len(ds) -> Nat] : Places(f, ds, q)
    BY DEF Promised
<1>2. PICK from : from = [n \in 1..Len(ds) |-> IF f[n] = 1 THEN f[k] ELSE f[n]]
    OBVIOUS
<1>3. PICK g : g = [n \in 1..Len(e) |-> IF from[n] > 0 THEN from[n] - 1 ELSE 0]
    OBVIOUS
<1>4. from \in [1..Len(ds) -> Nat]
    BY <1>1, <1>2
<1>5. g \in [1..Len(e) -> Nat]
    BY <1>3, <1>4
<1>6. ASSUME NEW n \in 1..Len(e), e[n].rejecting
      PROVE  /\ from[n] \in 2..Len(q) /\ q[from[n]] = "reject"
             /\ from[n] = (IF f[n] = 1 THEN f[k] ELSE f[n])
    <2>1. n # k /\ ds[n].rejecting /\ n \in 1..Len(ds)
        BY <1>6
    <2>2. f[n] \in 1..Len(q) /\ q[f[n]] = "reject" /\ f[k] \in 1..Len(q) /\ q[f[k]] = "reject"
        BY <1>1, <2>1 DEF Places
    <2>3. f[n] # f[k]
        BY <1>1, <2>1 DEF Places
    <2>4. QED
        BY <1>2, <2>1, <2>2, <2>3
<1>7. ASSUME NEW n \in 1..Len(e), e[n].rejecting
      PROVE  g[n] = from[n] - 1 /\ g[n] \in 1..Len(r) /\ r[g[n]] = "reject"
    <2>1. from[n] \in 2..Len(q) /\ q[from[n]] = "reject" /\ Len(q) \in Nat
        BY <1>6, <1>7
    <2>2. g[n] = from[n] - 1
        BY <1>3, <2>1
    <2>3. QED
        BY <2>1, <2>2
<1>8. ASSUME NEW m \in 1..Len(e), NEW n \in 1..Len(e), e[m].rejecting, e[n].rejecting,
             g[m] = g[n]
      PROVE  m = n
    <2>1. from[m] = from[n]
        <3>1. from[m] \in 2..Len(q) /\ from[n] \in 2..Len(q) /\ Len(q) \in Nat
            BY <1>6, <1>8
        <3>2. PICK a \in Int, b \in Int : a = from[m] /\ b = from[n]
            BY <3>1
        <3>3. g[m] = a - 1 /\ g[n] = b - 1
            BY <1>7, <1>8, <3>2
        <3>4. g[m] = g[n]
            BY <1>8
        <3>5. a - 1 = b - 1
            BY <3>3, <3>4, Zenon
        <3>6. a = b
            BY <3>5
        <3>7. QED
            BY <3>2, <3>6
    <2>2. /\ m # k /\ n # k /\ ds[m].rejecting /\ ds[n].rejecting
          /\ m \in 1..Len(ds) /\ n \in 1..Len(ds)
        BY <1>8
    <2>3. f[m] # f[k] /\ f[n] # f[k]
        BY <1>1, <2>2 DEF Places
    <2>4. f[m] = f[n]
        BY <1>6, <1>8, <2>1, <2>3
    <2>5. QED
        BY <1>1, <2>2, <2>4 DEF Places
<1>9. Places(g, e, r)
    BY <1>7, <1>8 DEF Places
<1>10. QED
    BY <1>5, <1>9 DEF Promised

\* A dialog posts its reject.
LEMMA PlaceAdded ==
    ASSUME NEW ds \in Seq(Dialogs), NEW q \in Seq(Callbacks), Promised(ds, q),
           NEW r, r = Append(q, "reject"), NEW k \in 1..Len(ds),
           NEW e \in Seq(Dialogs), Len(e) = Len(ds),
           \A n \in 1..Len(ds) : n # k /\ e[n].rejecting => ds[n].rejecting
    PROVE  Promised(e, r)
<1>1. PICK f \in [1..Len(ds) -> Nat] : Places(f, ds, q)
    BY DEF Promised
<1>2. PICK last : last = Len(q) + 1
    OBVIOUS
<1>3. /\ Len(q) \in Nat /\ Len(r) = last /\ last \in 1..last /\ r[last] = "reject"
      /\ \A n \in 1..Len(q) : r[n] = q[n] /\ n \in 1..last /\ n # last
    BY <1>2
<1>4. PICK g : g = [n \in 1..Len(e) |-> IF n = k THEN last ELSE f[n]]
    OBVIOUS
<1>5. g \in [1..Len(e) -> Nat]
    BY <1>1, <1>3, <1>4
<1>6. ASSUME NEW n \in 1..Len(e), e[n].rejecting
      PROVE  /\ g[n] \in 1..last /\ r[g[n]] = "reject"
             /\ n = k => g[n] = last
             /\ n # k => ds[n].rejecting /\ g[n] = f[n] /\ g[n] # last
    <2>1. CASE n = k
        BY <1>3, <1>4, <2>1
    <2>2. CASE n # k
        <3>1. ds[n].rejecting /\ n \in 1..Len(ds) /\ g[n] = f[n]
            BY <1>4, <1>6, <2>2
        <3>2. f[n] \in 1..Len(q) /\ q[f[n]] = "reject"
            BY <1>1, <3>1 DEF Places
        <3>3. QED
            BY <1>3, <2>2, <3>1, <3>2
    <2>3. QED
        BY <2>1, <2>2
<1>7. ASSUME NEW m \in 1..Len(e), NEW n \in 1..Len(e), e[m].rejecting, e[n].rejecting,
             g[m] = g[n]
      PROVE  m = n
    BY <1>1, <1>6, <1>7 DEF Places
<1>8. Places(g, e, r)
    BY <1>3, <1>6, <1>7 DEF Places
<1>9. QED
    BY <1>5, <1>8 DEF Promised

-----------------------------------------------------------------------------
(* The steps of what goes on *)

LEMMA Next0 ==
    ASSUME IInv'
    PROVE  queue' \in Seq(Callbacks) /\ dialogs' \in Seq(Dialogs)
BY DEF IInv, Good, Typed

\* Dialogs that stay, or of which the last are gone.
LEMMA OrderStays ==
    ASSUME NEW ds \in Seq(Dialogs), Orderly(ds), NEW e \in Seq(Dialogs), Len(e) <= Len(ds),
           \A n \in 1..Len(e) :
               /\ e[n].kind = ds[n].kind
               /\ e[n].thread # NoThread => e[n].thread = ds[n].thread /\ ~e[n].over
               /\ e[n].closing => e[n].over \/ e[n].thread # NoThread \/ e[n].rejecting
    PROVE  Orderly(e)
<1>1. \A n \in 1..Len(e) : n \in 1..Len(ds)
    OBVIOUS
<1>2. QED
    BY <1>1 DEF Orderly

LEMMA OrderOpened ==
    ASSUME NEW ds \in Seq(Dialogs), Orderly(ds), NEW kind, NEW e \in Seq(Dialogs),
           e = Append(ds, Dialog(kind))
    PROVE  /\ Orderly(e)
           /\ \A n \in 1..Len(e) : e[n].rejecting => n \in 1..Len(ds) /\ ds[n].rejecting
<1>1. PICK d : d = Dialog(kind)
    OBVIOUS
<1>2. d.thread = NoThread /\ ~d.closing /\ ~d.rejecting
    BY <1>1 DEF Dialog
<1>3. /\ Len(ds) \in Nat /\ Len(e) = Len(ds) + 1 /\ e[Len(ds) + 1] = d
      /\ \A n \in 1..Len(ds) : e[n] = ds[n]
      /\ \A n \in 1..Len(e) : n \in 1..Len(ds) \/ n = Len(ds) + 1
    BY <1>1
<1>4. Orderly(e)
    BY <1>2, <1>3 DEF Orderly
<1>5. QED
    BY <1>2, <1>3, <1>4

\* No callback is taken, and the last worker leaves a _finish behind.
LEMMA EndingGrows ==
    ASSUME IInv, IInv', Ending, Extends(queue, queue'), phase' = phase,
           phase = "closing" /\ owned # {} => owned' # {} \/ In(queue', "_finish"),
           Orderly(dialogs'),
           \A n \in 1..Len(dialogs') : dialogs'[n].rejecting =>
               n \in 1..Len(dialogs) /\ dialogs[n].rejecting
    PROVE  Ending'
<1>1. /\ queue \in Seq(Callbacks) /\ dialogs \in Seq(Dialogs)
      /\ queue' \in Seq(Callbacks) /\ dialogs' \in Seq(Dialogs)
    BY Basics, Next0
<1>2. Quitting(phase', queue', owned')
    BY <1>1, StillIn DEF Ending, Quitting
<1>3. Promised(dialogs', queue')
    BY <1>1, PlacesRemain DEF Ending
<1>4. QED
    BY <1>2, <1>3 DEF Ending, Quitting, Orderly, Promised, Places, In

\* A callback is taken that is not about an end.
LEMMA EndingShifts ==
    ASSUME IInv, IInv', Ending, queue # <<>>, queue' = Tail(queue),
           Head(queue) \notin {"reject", "_finish", "quit"},
           phase' = phase, owned \subseteq owned', Orderly(dialogs'),
           \A n \in 1..Len(dialogs') : dialogs'[n].rejecting =>
               n \in 1..Len(dialogs) /\ dialogs[n].rejecting
    PROVE  Ending'
<1>1. /\ queue \in Seq(Callbacks) /\ dialogs \in Seq(Dialogs)
      /\ queue' \in Seq(Callbacks) /\ dialogs' \in Seq(Dialogs)
    BY Basics, Next0
<1>2. Quitting(phase', queue', owned')
    <2>1. In(queue, "_finish") => In(queue', "_finish")
        BY <1>1, StillInTail
    <2>2. In(queue, "quit") => In(queue', "quit")
        BY <1>1, StillInTail
    <2>3. QED
        BY <2>1, <2>2 DEF Ending, Quitting
<1>3. Promised(dialogs, queue')
    BY <1>1, PlacesShift DEF Ending
<1>4. Extends(queue', queue')
    BY DEF Extends
<1>5. Promised(dialogs', queue')
    BY <1>1, <1>3, <1>4, PlacesRemain
<1>6. QED
    BY <1>2, <1>5 DEF Ending, Quitting, Orderly, Promised, Places, In

\* A step that leaves the dialogs and takes no callback.
LEMMA EndingSame ==
    ASSUME IInv, IInv', Ending, dialogs' = dialogs, phase' = phase, Extends(queue, queue'),
           phase = "closing" /\ owned # {} => owned' # {} \/ In(queue', "_finish")
    PROVE  Ending'
<1>1. Orderly(dialogs')
    BY DEF Ending
<1>2. QED
    BY <1>1, EndingGrows

LEMMA Posts ==
    ASSUME IInv, NEW callback \in Callbacks, queue' \in {queue, Post(callback)}
    PROVE  Extends(queue, queue')
<1>1. queue \in Seq(Callbacks)
    BY Basics
<1>2. CASE queue' = queue
    BY <1>1, <1>2 DEF Extends
<1>3. CASE queue' = Post(callback)
    BY <1>1, <1>3, NowIn DEF Post
<1>4. QED
    BY <1>2, <1>3

LEMMA Grow ==
    ASSUME \/ LoadInitialState \/ RefreshDevices \/ NoWorker
           \/ \E job \in Background : RunBackground(job)
    PROVE  owned \subseteq owned'
<1>1. ASSUME NEW job, NEW w, RunWorker(job, w) PROVE owned \subseteq owned'
    BY <1>1 DEF RunWorker, Started
<1>2. NoWorker => owned' = owned
    BY DEF NoWorker
<1>3. QED
    BY <1>1, <1>2 DEF LoadInitialState, RefreshDevices, RunBackground

LEMMA ClickEnding ==
    ASSUME IInv, IInv', Ending, ClickRetry \/ ClickRefresh \/ ClickSettings \/ ClickRow
    PROVE  Ending'
<1>1. UNCHANGED <<phase, queue, dialogs>>
    BY DEF ClickRetry, ClickRefresh, ClickSettings, ClickRow, OnWindow
<1>2. "settings" \in Background /\ {"calculation", "history", "status"} \subseteq Background
    BY DEF Background
<1>3. owned \subseteq owned'
    BY <1>2, Grow DEF ClickRetry, ClickRefresh, ClickSettings, ClickRow
<1>4. Extends(queue, queue')
    BY <1>1 DEF Extends
<1>5. QED
    BY <1>1, <1>3, <1>4, EndingSame

LEMMA WorkerEnding ==
    ASSUME IInv, IInv', Ending, NEW t \in Threads,
           \/ RunEnds(t) \/ BootstrapSucceeded(t) \/ RefreshSucceeded(t)
           \/ BackgroundSucceeded(t)
    PROVE  Ending'
<1>1. UNCHANGED <<phase, owned, dialogs>>
    BY DEF RunEnds, BootstrapSucceeded, RefreshSucceeded, BackgroundSucceeded
<1>2. Extends(queue, queue')
    <2>1. CASE BackgroundSucceeded(t)
        BY <2>1, Posts DEF BackgroundSucceeded, Callbacks
    <2>2. CASE BootstrapSucceeded(t)
        <3>1. queue' \in {queue, Post("refresh_devices")}
            BY <2>2 DEF BootstrapSucceeded, ScheduleRefresh
        <3>2. QED
            BY <3>1, Posts DEF Callbacks
    <2>3. CASE RunEnds(t) \/ RefreshSucceeded(t)
        BY <2>3 DEF RunEnds, RefreshSucceeded, Extends
    <2>4. QED
        BY <2>1, <2>2, <2>3
<1>3. QED
    BY <1>1, <1>2, EndingSame

LEMMA QuitEnding ==
    ASSUME IInv, IInv', Ending, RequestQuit \/ QuitEvent \/ Quit
    PROVE  Ending'
<1>1. /\ queue \in Seq(Callbacks) /\ dialogs \in Seq(Dialogs)
      /\ queue' \in Seq(Callbacks) /\ dialogs' = dialogs
    BY Basics, Next0 DEF RequestQuit, QuitEvent, Quit
<1>2. Quitting(phase', queue', owned')
    <2>1. CASE RequestQuit
        <3>1. phase' = "closing" /\ owned' = owned
            BY <2>1 DEF RequestQuit
        <3>2. owned = {} => In(queue', "_finish")
            BY <1>1, <2>1, NowIn DEF RequestQuit, Post, Callbacks
        <3>3. QED
            BY <3>1, <3>2 DEF Quitting
    <2>2. CASE QuitEvent \/ Quit
        BY <2>2 DEF QuitEvent, Quit, Quitting
    <2>3. QED
        BY <2>1, <2>2
<1>3. Promised(dialogs, queue')
    <2>1. CASE Quit
        BY <1>1, <2>1, PlacesShift DEF Ending, Quit, Timer
    <2>2. CASE RequestQuit \/ QuitEvent
        <3>1. queue' \in {queue, Post("_finish")} /\ "_finish" \in Callbacks
            BY <2>2 DEF RequestQuit, QuitEvent, Callbacks
        <3>2. Extends(queue, queue')
            BY <3>1, Posts
        <3>3. QED
            BY <1>1, <3>2, PlacesRemain DEF Ending
    <2>3. QED
        BY <2>1, <2>2
<1>4. Orderly(dialogs') /\ Promised(dialogs', queue')
    BY <1>1, <1>3 DEF Ending
<1>5. QED
    BY <1>2, <1>4 DEF Ending, Quitting, Orderly, Promised, Places, In

LEMMA FinishEnding == ASSUME IInv, IInv', Ending, Finish PROVE Ending'
<1>1. PICK q : q = Tail(queue)
    OBVIOUS
<1>2. /\ queue \in Seq(Callbacks) /\ queue # <<>> /\ Head(queue) = "_finish"
      /\ dialogs \in Seq(Dialogs) /\ dialogs' = dialogs /\ owned' = owned
      /\ queue' \in Seq(Callbacks)
    BY Basics, Next0 DEF Finish
<1>3. q \in Seq(Callbacks) /\ Promised(dialogs, q)
    <2>1. Head(queue) # "reject" /\ Promised(dialogs, queue)
        BY <1>2 DEF Ending
    <2>2. q \in Seq(Callbacks)
        BY <1>1, <1>2
    <2>3. Promised(dialogs, q)
        BY <1>1, <1>2, <2>1, PlacesShift
    <2>4. QED
        BY <2>2, <2>3
<1>4. Quitting(phase', queue', owned') /\ Extends(q, queue')
    <2>1. CASE owned = {}
        <3>1. phase' = "issued" /\ queue' = Append(q, "quit")
            BY <1>1, <2>1 DEF Finish
        <3>2. In(queue', "quit") /\ Extends(q, queue')
            BY <1>3, <3>1, NowIn DEF Callbacks
        <3>3. QED
            BY <3>1, <3>2 DEF Quitting
    <2>2. CASE owned # {}
        <3>1. phase' = phase /\ queue' = q
            BY <1>1, <2>2 DEF Finish
        <3>2. In(queue, "quit") => In(queue', "quit")
            BY <1>1, <1>2, <3>1, StillInTail
        <3>3. QED
            BY <1>2, <2>2, <3>1, <3>2 DEF Ending, Quitting, Extends
    <2>3. QED
        BY <2>1, <2>2
<1>5. Orderly(dialogs') /\ Promised(dialogs', queue')
    <2>1. \A n \in 1..Len(dialogs) : dialogs[n].rejecting =>
              n \in 1..Len(dialogs) /\ dialogs[n].rejecting
        OBVIOUS
    <2>2. Promised(dialogs, queue')
        BY <1>2, <1>3, <1>4, <2>1, PlacesRemain
    <2>3. QED
        BY <1>2, <2>2 DEF Ending
<1>6. QED
    BY <1>4, <1>5 DEF Ending, Quitting, Orderly, Promised, Places, In

LEMMA TimerEnding ==
    ASSUME IInv, IInv', Ending,
           \/ TimerLoad \/ TimerRefresh \/ TimerSettings \/ TimerClose
           \/ \E job \in Background : TimerOpen(job)
    PROVE  Ending'
<1>1. /\ queue # <<>> /\ queue' = Tail(queue)
      /\ Head(queue) \notin {"reject", "_finish", "quit"}
    BY DEF TimerLoad, TimerRefresh, TimerSettings, TimerClose, TimerOpen, Timer, Background
<1>2. phase' = phase
    BY DEF TimerLoad, TimerRefresh, TimerSettings, TimerClose, TimerOpen
<1>3. owned \subseteq owned'
    <2>1. "settings" \in Background
        BY DEF Background
    <2>2. QED
        BY <2>1, Grow DEF TimerLoad, TimerRefresh, TimerSettings, TimerClose, TimerOpen
<1>4. /\ Orderly(dialogs')
      /\ \A n \in 1..Len(dialogs') : dialogs'[n].rejecting =>
             n \in 1..Len(dialogs) /\ dialogs[n].rejecting
    <2>1. CASE dialogs' = dialogs
        BY <2>1 DEF Ending
    <2>2. ASSUME NEW job \in Background, TimerOpen(job)
          PROVE  /\ Orderly(dialogs')
                 /\ \A n \in 1..Len(dialogs') : dialogs'[n].rejecting =>
                        n \in 1..Len(dialogs) /\ dialogs[n].rejecting
        <3>1. PICK kind : dialogs' = Append(dialogs, Dialog(kind))
            BY <2>2 DEF TimerOpen, Open
        <3>2. QED
            BY <3>1, Basics, Next0, OrderOpened DEF Ending
    <2>3. QED
        BY <2>1, <2>2 DEF TimerLoad, TimerRefresh, TimerSettings, TimerClose
<1>5. QED
    BY <1>1, <1>2, <1>3, <1>4, EndingShifts

\* The dialog on top is at work again, with a thread that no other waits for.
LEMMA StartEnding == ASSUME IInv, IInv', Ending, StartInDialog PROVE Ending'
<1>1. PICK t \in Threads, job \in SettingsJobs \cup CalculationJobs :
          /\ Top.kind = IF job \in SettingsJobs THEN "settings" ELSE "calculation"
          /\ Started(t, job) /\ ChangeTop([Top EXCEPT !.thread = t])
    BY DEF StartInDialog
<1>2. OnDialog /\ queue' = queue /\ phase' = phase /\ ~Top.over
    BY DEF StartInDialog, OnDialog
<1>3. /\ dialogs \in Seq(Dialogs) /\ dialogs' \in Seq(Dialogs) /\ Top \in Dialogs
      /\ Waits(dialogs, owned, active) /\ owned \subseteq owned' /\ t \notin owned
    BY <1>1, <1>2, Basics, Next0, OnDialogFrame DEF Started
<1>4. PICK d, k : d = [Top EXCEPT !.thread = t] /\ k = Len(dialogs)
    OBVIOUS
<1>5. /\ d.thread = t /\ t # NoThread /\ ~d.over /\ d.kind # "plain"
      /\ d.rejecting = Top.rejecting
    BY <1>1, <1>2, <1>3, <1>4, NoThreadAssumption DEF Dialogs
<1>6. /\ dialogs' = [dialogs EXCEPT ![k] = d] /\ Top = dialogs[k] /\ k \in 1..Len(dialogs)
      /\ dialogs \in Seq(Dialogs)
    BY <1>1, <1>2, <1>3, <1>4, OnDialogFrame DEF ChangeTop, Top
<1>7. /\ Len(dialogs') = Len(dialogs) /\ dialogs'[k] = d
      /\ \A n \in 1..Len(dialogs) : n # k => dialogs'[n] = dialogs[n]
    BY <1>6
<1>8. \A n \in 1..Len(dialogs) : dialogs[n].thread # t
    BY <1>3, <1>5 DEF Waits
<1>9. Orderly(dialogs')
    BY <1>5, <1>7, <1>8 DEF Ending, Orderly
<1>10. \A n \in 1..Len(dialogs') : dialogs'[n].rejecting =>
           n \in 1..Len(dialogs) /\ dialogs[n].rejecting
    BY <1>5, <1>6, <1>7
<1>11. Extends(queue, queue')
    BY <1>2 DEF Extends
<1>12. QED
    BY <1>2, <1>3, <1>9, <1>10, <1>11, EndingGrows

\* What reject() makes of one of the dialogs.
LEMMA RejectedOrder ==
    ASSUME IInv, IInv', Ending, NEW k \in 1..Len(dialogs), NEW d \in Dialogs,
           d.kind = dialogs[k].kind, d.thread = dialogs[k].thread, d.over = dialogs[k].over,
           RejectDialog(k, d)
    PROVE  /\ Orderly(dialogs') /\ Len(dialogs') = Len(dialogs)
           /\ \A n \in 1..Len(dialogs) : n # k => dialogs'[n] = dialogs[n]
           /\ dialogs'[k].rejecting = d.rejecting
<1>1. dialogs \in Seq(Dialogs) /\ dialogs' \in Seq(Dialogs) /\ k \in DOMAIN dialogs
    BY Basics, Next0
<1>2. PICK e \in Dialogs :
          /\ e.thread = NoThread \/ e.thread = d.thread
          /\ dialogs' = [dialogs EXCEPT ![k] = e]
          /\ e.over \/ (e.thread # NoThread /\ e.closing)
          /\ e.kind = d.kind /\ e.rejecting = d.rejecting
          /\ e.thread # NoThread => e.over = d.over
    BY <1>1, RejectedDialog
<1>3. /\ Len(dialogs') = Len(dialogs) /\ dialogs'[k] = e
      /\ \A n \in 1..Len(dialogs) : n # k => dialogs'[n] = dialogs[n]
    BY <1>1, <1>2
<1>4. Orderly(dialogs)
    BY DEF Ending
<1>5. ASSUME NEW n \in 1..Len(dialogs')
      PROVE  /\ dialogs'[n].kind = dialogs[n].kind
             /\ dialogs'[n].thread # NoThread =>
                    dialogs'[n].thread = dialogs[n].thread /\ ~dialogs'[n].over
             /\ dialogs'[n].closing => \/ dialogs'[n].over \/ dialogs'[n].thread # NoThread
                                       \/ dialogs'[n].rejecting
    <2>1. CASE n = k
        BY <1>2, <1>3, <1>4, <2>1 DEF Orderly
    <2>2. CASE n # k
        BY <1>3, <1>4, <1>5, <2>2 DEF Orderly
    <2>3. QED
        BY <2>1, <2>2
<1>6. Len(dialogs') <= Len(dialogs)
    BY <1>1, <1>3
<1>7. Orderly(dialogs')
    BY <1>1, <1>4, <1>5, <1>6, OrderStays
<1>8. QED
    BY <1>2, <1>3, <1>7

LEMMA RejectEnding == ASSUME IInv, IInv', Ending, Reject PROVE Ending'
<1>1. OnDialog /\ UNCHANGED <<phase, queue, owned>>
    BY DEF Reject, OnDialog
<1>2. PICK k : k = Len(dialogs)
    OBVIOUS
<1>3. k \in 1..Len(dialogs) /\ Top = dialogs[k] /\ Top \in Dialogs
    BY <1>1, <1>2, Basics, OnDialogFrame DEF Top
<1>4. RejectDialog(k, dialogs[k])
    BY <1>2, <1>3 DEF Reject
<1>5. /\ Orderly(dialogs') /\ Len(dialogs') = Len(dialogs)
      /\ \A n \in 1..Len(dialogs) : n # k => dialogs'[n] = dialogs[n]
      /\ dialogs'[k].rejecting = dialogs[k].rejecting
    BY <1>3, <1>4, RejectedOrder
<1>6. \A n \in 1..Len(dialogs') : dialogs'[n].rejecting =>
          n \in 1..Len(dialogs) /\ dialogs[n].rejecting
    BY <1>5
<1>7. Extends(queue, queue')
    BY <1>1 DEF Extends
<1>8. QED
    BY <1>1, <1>5, <1>6, <1>7, EndingGrows

LEMMA CloudSettingsEnding == ASSUME IInv, IInv', Ending, CloudSettings PROVE Ending'
<1>1. OnDialog /\ UNCHANGED <<phase, owned>> /\ Top.thread = NoThread
    BY DEF CloudSettings, OnDialog
<1>2. PICK k, d : k = Len(dialogs) /\ d = [Top EXCEPT !.over = TRUE]
    OBVIOUS
<1>3. k \in 1..Len(dialogs) /\ Top = dialogs[k] /\ Top \in Dialogs
    BY <1>1, <1>2, Basics, OnDialogFrame DEF Top
<1>4. d.over /\ d.thread = NoThread /\ d.kind = Top.kind /\ d.rejecting = Top.rejecting
    BY <1>1, <1>2, <1>3 DEF Dialogs
<1>5. /\ dialogs \in Seq(Dialogs) /\ dialogs' \in Seq(Dialogs)
      /\ dialogs' = [dialogs EXCEPT ![k] = d]
    BY <1>2, Basics, Next0 DEF CloudSettings, ChangeTop
<1>6. /\ Len(dialogs') = Len(dialogs) /\ dialogs'[k] = d
      /\ \A n \in 1..Len(dialogs) : n # k => dialogs'[n] = dialogs[n]
    BY <1>5
<1>7. Orderly(dialogs')
    BY <1>3, <1>4, <1>6 DEF Ending, Orderly
<1>8. \A n \in 1..Len(dialogs') : dialogs'[n].rejecting =>
          n \in 1..Len(dialogs) /\ dialogs[n].rejecting
    BY <1>3, <1>4, <1>6
<1>9. Extends(queue, queue')
    BY Posts DEF CloudSettings, Callbacks
<1>10. QED
    BY <1>1, <1>7, <1>8, <1>9, EndingGrows

LEMMA TimerRejectEnding == ASSUME IInv, IInv', Ending, TimerReject PROVE Ending'
<1>1. /\ queue # <<>> /\ Head(queue) = "reject" /\ queue' = Tail(queue)
      /\ UNCHANGED <<phase, owned>>
    BY DEF TimerReject, Timer
<1>2. /\ queue \in Seq(Callbacks) /\ dialogs \in Seq(Dialogs)
      /\ queue' \in Seq(Callbacks) /\ dialogs' \in Seq(Dialogs)
    BY Basics, Next0
<1>3. Quitting(phase', queue', owned')
    <2>1. In(queue, "_finish") => In(queue', "_finish")
        BY <1>1, <1>2, StillInTail
    <2>2. In(queue, "quit") => In(queue', "quit")
        BY <1>1, <1>2, StillInTail
    <2>3. QED
        BY <1>1, <2>1, <2>2 DEF Ending, Quitting
<1>4. Orderly(dialogs') /\ Promised(dialogs', queue')
    <2>1. ASSUME NEW k \in DOMAIN dialogs, dialogs[k].rejecting,
                 RejectDialog(k, [dialogs[k] EXCEPT !.rejecting = FALSE])
          PROVE  Orderly(dialogs') /\ Promised(dialogs', queue')
        <3>1. PICK d : d = [dialogs[k] EXCEPT !.rejecting = FALSE]
            OBVIOUS
        <3>2. k \in 1..Len(dialogs) /\ dialogs[k] \in Dialogs
            BY <1>2
        <3>3. /\ d \in Dialogs /\ d.kind = dialogs[k].kind /\ d.thread = dialogs[k].thread
              /\ d.over = dialogs[k].over /\ ~d.rejecting
            BY <3>1, <3>2 DEF Dialogs
        <3>4. RejectDialog(k, d)
            BY <2>1, <3>1
        <3>5. /\ Orderly(dialogs') /\ Len(dialogs') = Len(dialogs)
              /\ \A n \in 1..Len(dialogs) : n # k => dialogs'[n] = dialogs[n]
              /\ dialogs'[k].rejecting = d.rejecting
            BY <3>2, <3>3, <3>4, RejectedOrder
        <3>6. \A n \in 1..Len(dialogs) : dialogs'[n].rejecting => n # k /\ dialogs[n].rejecting
            BY <3>3, <3>5
        <3>7. Promised(dialogs, queue)
            BY DEF Ending
        <3>8. Promised(dialogs', queue')
            BY <1>1, <1>2, <2>1, <3>2, <3>5, <3>6, <3>7, PlacesSwap
        <3>9. QED
            BY <3>5, <3>8
    <2>2. CASE (\A n \in DOMAIN dialogs : ~dialogs[n].rejecting) /\ dialogs' = dialogs
        <3>1. \A n \in 1..Len(dialogs) : ~dialogs[n].rejecting
            BY <1>2, <2>2
        <3>2. [n \in 1..Len(dialogs) |-> 0] \in [1..Len(dialogs) -> Nat]
            OBVIOUS
        <3>3. Places([n \in 1..Len(dialogs) |-> 0], dialogs, queue')
            BY <3>1 DEF Places
        <3>4. Promised(dialogs, queue')
            BY <3>2, <3>3 DEF Promised
        <3>5. QED
            BY <2>2, <3>4 DEF Ending
    <2>3. QED
        BY <2>1, <2>2 DEF TimerReject
<1>5. QED
    BY <1>3, <1>4 DEF Ending, Quitting, Orderly, Promised, Places, In

LEMMA ResultEnding ==
    ASSUME IInv, IInv', Ending, NEW t \in Threads, DialogSucceeded(t) \/ Failed(t)
    PROVE  Ending'
<1>1. UNCHANGED <<phase, queue, owned>>
    BY DEF DialogSucceeded, Failed
<1>2. dialogs \in Seq(Dialogs) /\ dialogs' \in Seq(Dialogs) /\ Orderly(dialogs)
    BY Basics, Next0 DEF Ending
<1>3. /\ Orderly(dialogs')
      /\ \A n \in 1..Len(dialogs') : dialogs'[n].rejecting =>
             n \in 1..Len(dialogs) /\ dialogs[n].rejecting
    <2>1. CASE DialogSucceeded(t)
        <3>1. /\ \A n \in DOMAIN dialogs :
                     dialogs'[n] \in {dialogs[n], [dialogs[n] EXCEPT !.saved = TRUE]}
              /\ DOMAIN dialogs' = DOMAIN dialogs
            BY <2>1 DEF DialogSucceeded
        <3>2. ASSUME NEW n \in DOMAIN dialogs
              PROVE  /\ dialogs'[n].kind = dialogs[n].kind
                     /\ dialogs'[n].thread = dialogs[n].thread
                     /\ dialogs'[n].over = dialogs[n].over
                     /\ dialogs'[n].closing = dialogs[n].closing
                     /\ dialogs'[n].rejecting = dialogs[n].rejecting
            <4>1. PICK d : d = [dialogs[n] EXCEPT !.saved = TRUE]
                OBVIOUS
            <4>2. dialogs[n] \in Dialogs
                BY <1>2
            <4>3. /\ d.kind = dialogs[n].kind /\ d.thread = dialogs[n].thread
                  /\ d.over = dialogs[n].over /\ d.closing = dialogs[n].closing
                  /\ d.rejecting = dialogs[n].rejecting
                BY <4>1, <4>2 DEF Dialogs
            <4>4. QED
                BY <3>1, <4>1, <4>3
        <3>3. /\ DOMAIN dialogs = 1..Len(dialogs) /\ DOMAIN dialogs' = 1..Len(dialogs')
              /\ Len(dialogs) \in Nat /\ Len(dialogs') \in Nat
            BY <1>2
        <3>4. Len(dialogs') = Len(dialogs)
            BY <3>1, <3>3
        <3>5. QED
            BY <1>2, <3>2, <3>3, <3>4 DEF Orderly
    <2>2. CASE Failed(t)
        <3>1. CASE dialogs' = dialogs
            BY <1>2, <3>1
        <3>2. CASE dialogs' = Append(dialogs, Dialog("plain"))
            BY <1>2, <3>2, OrderOpened
        <3>3. QED
            BY <2>2, <3>1, <3>2 DEF Failed, Open
    <2>3. QED
        BY <2>1, <2>2
<1>4. Extends(queue, queue')
    BY <1>1 DEF Extends
<1>5. QED
    BY <1>1, <1>3, <1>4, EndingGrows

\* The owner tells the coordinator that its last worker has finished.
LEMMA DrainedExtends ==
    ASSUME IInv, NEW t \in Threads
    PROVE  /\ Drained(t) \in Seq(Callbacks) /\ Extends(queue, Drained(t))
           /\ owned = {t} /\ phase = "closing" => In(Drained(t), "_finish")
<1>1. queue \in Seq(Callbacks) /\ "_finish" \in Callbacks
    BY Basics DEF Callbacks
<1>2. CASE owned = {t} /\ Pending
    BY <1>1, <1>2, NowIn DEF Drained, Post
<1>3. CASE ~(owned = {t} /\ Pending)
    BY <1>1, <1>3 DEF Drained, Extends, Pending
<1>4. QED
    BY <1>2, <1>3

LEMMA WindowWorkerEnding ==
    ASSUME IInv, IInv', Ending, NEW t \in Threads, WindowWorkerFinished(t) PROVE Ending'
<1>1. PICK q : q = Drained(t)
    OBVIOUS
<1>2. /\ q \in Seq(Callbacks) /\ Extends(queue, q) /\ queue \in Seq(Callbacks)
      /\ owned = {t} /\ phase = "closing" => In(q, "_finish")
      /\ queue' \in Seq(Callbacks)
    BY <1>1, DrainedExtends, Basics, Next0
<1>3. queue' \in {q, Append(q, "close"), Append(q, "refresh_devices")}
    BY <1>1 DEF WindowWorkerFinished
<1>4. Extends(q, queue')
    <2>1. CASE queue' = q
        BY <1>2, <2>1 DEF Extends
    <2>2. CASE queue' = Append(q, "close")
        BY <1>2, <2>2, NowIn DEF Callbacks
    <2>3. CASE queue' = Append(q, "refresh_devices")
        BY <1>2, <2>3, NowIn DEF Callbacks
    <2>4. QED
        BY <1>3, <2>1, <2>2, <2>3
<1>5. Extends(queue, queue')
    BY <1>2, <1>4, ExtendsTwice
<1>6. dialogs' = dialogs /\ phase' = phase /\ owned' = owned \ {t}
    BY DEF WindowWorkerFinished, Released
<1>7. phase = "closing" /\ owned # {} => owned' # {} \/ In(queue', "_finish")
    <2>1. In(q, "_finish") => In(queue', "_finish")
        BY <1>2, <1>4, StillIn
    <2>2. QED
        BY <1>2, <1>6, <2>1
<1>8. QED
    BY <1>5, <1>6, <1>7, EndingSame

\* A dialog that was asked to close is over with its worker, or posts its
\* reject; no other waits for that worker.
LEMMA DialogWorkerEnding ==
    ASSUME IInv, IInv', Ending, NEW t \in Threads, DialogWorkerFinished(t) PROVE Ending'
<1>1. PICK q : q = Drained(t)
    OBVIOUS
<1>2. /\ q \in Seq(Callbacks) /\ Extends(queue, q) /\ queue \in Seq(Callbacks)
      /\ owned = {t} /\ phase = "closing" => In(q, "_finish")
      /\ queue' \in Seq(Callbacks)
      /\ dialogs \in Seq(Dialogs) /\ dialogs' \in Seq(Dialogs)
      /\ Orderly(dialogs) /\ Promised(dialogs, queue)
    BY <1>1, DrainedExtends, Basics, Next0 DEF Ending
<1>3. /\ dialogs' = [n \in DOMAIN dialogs |->
                       IF n \in Waiting(t)
                       THEN [dialogs[n] EXCEPT
                               !.thread = NoThread,
                               !.rejecting = @ \/ RejectsLater(dialogs[n]),
                               !.over = \/ @ \/ dialogs[n].saved
                                        \/ dialogs[n].kind = "settings" /\ dialogs[n].closing]
                       ELSE dialogs[n]]
      /\ queue' = IF \E n \in Waiting(t) : RejectsLater(dialogs[n])
                  THEN Append(q, "reject") ELSE q
    BY <1>1 DEF DialogWorkerFinished
<1>4. phase' = phase /\ owned' = owned \ {t}
    BY DEF DialogWorkerFinished, Released
<1>5. /\ Len(dialogs') = Len(dialogs) /\ DOMAIN dialogs = 1..Len(dialogs)
      /\ Waiting(t) = {n \in 1..Len(dialogs) : dialogs[n].thread = t} /\ t # NoThread
    <2>1. /\ DOMAIN dialogs = 1..Len(dialogs) /\ DOMAIN dialogs' = 1..Len(dialogs')
          /\ Len(dialogs') \in Nat /\ Len(dialogs) \in Nat
        BY <1>2
    <2>2. DOMAIN dialogs' = DOMAIN dialogs
        BY <1>3
    <2>3. Len(dialogs') = Len(dialogs)
        BY <2>1, <2>2, SameLength
    <2>4. QED
        BY <2>1, <2>3, NoThreadAssumption DEF Waiting
<1>6. ASSUME NEW n \in 1..Len(dialogs)
      PROVE  /\ n \notin Waiting(t) => dialogs'[n] = dialogs[n]
             /\ n \in Waiting(t) =>
                   /\ dialogs'[n].kind = dialogs[n].kind /\ dialogs'[n].thread = NoThread
                   /\ dialogs'[n].closing = dialogs[n].closing
                   /\ dialogs'[n].rejecting = (dialogs[n].rejecting \/ RejectsLater(dialogs[n]))
                   /\ dialogs'[n].closing => dialogs'[n].over \/ dialogs'[n].rejecting
    <2>1. dialogs[n] \in Dialogs
        BY <1>2
    <2>2. CASE n \notin Waiting(t)
        BY <1>3, <1>5, <2>2
    <2>3. CASE n \in Waiting(t)
        <3>1. PICK over \in BOOLEAN : over = (\/ dialogs[n].over \/ dialogs[n].saved
                                             \/ (dialogs[n].kind = "settings" /\ dialogs[n].closing))
            BY <2>1 DEF Dialogs
        <3>2. PICK rejecting \in BOOLEAN :
                  rejecting = (dialogs[n].rejecting \/ RejectsLater(dialogs[n]))
            OBVIOUS
        <3>3. dialogs'[n] = [dialogs[n] EXCEPT !.thread = NoThread, !.rejecting = rejecting,
                                               !.over = over]
            BY <1>3, <1>5, <2>3, <3>1, <3>2
        <3>4. dialogs[n].kind # "plain"
            BY <1>2, <1>5, <2>3 DEF Orderly
        <3>5. dialogs[n].closing => over \/ rejecting
            BY <2>1, <3>1, <3>2, <3>4 DEF RejectsLater, Dialogs
        <3>6. /\ dialogs'[n].kind = dialogs[n].kind /\ dialogs'[n].thread = NoThread
              /\ dialogs'[n].closing = dialogs[n].closing
              /\ dialogs'[n].rejecting = rejecting /\ dialogs'[n].over = over
            BY <2>1, <3>3 DEF Dialogs
        <3>7. QED
            BY <2>3, <3>2, <3>5, <3>6
    <2>4. QED
        BY <2>2, <2>3
<1>7. Orderly(dialogs')
    BY <1>2, <1>5, <1>6 DEF Orderly
<1>8. Promised(dialogs', queue') /\ Extends(q, queue')
    <2>1. Promised(dialogs, q)
        BY <1>2, PlacesRemain
    <2>2. CASE \E n \in Waiting(t) : RejectsLater(dialogs[n])
        <3>1. PICK k \in 1..Len(dialogs) : k \in Waiting(t)
            BY <1>5, <2>2
        <3>2. \A n \in 1..Len(dialogs) : n # k /\ dialogs'[n].rejecting => dialogs[n].rejecting
            <4>1. \A n \in 1..Len(dialogs) : n \in Waiting(t) => n = k
                BY <1>2, <1>5, <3>1 DEF Orderly
            <4>2. QED
                BY <1>6, <4>1
        <3>3. queue' = Append(q, "reject")
            BY <1>3, <2>2
        <3>4. Promised(dialogs', queue')
            BY <1>2, <1>5, <2>1, <3>1, <3>2, <3>3, PlaceAdded
        <3>5. Extends(q, queue')
            BY <1>2, <3>3, NowIn DEF Callbacks
        <3>6. QED
            BY <3>4, <3>5
    <2>3. CASE ~\E n \in Waiting(t) : RejectsLater(dialogs[n])
        <3>1. queue' = q
            BY <1>3, <2>3
        <3>2. Extends(q, queue')
            BY <1>2, <3>1 DEF Extends
        <3>3. \A n \in 1..Len(dialogs') : dialogs'[n].rejecting =>
                  n \in 1..Len(dialogs) /\ dialogs[n].rejecting
            BY <1>5, <1>6, <2>3
        <3>4. QED
            BY <1>2, <2>1, <3>2, <3>3, PlacesRemain
    <2>4. QED
        BY <2>2, <2>3
<1>9. Quitting(phase', queue', owned')
    <2>1. Extends(queue, queue')
        BY <1>2, <1>8, ExtendsTwice
    <2>2. In(q, "_finish") => In(queue', "_finish")
        BY <1>2, <1>8, StillIn
    <2>3. In(queue, "_finish") => In(queue', "_finish")
        BY <1>2, <2>1, StillIn
    <2>4. In(queue, "quit") => In(queue', "quit")
        BY <1>2, <2>1, StillIn
    <2>5. QED
        BY <1>2, <1>4, <2>2, <2>3, <2>4 DEF Ending, Quitting
<1>10. QED
    BY <1>7, <1>8, <1>9 DEF Ending, Quitting, Orderly, Promised, Places, In

LEMMA ReturnEnding == ASSUME IInv, IInv', Ending, Return PROVE Ending'
<1>1. /\ dialogs # <<>> /\ dialogs' = SubSeq(dialogs, 1, Len(dialogs) - 1)
      /\ UNCHANGED <<phase, owned>>
    BY DEF Return
<1>2. dialogs \in Seq(Dialogs) /\ dialogs' \in Seq(Dialogs) /\ Orderly(dialogs)
    BY Basics, Next0 DEF Ending
<1>3. /\ Len(dialogs) \in Nat /\ Len(dialogs') = Len(dialogs) - 1
      /\ \A n \in 1..Len(dialogs') : dialogs'[n] = dialogs[n] /\ n \in 1..Len(dialogs)
    BY <1>1, <1>2, Popped
<1>4. Orderly(dialogs')
    BY <1>2, <1>3 DEF Orderly
<1>5. Extends(queue, queue')
    <2>1. queue' \in {queue, Post("refresh_devices")}
        BY DEF Return, ScheduleRefresh
    <2>2. QED
        BY <2>1, Posts DEF Callbacks
<1>6. QED
    BY <1>1, <1>3, <1>4, <1>5, EndingGrows

LEMMA EndingInductive == IInv /\ IInv' /\ Ending /\ [Next]_vars => Ending'
<1>1. SUFFICES ASSUME IInv, IInv', Ending, [Next]_vars PROVE Ending'
    OBVIOUS
<1>2. CASE UNCHANGED vars
    BY <1>1, <1>2 DEF vars, Ending, Quitting, Orderly, Promised, Places, In
<1>3. CASE User
    BY <1>1, <1>3, ClickEnding, StartEnding, RejectEnding, CloudSettingsEnding DEF User
<1>4. CASE RequestQuit \/ QuitEvent
    BY <1>1, <1>4, QuitEnding
<1>5. CASE Loop
    BY <1>1, <1>5, TimerEnding, TimerRejectEnding, FinishEnding, QuitEnding, ReturnEnding
       DEF Loop
<1>6. ASSUME NEW t \in Threads, RunEnds(t) \/ Signal(t) PROVE Ending'
    BY <1>1, <1>6, WorkerEnding, ResultEnding, WindowWorkerEnding, DialogWorkerEnding DEF Signal
<1>7. QED
    BY <1>1, <1>2, <1>3, <1>4, <1>5, <1>6 DEF Next

\* Where every callback of an end has its place, every end goes on.
LEMMA EndsGoOn == IInv /\ Ending => EndingGoesOn
<1>1. SUFFICES ASSUME IInv, Ending PROVE EndingGoesOn
    OBVIOUS
<1>2. dialogs \in Seq(Dialogs) /\ Waits(dialogs, owned, active)
    BY <1>1, Basics
<1>3. /\ phase = "closing" => owned # {} \/ Queued("_finish")
      /\ phase = "issued" => Queued("quit")
    BY <1>1 DEF Ending, Quitting, In, Queued
<1>4. ASSUME NEW n \in DOMAIN dialogs, dialogs[n].closing, ~dialogs[n].over
      PROVE  dialogs[n].thread \in owned \/ (dialogs[n].rejecting /\ Queued("reject"))
    <2>1. n \in 1..Len(dialogs)
        BY <1>2
    <2>2. dialogs[n].thread # NoThread \/ dialogs[n].rejecting
        BY <1>1, <1>4, <2>1 DEF Ending, Orderly
    <2>3. dialogs[n].thread # NoThread => dialogs[n].thread \in owned
        BY <1>2, <2>1 DEF Waits
    <2>4. ASSUME dialogs[n].rejecting PROVE Queued("reject")
        <3>1. PICK f \in [1..Len(dialogs) -> Nat] : Places(f, dialogs, queue)
            BY <1>1 DEF Ending, Promised
        <3>2. f[n] \in 1..Len(queue) /\ queue[f[n]] = "reject"
            BY <2>1, <2>4, <3>1 DEF Places
        <3>3. QED
            BY <3>2 DEF Queued
    <2>5. QED
        BY <2>2, <2>3, <2>4
<1>5. QED
    BY <1>3, <1>4 DEF EndingGoesOn

LEMMA EndingInitial == Init => Ending
<1>1. SUFFICES ASSUME Init PROVE Ending
    OBVIOUS
<1>2. dialogs = <<>> /\ Len(dialogs) = 0 /\ phase = "running"
    BY <1>1 DEF Init
<1>3. Orderly(dialogs) /\ Quitting(phase, queue, owned)
    BY <1>2 DEF Orderly, Quitting
<1>4. [n \in 1..Len(dialogs) |-> 0] \in [1..Len(dialogs) -> Nat]
    OBVIOUS
<1>5. Places([n \in 1..Len(dialogs) |-> 0], dialogs, queue)
    BY <1>2 DEF Places
<1>6. QED
    BY <1>3, <1>4, <1>5 DEF Ending, Promised

-----------------------------------------------------------------------------
(* The theorems *)

LEMMA Initial == ASSUME Init PROVE IInv
<1>1. PICK w : w = [boot |-> TRUE, configured |-> FALSE, rows |-> FALSE, again |-> FALSE,
                    refresh |-> FALSE, settings |-> FALSE, status |-> FALSE,
                    panel |-> "loading"]
    OBVIOUS
<1>2. w \in Windows
    BY <1>1 DEF Windows
<1>3. Free \in Workers /\ Free.state = "free" /\ Free.job = "none"
    BY DEF Free, Workers, Jobs
<1>4. queue = <<"load_initial_state">> /\ "load_initial_state" \in Callbacks
    BY DEF Init, Callbacks
<1>5. /\ queue \in Seq(Callbacks) /\ Once(queue) /\ Starting(queue) /\ Calm(queue)
    BY <1>4 DEF Once, Starting, Calm
<1>6. /\ threads \in [Threads -> Workers]
      /\ \A t \in Threads : threads[t].state = "free" /\ threads[t].job = "none"
    BY <1>3 DEF Init
<1>7. /\ window = w /\ owned = {} /\ active = {} /\ dialogs = <<>> /\ phase = "running"
      /\ clicks \in 0..MaxClicks
    BY <1>1, UserAssumption DEF Init
<1>8. Typed(phase, window, queue, threads, owned, active, dialogs, clicks)
    BY <1>2, <1>5, <1>6, <1>7 DEF Typed
<1>9. Owned(threads, owned, active) /\ Buttons(window, active) /\ Waits(dialogs, owned, active)
    BY <1>6, <1>7 DEF Owned, Buttons, Waits
<1>10. StartInv(queue, window, owned, dialogs) /\ IdleInv(phase, queue, window, active)
    BY <1>1, <1>5, <1>7 DEF StartInv, IdleInv
<1>11. EarlyInv(phase, queue, window, threads, active) /\ Uncancelled(phase, threads, active)
    BY <1>1, <1>5, <1>6, <1>7 DEF EarlyInv, Uncancelled
<1>12. QED
    BY <1>5, <1>8, <1>9, <1>10, <1>11 DEF IInv, Good

LEMMA Inductive == IInv /\ [Next]_vars => IInv'
<1>1. SUFFICES ASSUME IInv, [Next]_vars PROVE IInv'
    OBVIOUS
<1>2. CASE UNCHANGED vars
    BY <1>1, <1>2 DEF vars, IInv
<1>3. CASE User
    BY <1>1, <1>3, RetryStep, RefreshStep, SettingsStep, RowStep, StartInDialogStep,
       RejectStep, CloudSettingsStep DEF User
<1>4. CASE RequestQuit \/ QuitEvent
    BY <1>1, <1>4, RequestQuitStep, QuitEventStep
<1>5. CASE Loop
    BY <1>1, <1>5, TimerLoadStep, TimerRefreshStep, TimerSettingsStep, TimerRejectStep,
       TimerCloseStep, TimerOpenStep, FinishStep, QuitStep, ReturnStep DEF Loop
<1>6. ASSUME NEW t \in Threads, RunEnds(t) \/ Signal(t) PROVE IInv'
    BY <1>1, <1>6, RunEndsStep, BootstrapSucceededStep, RefreshSucceededStep,
       BackgroundSucceededStep, DialogSucceededStep, FailedStep, WindowWorkerFinishedStep,
       DialogWorkerFinishedStep DEF Signal
<1>7. QED
    BY <1>1, <1>2, <1>3, <1>4, <1>5, <1>6 DEF Next

\* The inductive invariant holds in every reachable state of the window, its
\* dialogs and the workers (ui/main_window.py, ui/workers.py, ui/app.py).
THEOREM Invariant == Spec => []IInv
<1>1. QED
    BY Initial, Inductive, PTL DEF Spec

\* Every quit and every dialog that was asked to close waits for a worker or
\* has its callback in the queue, one of its own (ui/app.py, dialogs/calculate.py).
THEOREM Endings == Spec => []Ending
<1>1. QED
    BY Initial, Inductive, EndingInitial, EndingInductive, PTL DEF Spec

\* At most one refresh or status capture runs in the application
\* (main_window.py, refresh_devices and run_background_operation).
THEOREM CapturesExclude == Spec => []OneCapture
<1>1. IInv => OneCapture
    <2>1. SUFFICES ASSUME IInv, NEW t \in Threads, NEW u \in Threads, Runs(t), Runs(u),
                          {threads[t].job, threads[u].job} \subseteq Captures
                   PROVE  t = u
        BY DEF OneCapture
    <2>2. threads[t].job \notin DialogJobs /\ threads[u].job \notin DialogJobs
        BY <2>1 DEF Captures, DialogJobs, SettingsJobs, CalculationJobs
    <2>3. t \in active /\ u \in active
        BY <2>1, <2>2, Basics DEF Runs
    <2>4. QED
        BY <2>1, <2>3 DEF IInv, Good, Owned
<1>2. QED
    BY Invariant, <1>1, PTL

\* While a capture runs, Refresh and every Status button are disabled, and the
\* state is well typed (main_window.py, set_rows and _run_worker).
THEOREM TriggersAreOff == Spec => []TriggersDisabled
<1>1. IInv => TriggersDisabled
    <2>1. SUFFICES ASSUME IInv PROVE TriggersDisabled
        OBVIOUS
    <2>2. TypeOK
        BY <2>1 DEF IInv, Good, Typed, TypeOK
    <2>3. ASSUME NEW t \in Threads, Runs(t), threads[t].job \in Captures
          PROVE  ~window.refresh /\ ~window.status
        <3>1. threads[t].job \notin DialogJobs
            BY <2>3 DEF Captures, DialogJobs, SettingsJobs, CalculationJobs
        <3>2. t \in active
            BY <2>1, <2>3, <3>1, Basics DEF Runs
        <3>3. QED
            BY <2>1, <3>2 DEF IInv, Good, Buttons
    <2>4. QED
        BY <2>2, <2>3 DEF TriggersDisabled
<1>2. QED
    BY Invariant, <1>1, PTL

\* No thread runs or waits to be finished without its owner (workers.py).
THEOREM ThreadsAreOwned == Spec => []OwnedUntilFinished
<1>1. IInv => OwnedUntilFinished
    BY Basics DEF OwnedUntilFinished
<1>2. QED
    BY Invariant, <1>1, PTL

\* The application is never stuck: an idle window offers settings, the status
\* of meters and a refresh once it is configured, and a way on after a failed start
\* (main_window.py); a quit, and a dialog that was asked to close, still has a
\* worker to wait for or the callback that goes on (app.py, calculate.py).
THEOREM WindowGoesOn == Spec => []NeverStuck
<1>1. IInv => IdleOffers
    <2>1. SUFFICES ASSUME IInv, Idle
                   PROVE  /\ window.settings
                          /\ window.configured => window.status
                          /\ window.configured /\ ~window.boot => window.refresh
                          /\ window.boot /\ ~window.configured => window.panel = "error"
        BY DEF IdleOffers
    <2>2. phase = "running" /\ active = {} /\ ~Starting(queue)
        BY <2>1, Basics DEF Idle, Starting
    <2>3. /\ window.settings /\ (window.configured => window.status)
          /\ window.configured /\ ~window.boot => window.refresh
        BY <2>1, <2>2 DEF IInv, Good, IdleInv
    <2>4. window.boot /\ ~window.configured => window.panel = "error"
        BY <2>1, <2>2 DEF IInv, Good, EarlyInv, Early
    <2>5. QED
        BY <2>3, <2>4
<1>2. IInv /\ Ending => NeverStuck
    BY <1>1, EndsGoOn DEF NeverStuck
<1>3. QED
    BY Invariant, Endings, <1>2, PTL

-----------------------------------------------------------------------------
(* A quit goes its way *)

\* What is queued tells how far a quit has come.
Announced(p, q) == /\ In(q, "_finish") => p # "running"
                   /\ In(q, "quit") => p \in {"issued", "exited"}

\* Of the callbacks queued in r, those that q lacks are in C.
Adds(q, r, C) == \A callback : In(r, callback) => In(q, callback) \/ callback \in C

Others == Callbacks \ {"_finish", "quit"}

LEMMA AppendAdds ==
    ASSUME NEW q \in Seq(Callbacks), NEW c \in Callbacks, NEW r, r = Append(q, c)
    PROVE  Adds(q, r, {c})
<1>1. /\ Len(r) = Len(q) + 1 /\ Len(q) \in Nat
      /\ \A n \in 1..Len(q) : r[n] = q[n]
      /\ r[Len(q) + 1] = c
    OBVIOUS
<1>2. ASSUME NEW callback, NEW n \in 1..Len(r), r[n] = callback
      PROVE  In(q, callback) \/ callback = c
    <2>1. n \in 1..Len(q) \/ n = Len(q) + 1
        BY <1>1
    <2>2. QED
        BY <1>1, <1>2, <2>1 DEF In
<1>3. QED
    BY <1>2 DEF Adds, In

LEMMA TailAdds ==
    ASSUME NEW q \in Seq(Callbacks), q # <<>>, NEW r, r = Tail(q)
    PROVE  Adds(q, r, {})
<1>1. Len(q) \in Nat /\ Len(r) = Len(q) - 1 /\ \A n \in 1..Len(r) : r[n] = q[n + 1]
    OBVIOUS
<1>2. ASSUME NEW callback, NEW n \in 1..Len(r), r[n] = callback
      PROVE  In(q, callback)
    <2>1. n + 1 \in 1..Len(q) /\ q[n + 1] = callback
        BY <1>1, <1>2
    <2>2. QED
        BY <2>1 DEF In
<1>3. QED
    BY <1>2 DEF Adds, In

LEMMA AddsTwice ==
    ASSUME NEW q, NEW r, NEW s, NEW C, NEW D, NEW E, Adds(q, r, C), Adds(r, s, D),
           C \subseteq E, D \subseteq E
    PROVE  Adds(q, s, E)
BY DEF Adds

LEMMA PostAdds ==
    ASSUME IInv, NEW c \in Others, queue' \in {queue, Post(c)}
    PROVE  Adds(queue, queue', Others)
<1>1. queue \in Seq(Callbacks) /\ c \in Callbacks
    BY Basics DEF Others
<1>2. CASE queue' = queue
    BY <1>2 DEF Adds
<1>3. CASE queue' = Post(c)
    <2>1. Adds(queue, queue', {c})
        BY <1>1, <1>3, AppendAdds DEF Post
    <2>2. QED
        BY <2>1 DEF Adds
<1>4. QED
    BY <1>2, <1>3

LEMMA DrainedAdds ==
    ASSUME IInv, NEW t \in Threads, NEW q, q = Drained(t)
    PROVE  q \in Seq(Callbacks) /\ Adds(queue, q, IF Pending THEN {"_finish"} ELSE {})
<1>1. queue \in Seq(Callbacks) /\ "_finish" \in Callbacks
    BY Basics DEF Callbacks
<1>2. CASE owned = {t} /\ Pending
    <2>1. q = Append(queue, "_finish")
        BY <1>2 DEF Drained, Post
    <2>2. q \in Seq(Callbacks)
        BY <1>1, <2>1
    <2>3. Adds(queue, q, {"_finish"})
        BY <1>1, <2>1, AppendAdds
    <2>4. QED
        BY <1>2, <2>2, <2>3
<1>3. CASE ~(owned = {t} /\ Pending)
    BY <1>1, <1>3 DEF Drained, Adds
<1>4. QED
    BY <1>2, <1>3

\* A finished signal posts the coordinator's callback while it waits, and
\* callbacks of the window or a dialog.
LEMMA FinishedAdds ==
    ASSUME IInv, NEW t \in Threads, WindowWorkerFinished(t) \/ DialogWorkerFinished(t)
    PROVE  Adds(queue, queue', IF Pending THEN Others \cup {"_finish"} ELSE Others)
<1>1. PICK q : q = Drained(t)
    OBVIOUS
<1>2. q \in Seq(Callbacks) /\ Adds(queue, q, IF Pending THEN {"_finish"} ELSE {})
    BY <1>1, DrainedAdds
<1>3. {"close", "refresh_devices", "reject"} \subseteq Others
    BY DEF Others, Callbacks
<1>4. \/ queue' = q
      \/ \E c \in {"close", "refresh_devices", "reject"} : queue' = Append(q, c)
    BY <1>1 DEF WindowWorkerFinished, DialogWorkerFinished
<1>5. Adds(q, queue', Others)
    <2>1. CASE queue' = q
        BY <2>1 DEF Adds
    <2>2. ASSUME NEW c \in {"close", "refresh_devices", "reject"}, queue' = Append(q, c)
          PROVE  Adds(q, queue', Others)
        <3>1. c \in Callbacks /\ c \in Others
            BY <1>3 DEF Others
        <3>2. Adds(q, queue', {c})
            BY <1>2, <2>2, <3>1, AppendAdds
        <3>3. QED
            BY <3>1, <3>2 DEF Adds
    <2>3. QED
        BY <1>4, <2>1, <2>2
<1>6. QED
    BY <1>2, <1>5 DEF Adds

\* The steps that are none of the coordinator's.
LEMMA ElseAdds ==
    ASSUME IInv, Next, ~RequestQuit, ~QuitEvent, ~Finish, ~Quit
    PROVE  /\ phase' = phase
           /\ Adds(queue, queue', IF Pending THEN Others \cup {"_finish"} ELSE Others)
<1>1. "show_settings" \in Others /\ "refresh_devices" \in Others /\ Background \subseteq Others
    BY DEF Others, Callbacks, Background
<1>2. Adds(queue, queue', Others) =>
          Adds(queue, queue', IF Pending THEN Others \cup {"_finish"} ELSE Others)
    BY DEF Adds
<1>3. CASE User
    <2>1. phase' = phase
        BY <1>3 DEF User, ClickRetry, ClickRefresh, ClickSettings, ClickRow, OnWindow,
               StartInDialog, Reject, CloudSettings, OnDialog
    <2>2. queue' \in {queue, Post("show_settings")}
        BY <1>3 DEF User, ClickRetry, ClickRefresh, ClickSettings, ClickRow, OnWindow,
               StartInDialog, Reject, CloudSettings
    <2>3. QED
        BY <1>1, <1>2, <2>1, <2>2, PostAdds
<1>4. CASE Loop /\ ~Return
    <2>1. queue # <<>> /\ queue' = Tail(queue) /\ phase' = phase
        BY <1>4 DEF Loop, TimerLoad, TimerRefresh, TimerSettings, TimerReject, TimerClose,
               TimerOpen, Timer
    <2>2. Adds(queue, queue', {})
        BY <2>1, Basics, TailAdds
    <2>3. QED
        BY <1>2, <2>1, <2>2 DEF Adds
<1>5. CASE Return
    <2>1. queue' \in {queue, Post("refresh_devices")} /\ phase' = phase
        BY <1>5 DEF Return, ScheduleRefresh
    <2>2. QED
        BY <1>1, <1>2, <2>1, PostAdds
<1>6. ASSUME NEW t \in Threads, RunEnds(t) \/ Signal(t)
      PROVE  /\ phase' = phase
             /\ Adds(queue, queue', IF Pending THEN Others \cup {"_finish"} ELSE Others)
    <2>1. phase' = phase
        BY <1>6 DEF RunEnds, Signal, BootstrapSucceeded, RefreshSucceeded,
               BackgroundSucceeded, DialogSucceeded, Failed, WindowWorkerFinished,
               DialogWorkerFinished, Released
    <2>2. CASE WindowWorkerFinished(t) \/ DialogWorkerFinished(t)
        BY <2>1, <2>2, FinishedAdds
    <2>3. CASE BackgroundSucceeded(t)
        <3>1. PICK c \in Others : queue' \in {queue, Post(c)}
            BY <1>1, <2>3 DEF BackgroundSucceeded
        <3>2. QED
            BY <1>2, <2>1, <3>1, PostAdds
    <2>4. CASE \/ RunEnds(t) \/ BootstrapSucceeded(t) \/ RefreshSucceeded(t)
               \/ DialogSucceeded(t) \/ Failed(t)
        <3>1. queue' \in {queue, Post("refresh_devices")}
            BY <2>4 DEF RunEnds, BootstrapSucceeded, RefreshSucceeded, DialogSucceeded,
                   Failed, ScheduleRefresh
        <3>2. QED
            BY <1>1, <1>2, <2>1, <3>1, PostAdds
    <2>5. QED
        BY <1>6, <2>2, <2>3, <2>4 DEF Signal
<1>7. QED
    BY <1>3, <1>4, <1>5, <1>6 DEF Next

\* The steps of a quit, one after the other.
Forward == \/ phase' = phase
           \/ phase = "running" /\ phase' = "closing"
           \/ phase = "closing" /\ phase' = "issued" /\ owned = {}
           \/ phase = "issued" /\ phase' = "exited"

LEMMA QuitForward ==
    ASSUME IInv, Announced(phase, queue), Next
    PROVE  Forward /\ Announced(phase', queue')
<1>1. queue \in Seq(Callbacks) /\ {"_finish", "quit"} \subseteq Callbacks
      /\ phase \in {"running", "closing", "issued", "exited"}
    <2>1. phase \in {"running", "closing", "issued", "exited"}
        BY Basics DEF Phases
    <2>2. QED
        BY <2>1, Basics DEF Callbacks
<1>2. CASE RequestQuit
    <2>1. phase = "running" /\ phase' = "closing" /\ queue' \in {queue, Append(queue, "_finish")}
        BY <1>2 DEF RequestQuit, Post
    <2>2. Adds(queue, queue', {"_finish"})
        BY <1>1, <2>1, AppendAdds DEF Adds
    <2>3. QED
        BY <2>1, <2>2 DEF Forward, Announced, Adds
<1>3. CASE QuitEvent
    BY <1>3 DEF QuitEvent, Forward, Announced
<1>4. CASE Finish
    <2>1. PICK q : q = Tail(queue)
        OBVIOUS
    <2>2. queue # <<>> /\ Head(queue) = "_finish" /\ phase # "exited"
        BY <1>4 DEF Finish
    <2>3. In(queue, "_finish")
        <3>1. 1 \in 1..Len(queue) /\ queue[1] = "_finish"
            BY <1>1, <2>2
        <3>2. QED
            BY <3>1 DEF In
    <2>4. phase \in {"closing", "issued"}
        BY <1>1, <2>2, <2>3 DEF Announced
    <2>5. q \in Seq(Callbacks)
        BY <1>1, <2>1, <2>2
    <2>6. Adds(queue, q, {})
        BY <1>1, <2>1, <2>2, TailAdds
    <2>7. CASE owned = {}
        <3>1. phase' = "issued" /\ queue' = Append(q, "quit")
            BY <1>4, <2>1, <2>7 DEF Finish
        <3>2. QED
            BY <2>4, <2>7, <3>1 DEF Forward, Announced
    <2>8. CASE owned # {}
        <3>1. phase' = phase /\ queue' = q
            BY <1>4, <2>1, <2>8 DEF Finish
        <3>2. QED
            BY <2>6, <3>1 DEF Forward, Announced, Adds
    <2>9. QED
        BY <2>7, <2>8
<1>5. CASE Quit
    <2>1. queue # <<>> /\ Head(queue) = "quit" /\ phase # "exited" /\ phase' = "exited"
        BY <1>5 DEF Quit, Timer
    <2>2. 1 \in 1..Len(queue) /\ queue[1] = "quit"
        BY <1>1, <2>1
    <2>3. In(queue, "quit")
        BY <2>2 DEF In
    <2>4. QED
        BY <2>1, <2>3 DEF Forward, Announced
<1>6. CASE ~RequestQuit /\ ~QuitEvent /\ ~Finish /\ ~Quit
    <2>1. /\ phase' = phase
          /\ Adds(queue, queue', IF Pending THEN Others \cup {"_finish"} ELSE Others)
        BY <1>6, ElseAdds
    <2>2. QED
        BY <2>1 DEF Forward, Announced, Adds, Others, Pending
<1>7. QED
    BY <1>2, <1>3, <1>4, <1>5, <1>6

\* A quit takes its three steps in order and never goes back: it is requested
\* before the coordinator issues it, and it is issued only while the owner
\* holds no thread (_finish). What may start between the issue and the exit is
\* what the run desktop_quit_active shows.
THEOREM QuitsInOrder == Spec => [][Forward]_vars
<1>1. Init => Announced(phase, queue)
    <2>1. SUFFICES ASSUME Init PROVE Announced(phase, queue)
        OBVIOUS
    <2>2. queue = <<"load_initial_state">>
        BY <2>1 DEF Init
    <2>3. ~In(queue, "_finish") /\ ~In(queue, "quit")
        BY <2>2 DEF In
    <2>4. QED
        BY <2>3 DEF Announced
<1>2. IInv /\ Announced(phase, queue) /\ [Next]_vars => Announced(phase, queue)'
    <2>1. SUFFICES ASSUME IInv, Announced(phase, queue), [Next]_vars
                   PROVE  Announced(phase', queue')
        BY DEF Announced, In
    <2>2. CASE UNCHANGED vars
        BY <2>1, <2>2 DEF vars, Announced, In
    <2>3. CASE Next
        BY <2>1, <2>3, QuitForward
    <2>4. QED
        BY <2>1, <2>2, <2>3
<1>3. IInv /\ Announced(phase, queue) /\ [Next]_vars => [Forward]_vars
    BY QuitForward
<1>4. QED
    BY <1>1, <1>2, <1>3, Invariant, PTL DEF Spec
=============================================================================
