------------------------------ MODULE NrFilter -------------------------------
(***************************************************************************)
(* The nullroute filter (NrFilter.cpp): the hook every lookup calls, run by *)
(* the resolver's threads at once and without a blocking lock.              *)
(*                                                                         *)
(* A thread in evaluate() refreshes the cached kill switch, maps the        *)
(* control page, follows the index the app promotes, takes a reference to   *)
(* the mapped index, judges the name and logs the verdict (NrRing).  The    *)
(* app, the seeder, init's properties and the clock move meanwhile.  Steps  *)
(* interleave at the accesses to shared state that another thread can       *)
(* observe; retry_at_ms_ is only ahead or past.                             *)
(*                                                                         *)
(* The mappings (NrMap.h), the control page and the matcher are not part of *)
(* the repository: they are modelled by how this code uses them.  A         *)
(* mapping's reference count is the set of the threads that hold it.        *)
(***************************************************************************)
EXTENDS NrRing

CONSTANTS
    Pool,               \* the control blocks nr_mapping_open() takes mappings from
    NoMapping,
    NR_MAX_FAULTS,
    MaxGeneration,      \* bound: index files published
    MaxEpoch,           \* bound: changes of the mode
    MaxSets             \* bound: changes of the kill switch property

ASSUME FilterAssumption ==
    /\ NoMapping \notin Pool /\ NR_MAX_FAULTS \in Nat \ {0}
    /\ MaxGeneration \in Nat /\ MaxEpoch \in Nat /\ MaxSets \in Nat

VARIABLES
    prop,       \* persist.sys.nullroute.kill, its serial and the area's serial (init)
    kill,       \* g_kill_pi, g_kill_serial, g_area_serial, g_kill, g_kill_published
    page,       \* control.bin: whether it can be mapped, want_generation, config_epoch, mode
    file,       \* the index file: its generation, or why it cannot be mapped
    f,          \* NrFilter: state_, ctl_, cur_, mapped_gen_, remap_target_, seen_epoch_,
                \* slow_busy_, faults_, whether retry_at_ms_ is ahead, last_field_,
                \* and the published sys.nullroute.filter
    pool,       \* the mappings: free, live, retired; generation; the threads holding it
    q,          \* q[t]: the evaluate() thread t is in
    raced,      \* history: two threads have been in nr_refresh_kill() at once
    scene       \* what the outside world does; log_level # 0 in "log"

filterVars == <<prop, kill, page, file, f, pool, q, raced, scene>>
vars == <<ringVars, filterVars>>

NoGeneration == -1      \* UINT64_MAX
NoSerial == -1          \* UINT32_MAX
Free == [st |-> "free", gen |-> NoGeneration, holders |-> {}]
Idle == [at |-> "idle", area |-> 0, on |-> FALSE, want |-> 0, epoch |-> 0,
         cand |-> NoMapping, old |-> NoMapping, tries |-> 0]

\* sys.nullroute.filter: none yet, disabled, killed, nomap, badhdr, off, or ok:<generation>.
Health(st) == [st |-> st, gen |-> NoGeneration]
Ok(gen) == [st |-> "ok", gen |-> gen]

ColdKill == [found |-> FALSE, serial |-> 0, area |-> NoSerial, killed |-> FALSE,
             published |-> FALSE]

ColdFilter == [state |-> "INIT", ctl |-> FALSE, cur |-> NoMapping, mapped_gen |-> 0,
               remap_target |-> NoGeneration, seen_epoch |-> 0, busy |-> FALSE, faults |-> 0,
               waiting |-> FALSE, field |-> FALSE, health |-> Health("none")]

\* What the outside world does in a behaviour: netd has just started and the page and
\* the first index appear; or the filter serves index 1 and the kill switch and the mode
\* change, or new indexes are promoted, or verdicts are logged.
Scenes == {"boot", "kill", "index", "log"}

Init ==
    /\ RingInit
    /\ prop = [area |-> 0, there |-> FALSE, on |-> FALSE, serial |-> 0]
    /\ q = [t \in Threads |-> Idle]
    /\ raced = FALSE
    /\ scene \in Scenes
    /\ IF scene = "boot"
       THEN /\ page = [file |-> "absent", want |-> 0, epoch |-> 0, mode |-> "ENFORCE"]
            /\ file = [st |-> "absent", gen |-> 0]
            /\ kill = ColdKill
            /\ f = ColdFilter
            /\ pool = [m \in Pool |-> Free]
       ELSE /\ page = [file |-> "ok", want |-> 1, epoch |-> 0, mode |-> "ENFORCE"]
            /\ file = [st |-> "ok", gen |-> 1]
            /\ kill = [ColdKill EXCEPT !.area = 0]
            /\ \E m \in Pool :
                 /\ f = [ColdFilter EXCEPT !.state = "READY", !.ctl = TRUE, !.cur = m,
                           !.mapped_gen = 1, !.remap_target = 1, !.health = Ok(1)]
                 /\ pool = [[n \in Pool |-> Free] EXCEPT ![m] = [Free EXCEPT !.st = "live", !.gen = 1]]

Goto(t, at) == q' = [q EXCEPT ![t].at = at]
Enter(t, at) == q' = [q EXCEPT ![t] = [Idle EXCEPT !.at = at]]
Return(t) == Enter(t, "idle")

----------------------------------------------------------------------------
(* The world outside                                                        *)

\* init sets the property: the area serial moves with every change, the property's own
\* serial with every change of it.
SetKill(on) ==
    /\ scene \in {"boot", "kill"} /\ prop.area < (IF scene = "boot" THEN 1 ELSE MaxSets)
    /\ prop' = [area |-> prop.area + 1, there |-> TRUE, on |-> on,
                serial |-> IF prop.there THEN prop.serial + 1 ELSE 0]
    /\ UNCHANGED <<ringVars, kill, page, file, f, pool, q, raced, scene>>

\* nullroute_seed creates the control page, or policy denies it.
Seed(how) ==
    /\ page.file # "ok"
    /\ page' = [page EXCEPT !.file = how]
    /\ UNCHANGED <<ringVars, prop, kill, file, f, pool, q, raced, scene>>

\* The app puts a new index in place, or a broken one.
PutIndex(bad) ==
    /\ file.gen = page.want
    /\ \/ scene = "boot" /\ file.gen = 0
       \/ scene = "index" /\ file.gen < MaxGeneration
    /\ file' = [st |-> IF bad THEN "bad" ELSE "ok", gen |-> file.gen + 1]
    /\ UNCHANGED <<ringVars, prop, kill, page, f, pool, q, raced, scene>>

\* and then promotes it.
Promote ==
    /\ page.file = "ok" /\ file.gen > page.want
    /\ page' = [page EXCEPT !.want = file.gen]
    /\ UNCHANGED <<ringVars, prop, kill, file, f, pool, q, raced, scene>>

SetMode(mode) ==
    /\ scene = "kill" /\ page.epoch < MaxEpoch /\ mode # page.mode
    /\ page' = [page EXCEPT !.mode = mode, !.epoch = @ + 1]
    /\ UNCHANGED <<ringVars, prop, kill, file, f, pool, q, raced, scene>>

\* retry_at_ms_ passes.
Tick ==
    /\ f.waiting
    /\ f' = [f EXCEPT !.waiting = FALSE]
    /\ UNCHANGED <<ringVars, prop, kill, page, file, pool, q, raced, scene>>

----------------------------------------------------------------------------
(* nr_refresh_kill()                                                        *)

InRefresh == {"find", "absent", "serial", "read", "store"}

\* A step of thread t that leaves the filter, the page and the mappings alone.
KillStep(t) == UNCHANGED <<ringVars, prop, page, file, f, pool, scene>>

evaluate(t) ==
    /\ q[t].at = "idle" /\ (scene = "log" => ring.head < MaxTickets)
    /\ IF f.state = "DISABLED" THEN Return(t) ELSE Goto(t, "area")
    /\ KillStep(t) /\ UNCHANGED <<kill, raced>>

kill_area(t) ==
    /\ q[t].at = "area"
    /\ IF prop.area = kill.area THEN Enter(t, "check") /\ UNCHANGED raced
       ELSE /\ q' = [q EXCEPT ![t] = [@ EXCEPT !.at = "find", !.area = prop.area]]
            /\ raced' = (raced \/ \E u \in Threads \ {t} : q[u].at \in InRefresh)
    /\ KillStep(t) /\ UNCHANGED kill

\* Mutant: what g_kill_serial held before the property was found stays.
found_SameSerial(k) == [k EXCEPT !.found = TRUE]

found(k) == [k EXCEPT !.found = TRUE, !.serial = NoSerial]

kill_find(t) ==
    /\ q[t].at = "find"
    /\ LET k == [kill EXCEPT !.area = q[t].area] IN
       IF k.found THEN kill' = k /\ Goto(t, "serial")
       ELSE IF prop.there THEN kill' = found(k) /\ Goto(t, "serial")
       ELSE kill' = k /\ Goto(t, "absent")
    /\ KillStep(t) /\ UNCHANGED raced

kill_absent(t) ==
    /\ q[t].at = "absent"
    /\ kill' = [kill EXCEPT !.killed = FALSE]
    /\ Enter(t, "check")
    /\ KillStep(t) /\ UNCHANGED raced

kill_serial(t) ==
    /\ q[t].at = "serial"
    /\ IF prop.serial = kill.serial THEN Enter(t, "check") /\ UNCHANGED kill
       ELSE kill' = [kill EXCEPT !.serial = prop.serial] /\ Goto(t, "read")
    /\ KillStep(t) /\ UNCHANGED raced

kill_read(t) ==
    /\ q[t].at = "read"
    /\ q' = [q EXCEPT ![t] = [@ EXCEPT !.at = "store", !.on = prop.on]]
    /\ KillStep(t) /\ UNCHANGED <<kill, raced>>

kill_store(t) ==
    /\ q[t].at = "store"
    /\ kill' = [kill EXCEPT !.killed = q[t].on]
    /\ Enter(t, "check")
    /\ KillStep(t) /\ UNCHANGED raced

----------------------------------------------------------------------------
(* The health property, faults and the slow lock                            *)

\* What publishState() reports of filter state g; hasCtl: whether it is given the page.
publishState(g, hasCtl) ==
    [g EXCEPT !.health =
        IF g.state = "DISABLED" THEN Health("disabled")
        ELSE IF kill.killed THEN Health("killed")
        ELSE IF ~hasCtl THEN Health("nomap")
        ELSE IF page.mode # "ENFORCE" THEN Health("off")
        ELSE IF g.cur = NoMapping THEN Health(IF g.field THEN "badhdr" ELSE "nomap")
        ELSE Ok(g.mapped_gen)]

\* A fault is soft when the file is not there yet or no slot is free; the third hard
\* one in a row ends filtering for this boot.
noteFault(g, soft, field) ==
    LET faults == IF soft THEN g.faults ELSE g.faults + 1 IN
    [g EXCEPT !.faults = faults, !.field = field, !.waiting = TRUE,
              !.state = IF faults >= NR_MAX_FAULTS THEN "DISABLED" ELSE @,
              !.ctl = IF faults >= NR_MAX_FAULTS THEN FALSE ELSE @]

Locked(g) == [g EXCEPT !.busy = TRUE]
Unlocked(g) == [g EXCEPT !.busy = FALSE]

\* A step of thread t on the filter only.
FilterStep(t) == UNCHANGED <<ringVars, prop, kill, page, file, pool, raced, scene>>

\* evaluate() after the refresh; onKillChanged() when the flip is not reported yet.
check_kill(t) ==
    /\ q[t].at = "check"
    /\ LET next == IF kill.killed THEN "idle" ELSE "ctl" IN
       IF kill.killed # kill.published /\ ~f.busy
       THEN /\ f' = Locked(f)
            /\ q' = [q EXCEPT ![t] = [@ EXCEPT !.at = "report", !.on = kill.killed]]
       ELSE Enter(t, next) /\ UNCHANGED f
    /\ FilterStep(t)

onKillChanged(t) ==
    /\ q[t].at = "report"
    /\ f' = publishState(f, f.ctl)
    /\ Goto(t, "reported")
    /\ FilterStep(t)

onKillChanged_store(t) ==
    /\ q[t].at = "reported"
    /\ kill' = [kill EXCEPT !.published = kill.killed]
    /\ f' = Unlocked(f)
    /\ Enter(t, IF q[t].on THEN "idle" ELSE "ctl")
    /\ UNCHANGED <<ringVars, prop, page, file, pool, raced, scene>>

----------------------------------------------------------------------------
(* controlPage()                                                            *)

controlPage(t) ==
    /\ q[t].at = "ctl"
    /\ IF f.ctl THEN Enter(t, "load")
       ELSE IF f.state = "DISABLED" \/ f.waiting THEN Return(t)
       ELSE Goto(t, "cp_lock")
    /\ FilterStep(t) /\ UNCHANGED f

controlPage_lock(t) ==
    /\ q[t].at = "cp_lock"
    /\ IF f.busy THEN Return(t) /\ UNCHANGED f
       ELSE f' = Locked(f) /\ Goto(t, "cp_map")
    /\ FilterStep(t)

\* Under the lock: another thread may have mapped the page meanwhile.
controlPage_map(t) ==
    /\ q[t].at = "cp_map"
    /\ IF f.ctl THEN f' = Unlocked(f) /\ Enter(t, "load")
       ELSE IF page.file = "ok"
       THEN /\ f' = Unlocked(publishState([f EXCEPT !.ctl = TRUE, !.state = "READY",
                                                    !.faults = 0, !.waiting = FALSE], TRUE))
            /\ Enter(t, "load")
       ELSE /\ f' = Unlocked(publishState(noteFault(f, page.file = "absent", FALSE), FALSE))
            /\ Return(t)
    /\ FilterStep(t)

----------------------------------------------------------------------------
(* The index: evaluate()'s check for news, and slowPath()                   *)

GenMoved(want) == want # f.mapped_gen /\ want # f.remap_target

load_page(t) ==
    /\ q[t].at = "load"
    /\ IF f.cur = NoMapping \/ page.epoch # f.seen_epoch \/ GenMoved(page.want)
       THEN q' = [q EXCEPT ![t] = [Idle EXCEPT !.at = "slow", !.want = page.want,
                                               !.epoch = page.epoch]]
       ELSE Enter(t, "cand")
    /\ FilterStep(t) /\ UNCHANGED f

\* The filter ahead of the lock: nothing is decided on what it reads.
slowPath(t) ==
    /\ q[t].at = "slow"
    /\ IF f.state = "DISABLED" \/ (q[t].epoch = f.seen_epoch /\ f.waiting)
       THEN Enter(t, "cand") ELSE Goto(t, "sp_lock")
    /\ FilterStep(t) /\ UNCHANGED f

slowPath_lock(t) ==
    /\ q[t].at = "sp_lock"
    /\ LET g == [f EXCEPT !.seen_epoch = q[t].epoch] IN
       IF f.busy THEN Enter(t, "cand") /\ UNCHANGED f
       ELSE IF f.cur # NoMapping /\ ~GenMoved(q[t].want)
       THEN f' = publishState(g, TRUE) /\ Enter(t, "cand")
       ELSE IF f.waiting THEN f' = g /\ Enter(t, "cand")
       ELSE f' = Locked(g) /\ Goto(t, "reclaim")
    /\ FilterStep(t)

Drained(m) == pool[m].st = "retired" /\ pool[m].holders = {}

reclaim(t) ==
    /\ q[t].at = "reclaim"
    /\ pool' = [m \in Pool |-> IF Drained(m) THEN [Free EXCEPT !.holders = pool[m].holders]
                               ELSE pool[m]]
    /\ Goto(t, "open")
    /\ UNCHANGED <<ringVars, prop, kill, page, file, f, raced, scene>>

FreeSlots == {m \in Pool : pool[m].st = "free"}

\* Mutant: one attempt per wanted generation even when it failed.
open_failed_Once(g, want) == [g EXCEPT !.remap_target = want]

\* "Clear the target so the backoff decides when we try again".
open_failed(g, want) == [g EXCEPT !.remap_target = NoGeneration]

\* nr_mapping_open(): a mapping of the file there is now, or why there is none.
open_index(t) ==
    /\ q[t].at = "open"
    /\ IF file.st = "ok" /\ FreeSlots # {}
       THEN \E m \in FreeSlots :
              /\ pool' = [pool EXCEPT ![m] = [@ EXCEPT !.st = "live", !.gen = file.gen]]
              /\ q' = [q EXCEPT ![t] = [@ EXCEPT !.at = "swap", !.cand = m]]
              /\ UNCHANGED f
       ELSE /\ f' = Unlocked(publishState(
                       noteFault(open_failed(f, q[t].want), file.st # "bad" \/ FreeSlots = {},
                                 file.st # "absent"), TRUE))
            /\ Enter(t, "cand")
            /\ UNCHANGED pool
    /\ UNCHANGED <<ringVars, prop, kill, page, file, raced, scene>>

\* cur_.exchange(): from here new readers find the new mapping.
swap(t) ==
    /\ q[t].at = "swap"
    /\ f' = [f EXCEPT !.cur = q[t].cand]
    /\ q' = [q EXCEPT ![t] = [@ EXCEPT !.at = "retire", !.old = f.cur]]
    /\ FilterStep(t)

mapped(g, gen, want) ==
    Unlocked(publishState([g EXCEPT !.mapped_gen = gen, !.remap_target = want, !.faults = 0,
                                    !.field = FALSE, !.waiting = FALSE], TRUE))

retire(t) ==
    /\ q[t].at = "retire"
    /\ pool' = [m \in Pool |-> IF m = q[t].old THEN [pool[m] EXCEPT !.st = "retired"] ELSE pool[m]]
    /\ f' = mapped(f, pool[q[t].cand].gen, q[t].want)
    /\ Enter(t, "cand")
    /\ UNCHANGED <<ringVars, prop, kill, page, file, raced, scene>>

----------------------------------------------------------------------------
(* The reference to the mapping, the verdict and the log                    *)

MAX_TRIES == 4

\* cand = cur_, before the loop and after each lost try.
load_cand(t) ==
    /\ q[t].at = "cand"
    /\ IF f.cur = NoMapping \/ q[t].tries = MAX_TRIES THEN Return(t)
       ELSE q' = [q EXCEPT ![t] = [Idle EXCEPT !.at = "acquire", !.cand = f.cur, !.tries = q[t].tries]]
    /\ FilterStep(t) /\ UNCHANGED f

Holding(t, m) == [pool EXCEPT ![m].holders = @ \cup {t}]
Released(t, m) == [pool EXCEPT ![m].holders = @ \ {t}]

PoolStep(t) == UNCHANGED <<ringVars, prop, kill, page, file, f, raced, scene>>

acquire(t) ==
    /\ q[t].at = "acquire"
    /\ pool' = Holding(t, q[t].cand)
    /\ Goto(t, "confirm")
    /\ PoolStep(t)

\* Mutant: a reference is enough.
confirmed_Always(t) == TRUE

confirmed(t) == f.cur = q[t].cand

confirm(t) ==
    /\ q[t].at = "confirm"
    /\ IF confirmed(t) THEN Goto(t, "judge") /\ UNCHANGED pool
       ELSE /\ pool' = Released(t, q[t].cand)
            /\ q' = [q EXCEPT ![t] = [Idle EXCEPT !.at = "cand", !.tries = q[t].tries + 1]]
    /\ PoolStep(t)

\* nr_evaluate() reads the mapped index; a verdict other than PASS only while enforcing.
judge(t) ==
    /\ q[t].at = "judge"
    /\ pool' = Released(t, q[t].cand)
    /\ \E v \in IF page.mode = "ENFORCE" THEN {"PASS", "BLOCK", "REDIRECT"} ELSE {"PASS"} :
         IF v = "PASS" \/ scene # "log" THEN Return(t) ELSE Goto(t, "log")
    /\ PoolStep(t)

log(t) ==
    /\ q[t].at = "log"
    /\ ring_write_begin(t)
    /\ Goto(t, "logged")
    /\ UNCHANGED <<prop, kill, page, file, f, pool, raced, scene>>

logged(t) ==
    /\ q[t].at = "logged" /\ w[t].at = "done"
    /\ w' = [w EXCEPT ![t] = Out]
    /\ Return(t)
    /\ UNCHANGED <<ring, reader, lapped, prop, kill, page, file, f, pool, raced, scene>>

Step(t) ==
    \/ kill_area(t) \/ kill_find(t) \/ kill_absent(t) \/ kill_serial(t) \/ kill_read(t)
    \/ kill_store(t) \/ check_kill(t) \/ onKillChanged(t) \/ onKillChanged_store(t)
    \/ controlPage(t) \/ controlPage_lock(t) \/ controlPage_map(t)
    \/ load_page(t) \/ slowPath(t) \/ slowPath_lock(t) \/ reclaim(t) \/ open_index(t)
    \/ swap(t) \/ retire(t) \/ load_cand(t) \/ acquire(t) \/ confirm(t) \/ judge(t)
    \/ log(t) \/ logged(t) \/ (ring_step(t) /\ UNCHANGED filterVars)

Next ==
    \/ \E on \in BOOLEAN : SetKill(on)
    \/ \E how \in {"ok", "denied"} : Seed(how)
    \/ \E bad \in BOOLEAN : PutIndex(bad)
    \/ Promote
    \/ \E mode \in {"ENFORCE", "OFF"} : SetMode(mode)
    \/ Tick
    \/ (RingTick \/ RingForeign \/ ReadRecord) /\ scene = "log" /\ UNCHANGED filterVars
    \/ \E t \in Threads : evaluate(t) \/ Step(t)

\* The threads are scheduled, lookups keep coming and deadlines pass.
Fairness == WF_vars(Tick) /\ \A t \in Threads : WF_vars(evaluate(t)) /\ WF_vars(Step(t))

Spec == Init /\ [][Next]_vars /\ Fairness

----------------------------------------------------------------------------

TypeOK ==
    /\ RingTypeOK
    /\ f.state \in {"INIT", "READY", "DISABLED"} /\ f.cur \in Pool \cup {NoMapping}
    /\ f.faults \in 0..(NR_MAX_FAULTS + Cardinality(Threads)) /\ \A b \in {"ctl", "busy", "waiting", "field"} : f[b] \in BOOLEAN
    /\ \A m \in Pool : pool[m].st \in {"free", "live", "retired"} /\ pool[m].holders \subseteq Threads
    /\ \A t \in Threads : q[t].tries \in 0..MAX_TRIES /\ q[t].cand \in Pool \cup {NoMapping}

\* "No in-flight query loses its mapping": while a thread reads an index, however many
\* promotions pass, the mapping is neither unmapped nor given to another file
\* (evaluate()'s acquire and confirm, slowPath()'s retire and reclaim).
MappedWhileRead ==
    \A t \in Threads : q[t].at = "judge" =>
        pool[q[t].cand].st # "free" /\ t \in pool[q[t].cand].holders

\* The cached kill switch is the property's value once the current area serial has been
\* seen and no thread is in nr_refresh_kill(): with refreshes that do not overlap.
KillExact ==
    /\ ~raced /\ kill.area = prop.area
    /\ \A t \in Threads : q[t].at \notin InRefresh
    => kill.killed = (prop.there /\ prop.on)

\* While nobody holds the slow lock sys.nullroute.filter does not lie: ok:<g> is the
\* generation of the index being served, disabled is the state, both ways (publishState()).
HealthTrue ==
    ~f.busy =>
        /\ f.health.st = "ok" => /\ f.cur # NoMapping /\ pool[f.cur].st = "live"
                                 /\ f.health.gen = f.mapped_gen /\ f.mapped_gen = pool[f.cur].gen
        /\ f.health.st = "disabled" <=> f.state = "DISABLED"

\* A promoted index that is good ends up served, whatever failed before, unless the
\* filter has disabled itself or is killed (slowPath()'s retries, lost try-locks and
\* backoff).
Promoted ==
    \A g \in 1..MaxGeneration :
        <>[](page.want = g /\ file = [st |-> "ok", gen |-> g]) =>
            <>[](f.state = "DISABLED" \/ kill.killed \/ (f.cur # NoMapping /\ pool[f.cur].gen = g))
============================================================================
