-------------------------- MODULE NrFilterProofs --------------------------
(***************************************************************************)
(* For any threads and mappings: the cached kill switch is exact as long as *)
(* refreshes do not overlap, an index being read stays mapped, and the      *)
(* health property does not lie.  For any size of the ring: a record the    *)
(* app accepts is whole, as long as no writer has been lapped in its slot.  *)
(* First what every step does to the record of its thread.                  *)
(***************************************************************************)
EXTENDS NrFilter, TLAPS

FilterFields == {"state", "ctl", "cur", "mapped_gen", "remap_target", "seen_epoch", "busy", "faults",
                 "waiting", "field", "health"}
QueryFields == {"at", "area", "on", "want", "epoch", "cand", "old", "tries"}
KillFields == {"found", "serial", "area", "killed", "published"}
BlockFields == {"st", "gen", "holders"}

\* The variables are records, or functions to records, with these fields.
Shape ==
    /\ DOMAIN f = FilterFields /\ DOMAIN kill = KillFields
    /\ DOMAIN q = Threads /\ \A t \in Threads : DOMAIN q[t] = QueryFields
    /\ DOMAIN pool = Pool /\ \A m \in Pool : DOMAIN pool[m] = BlockFields

----------------------------------------------------------------------------

\* Cold or already serving, the filter starts with these fields.
LEMMA InitShape == Init => Shape
<1>1. /\ DOMAIN ColdFilter = FilterFields /\ DOMAIN ColdKill = KillFields
      /\ DOMAIN Idle = QueryFields /\ DOMAIN Free = BlockFields
  BY Zenon DEF FilterFields, QueryFields, KillFields, BlockFields, ColdFilter, ColdKill, Idle, Free
<1> SUFFICES ASSUME Init PROVE Shape
  BY Zenon
<1>2. DOMAIN kill = KillFields /\ DOMAIN q = Threads /\ \A t \in Threads : DOMAIN q[t] = QueryFields
  BY Zenon, <1>1 DEF Init
<1>3. CASE scene = "boot"
  BY <1>1, <1>2, <1>3, Zenon DEF Init, Shape
<1>4. CASE scene # "boot"
  <2>1. PICK m \in Pool :
          /\ f = [ColdFilter EXCEPT !.state = "READY", !.ctl = TRUE, !.cur = m,
                    !.mapped_gen = 1, !.remap_target = 1, !.health = Ok(1)]
          /\ pool = [[n \in Pool |-> Free] EXCEPT ![m] = [Free EXCEPT !.st = "live", !.gen = 1]]
    BY <1>4, Zenon DEF Init
  <2> QED
    BY <1>1, <1>2, <2>1, Zenon DEF Shape
<1> QED
  BY <1>3, <1>4, Zenon

\* Properties, files, the control page and time leave the filter's records their fields.
LEMMA WorldShape ==
    ASSUME Shape,
           \/ \E on \in BOOLEAN : SetKill(on)
           \/ \E how \in {"ok", "denied"} : Seed(how)
           \/ \E bad \in BOOLEAN : PutIndex(bad)
           \/ Promote
           \/ \E mode \in {"ENFORCE", "OFF"} : SetMode(mode)
           \/ Tick
           \/ UNCHANGED filterVars
    PROVE  Shape'
  BY Zenon DEF Shape, SetKill, Seed, PutIndex, Promote, SetMode, Tick, filterVars

\* So do the two ways a query moves on.
LEMMA QueryShape ==
    ASSUME Shape, NEW t \in Threads, NEW at
    PROVE  /\ Goto(t, at) => DOMAIN q' = Threads /\ \A u \in Threads : DOMAIN q'[u] = QueryFields
           /\ Enter(t, at) => DOMAIN q' = Threads /\ \A u \in Threads : DOMAIN q'[u] = QueryFields
  BY Zenon DEF Shape, Goto, Enter, Idle, QueryFields

\* nr_refresh_kill() keeps the fields.
LEMMA KillShape ==
    ASSUME Shape, NEW t \in Threads,
           \/ evaluate(t) \/ kill_area(t) \/ kill_find(t) \/ kill_absent(t) \/ kill_serial(t)
           \/ kill_read(t) \/ kill_store(t)
    PROVE  Shape'
  BY Zenon, QueryShape DEF Shape, KillStep, evaluate, kill_area, kill_find, kill_absent, kill_serial, kill_read, kill_store, Return, found

\* The reaction to the kill switch and the mapping of the control page keep the fields.
LEMMA ControlShape ==
    ASSUME Shape, NEW t \in Threads,
           \/ check_kill(t) \/ onKillChanged(t) \/ onKillChanged_store(t)
           \/ controlPage(t) \/ controlPage_lock(t) \/ controlPage_map(t)
    PROVE  Shape'
  BY Zenon, QueryShape DEF Shape, FilterStep, check_kill, onKillChanged, onKillChanged_store, controlPage, controlPage_lock, controlPage_map,
     publishState, noteFault, Locked, Unlocked, Return

\* The slow path, from its lock to the retirement of the old mapping, keeps the fields.
LEMMA IndexShape ==
    ASSUME Shape, NEW t \in Threads,
           \/ load_page(t) \/ slowPath(t) \/ slowPath_lock(t) \/ reclaim(t) \/ open_index(t)
           \/ swap(t) \/ retire(t)
    PROVE  Shape'
<1>1. CASE load_page(t) \/ slowPath(t) \/ slowPath_lock(t)
  BY Zenon, <1>1, QueryShape DEF Shape, FilterStep, load_page, slowPath, slowPath_lock, publishState, Locked, Idle, QueryFields
<1>2. CASE open_index(t)
  <2>1. CASE file.st = "ok" /\ FreeSlots # {}
    <3>1. PICK m \in Pool : /\ pool' = [pool EXCEPT ![m] = [@ EXCEPT !.st = "live", !.gen = file.gen]]
                            /\ q' = [q EXCEPT ![t] = [@ EXCEPT !.at = "swap", !.cand = m]]
                            /\ f' = f /\ kill' = kill
      BY Zenon, <1>2, <2>1 DEF open_index, FreeSlots
    <3> QED
      BY <3>1, Zenon DEF Shape
  <2>2. CASE ~(file.st = "ok" /\ FreeSlots # {})
    BY Zenon, <1>2, <2>2, QueryShape DEF Shape, open_index, publishState, noteFault, Unlocked, open_failed
  <2> QED
    BY <2>1, <2>2, Zenon
<1>3. CASE reclaim(t)
  BY <1>3, QueryShape, Zenon DEF Shape, reclaim, Free, BlockFields
<1>4. CASE swap(t)
  BY <1>4, QueryShape, Zenon DEF Shape, FilterStep, swap
<1>5. CASE retire(t)
  BY <1>5, QueryShape, Zenon DEF Shape, retire, publishState, Unlocked, mapped
<1> QED
  BY <1>1, <1>2, <1>3, <1>4, <1>5, Zenon

\* A reader that acquires, confirms, judges and logs keeps the fields.
LEMMA ReadShape ==
    ASSUME Shape, NEW t \in Threads,
           \/ load_cand(t) \/ acquire(t) \/ confirm(t) \/ judge(t) \/ log(t) \/ logged(t)
    PROVE  Shape'
  BY Zenon, QueryShape DEF Shape, FilterStep, PoolStep, load_cand, acquire, confirm, judge, log, logged, Return, Holding, Released, Idle, QueryFields

Others(t) == \A u \in Threads \ {t} : q'[u] = q[u]

\* Where a query is after a step, and that the others stay where they are.
LEMMA QueryMoves ==
    ASSUME Shape, NEW t \in Threads, NEW at
    PROVE  /\ Goto(t, at) => /\ q'[t].at = at /\ q'[t].cand = q[t].cand /\ q'[t].area = q[t].area
                             /\ Others(t)
           /\ Enter(t, at) => /\ q'[t].at = at /\ q'[t].area = 0
                              /\ Others(t)
  BY Zenon DEF Shape, QueryFields, Goto, Enter, Idle, Others

\* The steps that put something else in the record.
ToSlow(t) == q' = [q EXCEPT ![t] = [Idle EXCEPT !.at = "slow", !.want = page.want, !.epoch = page.epoch]]
ToSwap(t, m) == q' = [q EXCEPT ![t] = [@ EXCEPT !.at = "swap", !.cand = m]]
ToAcquire(t) == q' = [q EXCEPT ![t] = [Idle EXCEPT !.at = "acquire", !.cand = f.cur, !.tries = q[t].tries]]
Retry(t) == q' = [q EXCEPT ![t] = [Idle EXCEPT !.at = "cand", !.tries = q[t].tries + 1]]
ToFind(t) == q' = [q EXCEPT ![t] = [@ EXCEPT !.at = "find", !.area = prop.area]]
ToStore(t) == q' = [q EXCEPT ![t] = [@ EXCEPT !.at = "store", !.on = prop.on]]
ToRetire(t) == q' = [q EXCEPT ![t] = [@ EXCEPT !.at = "retire", !.old = f.cur]]
ToReport(t) == q' = [q EXCEPT ![t] = [@ EXCEPT !.at = "report", !.on = kill.killed]]

\* What each of these updates leaves in the thread's record.
LEMMA QueryPuts ==
    ASSUME Shape, NEW t \in Threads
    PROVE  /\ ToSlow(t) => q'[t].at = "slow" /\ q'[t].area = 0 /\ Others(t)
           /\ \A m : ToSwap(t, m) => q'[t].at = "swap" /\ q'[t].cand = m /\ q'[t].area = q[t].area /\ Others(t)
           /\ ToAcquire(t) => q'[t].at = "acquire" /\ q'[t].cand = f.cur /\ q'[t].area = 0 /\ Others(t)
           /\ ToFind(t) => q'[t].at = "find" /\ q'[t].area = prop.area /\ Others(t)
           /\ ToStore(t) => q'[t].at = "store" /\ q'[t].on = prop.on /\ q'[t].area = q[t].area /\ Others(t)
           /\ ToRetire(t) => q'[t].at = "retire" /\ q'[t].area = q[t].area /\ Others(t)
           /\ Retry(t) => q'[t].at = "cand" /\ q'[t].area = 0 /\ Others(t)
           /\ ToReport(t) => q'[t].at = "report" /\ q'[t].area = q[t].area /\ Others(t)
<1>1. ASSUME NEW r, q' = [q EXCEPT ![t] = r]
      PROVE  q'[t] = r /\ Others(t)
  BY <1>1, Zenon DEF Shape, Others
<1>2. ToSlow(t) => q'[t].at = "slow" /\ q'[t].area = 0 /\ Others(t)
  <2> DEFINE r == [Idle EXCEPT !.at = "slow", !.want = page.want, !.epoch = page.epoch]
  <2>1. r.at = "slow" /\ r.area = 0
    BY Zenon DEF Idle
  <2> QED
    BY <1>1, <2>1, Zenon DEF ToSlow
<1>4. ToAcquire(t) => q'[t].at = "acquire" /\ q'[t].cand = f.cur /\ q'[t].area = 0 /\ Others(t)
  <2> DEFINE r == [Idle EXCEPT !.at = "acquire", !.cand = f.cur, !.tries = q[t].tries]
  <2>1. r.at = "acquire" /\ r.cand = f.cur /\ r.area = 0
    BY Zenon DEF Idle
  <2> QED
    BY <1>1, <2>1, Zenon DEF ToAcquire
<1>6. Retry(t) => q'[t].at = "cand" /\ q'[t].area = 0 /\ Others(t)
  <2> DEFINE r == [Idle EXCEPT !.at = "cand", !.tries = q[t].tries + 1]
  <2>1. r.at = "cand" /\ r.area = 0
    BY Zenon DEF Idle
  <2> QED
    BY <1>1, <2>1, Zenon DEF Retry
<1>5. ToFind(t) => q'[t].at = "find" /\ q'[t].area = prop.area /\ Others(t)
  <2> DEFINE r == [q[t] EXCEPT !.at = "find", !.area = prop.area]
  <2>1. r.at = "find" /\ r.area = prop.area
    BY Zenon DEF Shape, QueryFields
  <2> QED
    BY <1>1, <2>1, Zenon DEF ToFind
<1>7. ToStore(t) => q'[t].at = "store" /\ q'[t].on = prop.on /\ q'[t].area = q[t].area /\ Others(t)
  <2> DEFINE r == [q[t] EXCEPT !.at = "store", !.on = prop.on]
  <2>1. r.at = "store" /\ r.on = prop.on /\ r.area = q[t].area
    BY Zenon DEF Shape, QueryFields
  <2> QED
    BY <1>1, <2>1, Zenon DEF ToStore
<1>8. ToRetire(t) => q'[t].at = "retire" /\ q'[t].area = q[t].area /\ Others(t)
  <2> DEFINE r == [q[t] EXCEPT !.at = "retire", !.old = f.cur]
  <2>1. r.at = "retire" /\ r.area = q[t].area
    BY Zenon DEF Shape, QueryFields
  <2> QED
    BY <1>1, <2>1, Zenon DEF ToRetire
<1>3. ASSUME NEW m, ToSwap(t, m)
      PROVE  q'[t].at = "swap" /\ q'[t].cand = m /\ q'[t].area = q[t].area /\ Others(t)
  <2> DEFINE r == [q[t] EXCEPT !.at = "swap", !.cand = m]
  <2>1. r.at = "swap" /\ r.cand = m /\ r.area = q[t].area
    BY Zenon DEF Shape, QueryFields
  <2> QED
    BY <1>1, <1>3, <2>1, Zenon DEF ToSwap
<1>9. ToReport(t) => q'[t].at = "report" /\ q'[t].area = q[t].area /\ Others(t)
  <2> DEFINE r == [q[t] EXCEPT !.at = "report", !.on = kill.killed]
  <2>1. r.at = "report" /\ r.area = q[t].area
    BY Zenon DEF Shape, QueryFields
  <2> QED
    BY <1>1, <2>1, Zenon DEF ToReport
<1> QED
  BY <1>2, <1>3, <1>4, <1>5, <1>6, <1>7, <1>8, <1>9, Zenon

USE DEF Others

----------------------------------------------------------------------------

\* What the caches of nr_refresh_kill() say of the property, by the place of the one
\* thread that refreshes them.
KillBase ==
    /\ prop.area \in Nat /\ prop.serial \in Nat /\ prop.there \in BOOLEAN /\ prop.on \in BOOLEAN
    /\ kill.area \in Int /\ kill.serial \in Int /\ kill.found \in BOOLEAN /\ kill.killed \in BOOLEAN
    /\ \A t \in Threads : q[t].area \in Int /\ (q[t].at = "store" => q[t].on \in BOOLEAN)
    /\ prop.on => prop.there
    /\ kill.area <= prop.area
    /\ \A t \in Threads : q[t].area <= prop.area
    /\ kill.found => prop.there /\ kill.serial <= prop.serial

\* While one thread at a time refreshes them.
KillNow ==
    /\ \A t, u \in Threads : q[t].at \in InRefresh /\ q[u].at \in InRefresh => t = u
    /\ \A t \in Threads :
         /\ q[t].at = "absent" => ~kill.found /\ (kill.area = prop.area => ~prop.there)
         /\ q[t].at \in {"serial", "read", "store"} => kill.found
         /\ q[t].at \in {"read", "store"} /\ kill.area = prop.area => kill.serial = prop.serial
         /\ q[t].at = "store" /\ kill.serial = prop.serial => q[t].on = prop.on
    /\ (\A t \in Threads : q[t].at \notin {"read", "store"}) =>
         (kill.found /\ kill.serial = prop.serial => kill.killed = prop.on)
    /\ (\A t \in Threads : q[t].at \notin InRefresh) /\ kill.area = prop.area =>
         IF kill.found THEN kill.serial = prop.serial ELSE ~prop.there /\ ~kill.killed

KillInv == KillBase /\ (~raced => KillNow)

\* A step of thread t outside nr_refresh_kill().
KillFrame(t) ==
    /\ Others(t) /\ prop' = prop /\ raced' = raced
    /\ kill'.area = kill.area /\ kill'.serial = kill.serial /\ kill'.found = kill.found
    /\ kill'.killed = kill.killed
    /\ q[t].at \notin InRefresh /\ q'[t].at \notin InRefresh
    /\ q'[t].area = 0 \/ q'[t].area = q[t].area

\* Such a step keeps what is known of the caches.
LEMMA KillFrameKeeps ==
    ASSUME KillInv, NEW t \in Threads, KillFrame(t)
    PROVE  KillInv'
  BY DEF KillInv, KillBase, KillNow, KillFrame, InRefresh

\* evaluate() outside nr_refresh_kill() is such a step.
LEMMA FilterKill ==
    ASSUME Shape, KillInv, NEW t \in Threads,
           \/ evaluate(t) \/ check_kill(t) \/ onKillChanged(t) \/ onKillChanged_store(t)
           \/ controlPage(t) \/ controlPage_lock(t) \/ controlPage_map(t)
           \/ load_page(t) \/ slowPath(t) \/ slowPath_lock(t) \/ reclaim(t) \/ open_index(t)
           \/ swap(t) \/ retire(t) \/ load_cand(t) \/ acquire(t) \/ confirm(t) \/ judge(t)
           \/ log(t) \/ logged(t)
    PROVE  KillInv'
<1>1. /\ prop' = prop /\ raced' = raced
      /\ kill' = kill \/ kill' = [kill EXCEPT !.published = kill.killed]
      /\ q[t].at \notin InRefresh
  BY Zenon DEF evaluate, check_kill, onKillChanged, onKillChanged_store, controlPage, controlPage_lock, controlPage_map,
     load_page, slowPath, slowPath_lock, reclaim, open_index, swap, retire, load_cand, acquire, confirm, judge,
     log, logged, KillStep, FilterStep, PoolStep, InRefresh
<1>2. \/ \E at \in {"area", "reported", "cp_lock", "cp_map", "sp_lock", "reclaim", "open", "confirm", "judge", "log", "logged"} :
           Goto(t, at)
      \/ \E at \in {"idle", "ctl", "load", "cand"} : Enter(t, at)
      \/ ToReport(t) \/ ToSlow(t) \/ (\E m \in Pool : ToSwap(t, m)) \/ ToRetire(t) \/ ToAcquire(t) \/ Retry(t)
  BY Zenon DEF evaluate, check_kill, onKillChanged, onKillChanged_store, controlPage, controlPage_lock, controlPage_map,
     load_page, slowPath, slowPath_lock, reclaim, open_index, swap, retire, load_cand, acquire, confirm, judge,
     log, logged, Return, ToReport, ToSlow, ToSwap, ToRetire, ToAcquire, Retry, FreeSlots
<1>3. Others(t) /\ q'[t].at \notin InRefresh /\ (q'[t].area = 0 \/ q'[t].area = q[t].area)
  BY <1>2, QueryMoves, QueryPuts DEF InRefresh
<1>4. /\ kill'.area = kill.area /\ kill'.serial = kill.serial /\ kill'.found = kill.found
      /\ kill'.killed = kill.killed
  BY <1>1, Zenon DEF Shape, KillFields
<1> QED
  BY <1>1, <1>3, <1>4, KillFrameKeeps, Zenon DEF KillFrame

\* A set property has a new area serial, so the caches are no longer claimed exact.
LEMMA WorldKill ==
    ASSUME KillInv, NEW on \in BOOLEAN, SetKill(on)
    PROVE  KillInv'
<1>1. /\ prop'.area = prop.area + 1 /\ prop'.there = TRUE /\ prop'.on = on
      /\ prop'.serial = IF prop.there THEN prop.serial + 1 ELSE 0
      /\ kill' = kill /\ q' = q /\ raced' = raced
  BY Zenon DEF SetKill
<1>2. /\ prop'.serial \in Nat /\ prop'.area \in Nat
      /\ kill.area <= prop'.area /\ kill.area # prop'.area
      /\ kill.found => kill.serial <= prop'.serial /\ kill.serial # prop'.serial
      /\ \A t \in Threads : q[t].area <= prop'.area
  BY <1>1 DEF KillInv, KillBase
<1>3. KillBase'
  BY <1>1, <1>2, Zenon DEF KillInv, KillBase
<1>5. KillNow => KillNow'
  BY <1>1, <1>2, Zenon DEF KillNow
<1> QED
  BY <1>1, <1>3, <1>5, Zenon DEF KillInv

\* The steps of nr_refresh_kill(), whose order makes the cached value the one read under
\* the serial stored.
LEMMA RefreshKill ==
    ASSUME Shape, KillInv, NEW t \in Threads,
           kill_area(t) \/ kill_find(t) \/ kill_absent(t) \/ kill_serial(t) \/ kill_read(t) \/ kill_store(t)
    PROVE  KillInv'
<1>1. CASE kill_area(t) /\ prop.area = kill.area
  BY <1>1, QueryMoves, KillFrameKeeps DEF kill_area, KillStep, KillFrame, InRefresh
<1>2. CASE kill_area(t) /\ prop.area # kill.area
  <2>1. ToFind(t) /\ q[t].at = "area" /\ kill' = kill /\ prop' = prop
    BY <1>2, Zenon DEF kill_area, KillStep, ToFind
  <2>2. ~raced' => ~raced /\ \A u \in Threads \ {t} : q[u].at \notin InRefresh
    BY Zenon, <1>2 DEF kill_area
  <2>3. q'[t].at = "find" /\ q'[t].area = prop.area /\ Others(t)
    BY <2>1, QueryPuts, Zenon
  <2>4. KillBase'
    BY <2>1, <2>3 DEF KillInv, KillBase
  <2>5. ~raced' => KillNow'
    BY <2>1, <2>2, <2>3 DEF KillInv, KillNow, InRefresh
  <2> QED
    BY <2>4, <2>5, Zenon DEF KillInv
<1>3. CASE kill_find(t)
  <2>1. q[t].at = "find" /\ prop' = prop /\ raced' = raced
    BY <1>3, Zenon DEF kill_find, KillStep
  <2> DEFINE k == [kill EXCEPT !.area = q[t].area]
  <2>2. /\ k.area = q[t].area /\ k.killed = kill.killed /\ k.found = kill.found /\ k.serial = kill.serial
        /\ found(k).area = q[t].area /\ found(k).killed = kill.killed
        /\ found(k).found = TRUE /\ found(k).serial = NoSerial
    BY Zenon DEF Shape, KillFields, found
  <2>3. NoSerial \in Int /\ \A n \in Nat : NoSerial <= n /\ NoSerial # n
    BY DEF NoSerial
  <2>4. \/ kill.found /\ kill' = k /\ Goto(t, "serial")
        \/ ~kill.found /\ prop.there /\ kill' = found(k) /\ Goto(t, "serial")
        \/ ~kill.found /\ ~prop.there /\ kill' = k /\ Goto(t, "absent")
    BY <1>3, <2>2, Zenon DEF kill_find
  <2> HIDE DEF k
  <2>5. CASE kill.found /\ kill' = k /\ Goto(t, "serial")
    <3>1. q'[t].at = "serial" /\ q'[t].area = q[t].area /\ Others(t)
      BY <2>5, QueryMoves, Zenon
    <3>2. KillBase'
      BY Zenon, <2>1, <2>2, <2>5, <3>1 DEF KillInv, KillBase
    <3>3. /\ kill'.killed = kill.killed /\ kill'.serial = kill.serial /\ kill'.found
          /\ q[t].at = "find" /\ prop' = prop
      BY Zenon, <2>1, <2>2, <2>5
    <3>5. KillNow => \A u \in Threads \ {t} : q'[u].at \notin InRefresh /\ q[u].at \notin InRefresh
      BY <3>1, <3>3, Zenon DEF KillNow, InRefresh
    <3>4. KillNow => KillNow'
      BY <2>5, <3>1, <3>3, <3>5 DEF KillNow, InRefresh
    <3> QED
      BY <2>1, <3>2, <3>4, Zenon DEF KillInv
  <2>6. CASE ~kill.found /\ prop.there /\ kill' = found(k) /\ Goto(t, "serial")
    <3>1. q'[t].at = "serial" /\ q'[t].area = q[t].area /\ Others(t)
      BY <2>6, QueryMoves, Zenon
    <3>2. KillBase'
      BY <2>1, <2>2, <2>3, <2>6, <3>1, Zenon DEF KillInv, KillBase
    <3>3. kill'.serial # prop'.serial /\ kill'.found
      BY <2>1, <2>2, <2>3, <2>6, Zenon DEF KillInv, KillBase
    <3>4. KillNow => KillNow'
      BY <2>1, <3>1, <3>3 DEF KillNow, InRefresh
    <3> QED
      BY <2>1, <3>2, <3>4, Zenon DEF KillInv
  <2>7. CASE ~kill.found /\ ~prop.there /\ kill' = k /\ Goto(t, "absent")
    <3>1. q'[t].at = "absent" /\ q'[t].area = q[t].area /\ Others(t)
      BY <2>7, QueryMoves, Zenon
    <3>2. KillBase'
      BY <2>1, <2>2, <2>7, <3>1, Zenon DEF KillInv, KillBase
    <3>4. KillNow => KillNow'
      BY <2>1, <2>2, <2>7, <3>1 DEF KillNow, InRefresh
    <3> QED
      BY <2>1, <3>2, <3>4, Zenon DEF KillInv
  <2> QED
    BY <2>4, <2>5, <2>6, <2>7, Zenon
<1>4. CASE kill_absent(t)
  <2>1. /\ q[t].at = "absent" /\ prop' = prop /\ raced' = raced /\ kill' = [kill EXCEPT !.killed = FALSE]
        /\ q'[t].at = "check" /\ q'[t].area = 0 /\ Others(t)
    BY <1>4, QueryMoves, Zenon DEF kill_absent, KillStep
  <2>2. kill'.area = kill.area /\ kill'.serial = kill.serial /\ kill'.found = kill.found /\ kill'.killed = FALSE
    BY <2>1, Zenon DEF Shape, KillFields
  <2>3. KillBase'
    BY <2>1, <2>2 DEF KillInv, KillBase
  <2>4. KillNow => KillNow'
    BY Zenon, <2>1, <2>2 DEF KillNow, InRefresh
  <2> QED
    BY <2>1, <2>3, <2>4, Zenon DEF KillInv
<1>5. CASE kill_serial(t)
  <2>1. q[t].at = "serial" /\ prop' = prop /\ raced' = raced
    BY <1>5, Zenon DEF kill_serial, KillStep
  <2>2. CASE prop.serial = kill.serial
    BY <1>5, <2>1, <2>2, QueryMoves DEF kill_serial, KillInv, KillBase, KillNow, InRefresh
  <2>3. CASE prop.serial # kill.serial
    <3>1. /\ q'[t].at = "read" /\ q'[t].area = q[t].area /\ Others(t)
          /\ kill'.area = kill.area /\ kill'.serial = prop.serial /\ kill'.found = kill.found
          /\ kill'.killed = kill.killed
      BY <1>5, <2>3, QueryMoves DEF kill_serial, Shape, KillFields
    <3> QED
      BY <2>1, <3>1 DEF KillInv, KillBase, KillNow, InRefresh
  <2> QED
    BY <2>2, <2>3, Zenon
<1>6. CASE kill_read(t)
  <2>1. ToStore(t) /\ q[t].at = "read" /\ prop' = prop /\ raced' = raced /\ kill' = kill
    BY <1>6, Zenon DEF kill_read, KillStep, ToStore
  <2>2. q'[t].at = "store" /\ q'[t].on = prop.on /\ q'[t].area = q[t].area /\ Others(t)
    BY <2>1, QueryPuts, Zenon
  <2> QED
    BY <2>1, <2>2 DEF KillInv, KillBase, KillNow, InRefresh
<1>7. CASE kill_store(t)
  <2>1. /\ q[t].at = "store" /\ prop' = prop /\ raced' = raced /\ kill' = [kill EXCEPT !.killed = q[t].on]
        /\ q'[t].at = "check" /\ q'[t].area = 0 /\ Others(t)
    BY <1>7, QueryMoves, Zenon DEF kill_store, KillStep
  <2>2. kill'.area = kill.area /\ kill'.serial = kill.serial /\ kill'.found = kill.found /\ kill'.killed = q[t].on
    BY <2>1, Zenon DEF Shape, KillFields
  <2> QED
    BY <2>1, <2>2 DEF KillInv, KillBase, KillNow, InRefresh
<1> QED
  BY <1>1, <1>2, <1>3, <1>4, <1>5, <1>6, <1>7, Zenon

\* The caches are empty, or the area serial is the one seen last.
LEMMA InitKill == Init => Shape /\ KillInv
<1> SUFFICES ASSUME Init PROVE KillInv
  BY InitShape, Zenon
<1>1. \A t \in Threads : q[t] = Idle /\ Idle.at = "idle" /\ Idle.area = 0
  BY Zenon DEF Init, Idle
<1>2. /\ prop.area = 0 /\ prop.serial = 0 /\ prop.there = FALSE /\ prop.on = FALSE
  BY Zenon DEF Init
<1>6. kill = ColdKill \/ kill = [ColdKill EXCEPT !.area = 0]
  BY Zenon DEF Init
<1>7. /\ kill.found = FALSE /\ kill.killed = FALSE /\ kill.serial = 0
      /\ kill.area = NoSerial \/ kill.area = 0
  <2>1. CASE kill = ColdKill
    BY <2>1, Zenon DEF ColdKill
  <2>2. CASE kill = [ColdKill EXCEPT !.area = 0]
    BY <2>2, Zenon DEF ColdKill
  <2> QED
    BY Zenon, <1>6, <2>1, <2>2
<1>8. NoSerial \in Int /\ NoSerial <= 0
  BY DEF NoSerial
<1>9. /\ \A t \in Threads : q[t].at = "idle" /\ q[t].area = 0
      /\ 0 \in Nat /\ 0 \in Int /\ 0 <= 0
  BY <1>1
<1>3. KillBase
  BY <1>2, <1>7, <1>8, <1>9, Zenon DEF KillBase
<1>4. KillNow
  BY <1>2, <1>7, <1>9, Zenon DEF KillNow, InRefresh
<1> QED
  BY <1>3, <1>4, Zenon DEF KillInv

\* Every step keeps the fields and what is known of the caches.
LEMMA NextKill == Shape /\ KillInv /\ [Next]_vars => Shape' /\ KillInv'
<1> SUFFICES ASSUME Shape, KillInv, [Next]_vars PROVE Shape' /\ KillInv'
  BY Zenon
<1>1. CASE \/ \E on \in BOOLEAN : SetKill(on)
           \/ \E how \in {"ok", "denied"} : Seed(how)
           \/ \E bad \in BOOLEAN : PutIndex(bad)
           \/ Promote
           \/ \E mode \in {"ENFORCE", "OFF"} : SetMode(mode)
           \/ Tick
           \/ UNCHANGED filterVars
  <2>1. KillInv' \/ UNCHANGED <<q, prop, kill, raced>>
    BY <1>1, WorldKill, Zenon DEF Seed, PutIndex, Promote, SetMode, Tick, filterVars
  <2>2. KillInv'
    BY <2>1 DEF KillInv, KillBase, KillNow
  <2> QED
    BY <1>1, <2>2, WorldShape, Zenon
<1>2. ASSUME NEW t \in Threads, evaluate(t) \/ Step(t), ~UNCHANGED filterVars
      PROVE  Shape' /\ KillInv'
  <2>1. Shape'
    BY <1>2, KillShape, ControlShape, IndexShape, ReadShape, Zenon DEF Step
  <2>2. KillInv'
    BY <1>2, FilterKill, RefreshKill, Zenon DEF Step
  <2> QED
    BY <2>1, <2>2, Zenon
<1> QED
  BY <1>1, <1>2, Zenon DEF Next, vars, filterVars

\* The cached kill switch is the property's value whenever its area serial is current and
\* no refresh is under way, unless two refreshes have overlapped (nr_refresh_kill()).
THEOREM KillSwitchExact == Spec => []KillExact
<1>1. KillInv => KillExact
  BY Zenon DEF KillInv, KillBase, KillNow, KillExact, InRefresh
<1> QED
  BY <1>1, InitKill, NextKill, PTL DEF Spec

----------------------------------------------------------------------------

Mapping == Pool \cup {NoMapping}

\* The places of a thread that holds slow_busy_.
SlowPlaces == {"report", "reported", "cp_map", "reclaim", "open", "swap", "retire"}

\* One thread at a time holds it.
OneSlow ==
    /\ \A t \in Threads : q[t].at \in SlowPlaces => f.busy
    /\ \A t, u \in Threads : q[t].at \in SlowPlaces /\ q[u].at \in SlowPlaces => t = u

\* The mapping that is served is live; a new one is live before it is served, and an old
\* one is not retired while it is.
CurLive ==
    /\ f.cur \in Mapping
    /\ f.cur # NoMapping => pool[f.cur].st = "live"
    /\ \A t \in Threads :
         /\ q[t].at = "swap" => q[t].cand \in Pool /\ pool[q[t].cand].st = "live" /\ q[t].cand # f.cur
         /\ q[t].at = "retire" => q[t].cand = f.cur /\ q[t].cand \in Pool /\ q[t].old # f.cur

\* A thread that has taken a reference holds it.
Held ==
    \A t \in Threads :
        /\ q[t].at \in {"acquire", "confirm", "judge"} => q[t].cand \in Pool
        /\ q[t].at \in {"confirm", "judge"} => t \in pool[q[t].cand].holders

\* The served generation is mapped_gen_ and what was published of it, but for the moment
\* between the exchange of cur_ and its publication.
ServedGen ==
    /\ f.health.st = "ok" => f.cur # NoMapping
    /\ (\A t \in Threads : q[t].at # "retire") =>
         /\ f.cur # NoMapping => f.mapped_gen = pool[f.cur].gen
         /\ f.health.st = "ok" => f.health.gen = f.mapped_gen
    /\ f.health.st = "disabled" <=> f.state = "DISABLED"

MapInv == OneSlow /\ CurLive /\ Held /\ MappedWhileRead /\ ServedGen

----------------------------------------------------------------------------

SameServed(g, h) == g.cur = h.cur /\ g.mapped_gen = h.mapped_gen

\* What publishState() says is true of the state it is given.
True(g) ==
    /\ g.health.st = "ok" => g.cur # NoMapping /\ g.health.gen = g.mapped_gen
    /\ g.health.st = "disabled" <=> g.state = "DISABLED"

\* publishState() changes nothing that is served, and what it publishes is true.
LEMMA PublishFacts ==
    ASSUME NEW g, NEW c, DOMAIN g = FilterFields
    PROVE  /\ SameServed(publishState(g, c), g) /\ True(publishState(g, c))
           /\ publishState(g, c).busy = g.busy
           /\ SameServed(Unlocked(publishState(g, c)), g) /\ True(Unlocked(publishState(g, c)))
<1>1. \A h : LET p == [g EXCEPT !.health = h] IN
         SameServed(p, g) /\ p.busy = g.busy /\ p.state = g.state /\ p.health = h /\ DOMAIN p = FilterFields
  BY Zenon DEF FilterFields, SameServed
<1>2. \A p : DOMAIN p = FilterFields =>
         SameServed(Unlocked(p), p) /\ Unlocked(p).state = p.state /\ Unlocked(p).health = p.health
  BY Zenon DEF FilterFields, SameServed, Unlocked
<1>3. SameServed(publishState(g, c), g) /\ True(publishState(g, c)) /\ publishState(g, c).busy = g.busy
  BY <1>1 DEF publishState, SameServed, True, Health, Ok
<1>4. DOMAIN publishState(g, c) = FilterFields
  BY Zenon DEF publishState
<1> QED
  BY <1>2, <1>3, <1>4, Zenon DEF SameServed, True

\* A step of thread t that changes neither the mappings nor which one is served.
MapFrame(t) ==
    /\ Others(t)
    /\ pool' = pool /\ SameServed(f', f)
    /\ q[t].at # "retire" /\ q'[t].at \notin {"swap", "retire", "confirm", "judge"}
    /\ q'[t].at = "acquire" => q'[t].cand \in Pool
    /\ IF q'[t].at \in SlowPlaces THEN f'.busy /\ (q[t].at \in SlowPlaces \/ ~f.busy)
       ELSE q[t].at \in SlowPlaces \/ f'.busy = f.busy
    /\ (f'.health = f.health /\ f'.state = f.state) \/ True(f')

\* Such a step keeps MapInv.
LEMMA MapFrameKeeps ==
    ASSUME MapInv, NEW t \in Threads, MapFrame(t)
    PROVE  MapInv'
<1> USE DEF MapFrame, SameServed
<1>1. OneSlow'
  BY Zenon DEF MapInv, OneSlow
<1>2. CurLive'
  BY DEF MapInv, CurLive
<1>3. Held' /\ MappedWhileRead'
  BY Zenon DEF MapInv, Held, MappedWhileRead
<1>4. ServedGen'
  BY Zenon DEF MapInv, ServedGen, True
<1> QED
  BY <1>1, <1>2, <1>3, <1>4, Zenon DEF MapInv

\* The kill switch is refreshed without the slow lock and touches no mapping.
LEMMA KillMap ==
    ASSUME Shape, MapInv, NEW t \in Threads,
           \/ evaluate(t) \/ kill_area(t) \/ kill_find(t) \/ kill_absent(t) \/ kill_serial(t)
           \/ kill_read(t) \/ kill_store(t)
    PROVE  MapInv'
<1>1. pool' = pool /\ f' = f /\ q[t].at \in {"idle", "area"} \cup InRefresh
  BY Zenon DEF evaluate, kill_area, kill_find, kill_absent, kill_serial, kill_read, kill_store, KillStep, InRefresh
<1>2. /\ q'[t].at \in {"area", "check", "idle"} \cup InRefresh
      /\ Others(t)
  <2>1. CASE kill_area(t)
    <3>1. CASE prop.area = kill.area
      BY <2>1, <3>1, QueryMoves, Zenon DEF kill_area
    <3>2. CASE prop.area # kill.area
      BY Zenon, <2>1, <3>2, QueryPuts DEF kill_area, ToFind, InRefresh
    <3> QED
      BY <3>1, <3>2, Zenon
  <2>2. CASE kill_read(t)
    BY <2>2, Zenon DEF kill_read, Shape, QueryFields, InRefresh
  <2> QED
    BY <2>1, <2>2, QueryMoves, Zenon DEF evaluate, kill_find, kill_absent, kill_serial, kill_store, Return, InRefresh
<1>3. MapFrame(t)
  BY <1>1, <1>2, Zenon DEF MapFrame, SameServed, SlowPlaces, InRefresh
<1> QED
  BY <1>3, MapFrameKeeps, Zenon

\* Mapping the control page, and disabling the filter, serve what was served.
LEMMA ControlMap ==
    ASSUME Shape, MapInv, NEW t \in Threads,
           \/ check_kill(t) \/ onKillChanged(t) \/ onKillChanged_store(t)
           \/ controlPage(t) \/ controlPage_lock(t) \/ controlPage_map(t)
    PROVE  MapInv'
<1> USE DEF FilterStep, SlowPlaces, MapFrame
<1> SUFFICES MapFrame(t)
  BY MapFrameKeeps, Zenon
<1>1. SameServed(Locked(f), f) /\ Locked(f).busy /\ Locked(f).health = f.health /\ Locked(f).state = f.state
  BY Zenon DEF Shape, FilterFields, Locked, SameServed
<1>5. CASE check_kill(t)
  <2>1. CASE kill.killed # kill.published /\ ~f.busy
    <3>1. q'[t].at = "report" /\ q[t].at = "check" /\ Others(t)
      <4>1. ToReport(t) /\ q[t].at = "check"
        BY <1>5, <2>1, Zenon DEF check_kill, ToReport
      <4> QED
        BY <4>1, QueryPuts, Zenon
    <3> QED
      BY <1>1, <1>5, <2>1, <3>1, Zenon DEF check_kill
  <2>2. CASE ~(kill.killed # kill.published /\ ~f.busy)
    <3>1. Enter(t, "idle") \/ Enter(t, "ctl")
      BY <1>5, <2>2, Zenon DEF check_kill
    <3> QED
      BY <1>5, <2>2, <3>1, QueryMoves DEF check_kill, SameServed
  <2> QED
    BY <2>1, <2>2, Zenon
<1>6. CASE controlPage(t) \/ controlPage_lock(t)
  BY <1>1, <1>6, QueryMoves DEF controlPage, controlPage_lock, Return, SameServed
<1>2. CASE onKillChanged(t)
  BY <1>2, QueryMoves, PublishFacts DEF onKillChanged, Shape, MapInv, OneSlow
<1>3. CASE onKillChanged_store(t)
  BY <1>3, QueryMoves DEF onKillChanged_store, Unlocked, Shape, FilterFields, SameServed
<1>4. CASE controlPage_map(t)
  <2>1. SameServed(f', f) /\ ((f'.health = f.health /\ f'.state = f.state) \/ True(f'))
    <3> DEFINE g == [f EXCEPT !.ctl = TRUE, !.state = "READY", !.faults = 0, !.waiting = FALSE]
               h == noteFault(f, page.file = "absent", FALSE)
    <3>1. DOMAIN g = FilterFields /\ SameServed(g, f) /\ DOMAIN h = FilterFields /\ SameServed(h, f)
      BY Zenon DEF Shape, FilterFields, SameServed, noteFault
    <3>2. f' = Unlocked(f) \/ f' = Unlocked(publishState(g, TRUE)) \/ f' = Unlocked(publishState(h, FALSE))
      BY Zenon, <1>4 DEF controlPage_map
    <3>3. /\ SameServed(Unlocked(f), f)
          /\ Unlocked(f).health = f.health /\ Unlocked(f).state = f.state
      BY Zenon DEF Shape, FilterFields, SameServed, Unlocked
    <3> HIDE DEF g, h
    <3>4. /\ SameServed(Unlocked(publishState(g, TRUE)), g) /\ True(Unlocked(publishState(g, TRUE)))
          /\ SameServed(Unlocked(publishState(h, FALSE)), h) /\ True(Unlocked(publishState(h, FALSE)))
      BY Zenon, <3>1, PublishFacts
    <3> QED
      BY Zenon, <3>1, <3>2, <3>3, <3>4 DEF SameServed
  <2>2. (Enter(t, "load") \/ Enter(t, "idle")) /\ q[t].at = "cp_map" /\ pool' = pool
    BY Zenon, <1>4 DEF controlPage_map, Return
  <2> QED
    BY <2>1, <2>2, QueryMoves
<1> QED
  BY <1>2, <1>3, <1>4, <1>5, <1>6, Zenon

\* slowPath() up to a new mapping: reclaim() unmaps only retired blocks without holders,
\* and the new block was free.
LEMMA IndexMap ==
    ASSUME Shape, MapInv, NEW t \in Threads,
           load_page(t) \/ slowPath(t) \/ slowPath_lock(t) \/ reclaim(t) \/ open_index(t)
    PROVE  MapInv'
<1>1. CASE load_page(t) \/ slowPath(t)
  <2>1. /\ f' = f /\ pool' = pool /\ q[t].at \in {"load", "slow"}
        /\ q'[t].at \in {"slow", "cand", "sp_lock"} /\ Others(t)
    <3>1. CASE load_page(t)
      <4>1. ToSlow(t) \/ Enter(t, "cand")
        BY <3>1, Zenon DEF load_page, ToSlow
      <4> QED
        BY <3>1, <4>1, QueryMoves, QueryPuts, Zenon DEF load_page, FilterStep
    <3>2. CASE slowPath(t)
      BY <3>2, QueryMoves, Zenon DEF slowPath, FilterStep
    <3> QED
      BY <1>1, <3>1, <3>2, Zenon
  <2> QED
    BY <2>1, MapFrameKeeps, Zenon DEF MapFrame, SameServed, SlowPlaces
<1>2. CASE slowPath_lock(t)
  <2> DEFINE g == [f EXCEPT !.seen_epoch = q[t].epoch]
  <2>1. /\ DOMAIN g = FilterFields /\ SameServed(g, f) /\ g.busy = f.busy
        /\ g.health = f.health /\ g.state = f.state
        /\ SameServed(Locked(g), g) /\ Locked(g).busy
        /\ Locked(g).health = g.health /\ Locked(g).state = g.state
    BY Zenon DEF Shape, FilterFields, SameServed, Locked
  <2>2. pool' = pool /\ q[t].at = "sp_lock"
    BY <1>2, Zenon DEF slowPath_lock, FilterStep
  <2>3. \/ (f' = f \/ f' = g \/ f' = publishState(g, TRUE)) /\ Enter(t, "cand")
        \/ ~f.busy /\ f' = Locked(g) /\ Goto(t, "reclaim")
    BY Zenon, <1>2 DEF slowPath_lock
  <2> HIDE DEF g
  <2>4. \/ /\ q'[t].at = "cand" /\ f'.busy = f.busy /\ SameServed(f', f)
           /\ (f'.health = f.health /\ f'.state = f.state) \/ True(f')
        \/ /\ q'[t].at = "reclaim" /\ ~f.busy /\ f'.busy /\ SameServed(f', f)
           /\ f'.health = f.health /\ f'.state = f.state
    <3>1. /\ SameServed(publishState(g, TRUE), g) /\ True(publishState(g, TRUE))
          /\ publishState(g, TRUE).busy = g.busy
      BY Zenon, <2>1, PublishFacts
    <3> QED
      BY Zenon, <2>1, <2>3, <3>1, QueryMoves DEF SameServed
  <2>5. Others(t)
    BY Zenon, <2>3, QueryMoves
  <2> QED
    BY <2>2, <2>4, <2>5, MapFrameKeeps, Zenon DEF MapFrame, SlowPlaces
<1>3. CASE reclaim(t)
  <2>1. /\ q[t].at = "reclaim" /\ q'[t].at = "open" /\ f' = f
        /\ Others(t)
    BY <1>3, QueryMoves, Zenon DEF reclaim
  <2>2. \A m \in Pool : /\ pool'[m].holders = pool[m].holders
                        /\ pool[m].st = "live" \/ pool[m].holders # {} => pool'[m] = pool[m]
    BY <1>3, Zenon DEF reclaim, Drained, Free
  <2> QED
    BY <2>1, <2>2 DEF MapInv, OneSlow, CurLive, Held, MappedWhileRead, ServedGen, SlowPlaces, Mapping
<1>4. CASE open_index(t) /\ file.st = "ok" /\ FreeSlots # {}
  <2>1. PICK m \in FreeSlots :
            /\ pool' = [pool EXCEPT ![m] = [@ EXCEPT !.st = "live", !.gen = file.gen]]
            /\ ToSwap(t, m)
    BY Zenon, <1>4 DEF open_index, ToSwap
  <2>2. /\ m \in Pool /\ pool[m].st = "free" /\ pool'[m].st = "live" /\ pool'[m].holders = pool[m].holders
        /\ \A n \in Pool \ {m} : pool'[n] = pool[n]
    BY <2>1, Zenon DEF FreeSlots, Shape, BlockFields
  <2>3. /\ q[t].at = "open" /\ f' = f
        /\ q'[t].at = "swap" /\ q'[t].cand = m /\ Others(t)
    BY Zenon, <1>4, <2>1, QueryPuts DEF open_index
  <2>4. OneSlow' /\ \A u \in Threads \ {t} : q'[u].at \notin SlowPlaces
    BY <2>3 DEF MapInv, OneSlow, SlowPlaces
  <2>5. CurLive'
    BY <2>2, <2>3, <2>4, FilterAssumption DEF MapInv, CurLive, SlowPlaces, Mapping
  <2> QED
    BY <2>2, <2>3, <2>4, <2>5 DEF MapInv, CurLive, Held, MappedWhileRead, ServedGen, Mapping
<1>5. CASE open_index(t) /\ ~(file.st = "ok" /\ FreeSlots # {})
  <2> DEFINE g == noteFault(open_failed(f, q[t].want), file.st # "bad" \/ FreeSlots = {}, file.st # "absent")
  <2>1. DOMAIN g = FilterFields /\ SameServed(g, f)
    BY Zenon DEF Shape, FilterFields, SameServed, noteFault, open_failed
  <2>2. f' = Unlocked(publishState(g, TRUE)) /\ Enter(t, "cand") /\ q[t].at = "open" /\ pool' = pool
    BY Zenon, <1>5 DEF open_index
  <2> HIDE DEF g
  <2>3. SameServed(f', f) /\ True(f')
    BY Zenon, <2>1, <2>2, PublishFacts DEF SameServed
  <2>4. q'[t].at = "cand" /\ Others(t)
    BY <2>2, QueryMoves, Zenon
  <2> QED
    BY Zenon, <2>2, <2>3, <2>4, MapFrameKeeps DEF MapFrame, SlowPlaces
<1> QED
  BY <1>1, <1>2, <1>3, <1>4, <1>5, Zenon

\* The exchange of cur_ and the retirement of the old mapping, which readers may hold.
LEMMA SwapMap ==
    ASSUME Shape, MapInv, NEW t \in Threads, swap(t) \/ retire(t)
    PROVE  MapInv'
<1> USE DEF MapInv, OneSlow, CurLive, SlowPlaces, Mapping
<1>1. CASE swap(t)
  <2>1. /\ q[t].at = "swap" /\ pool' = pool
        /\ q'[t].at = "retire" /\ q'[t].cand = q[t].cand /\ q'[t].old = f.cur
        /\ Others(t)
    BY <1>1, Zenon DEF swap, FilterStep, Shape, QueryFields
  <2>2. f'.cur = q[t].cand /\ f'.busy = f.busy /\ f'.health = f.health /\ f'.state = f.state
    BY <1>1, Zenon DEF swap, Shape, FilterFields
  <2> QED
    BY <2>1, <2>2, FilterAssumption DEF Held, MappedWhileRead, ServedGen
<1>2. CASE retire(t)
  <2> DEFINE g == [f EXCEPT !.mapped_gen = pool[q[t].cand].gen, !.remap_target = q[t].want, !.faults = 0,
                            !.field = FALSE, !.waiting = FALSE]
  <2>1. DOMAIN g = FilterFields /\ g.cur = f.cur /\ g.mapped_gen = pool[q[t].cand].gen
    BY Zenon DEF Shape, FilterFields
  <2>2. f' = Unlocked(publishState(g, TRUE)) /\ Enter(t, "cand") /\ q[t].at = "retire"
    BY <1>2, Zenon DEF retire, mapped
  <2> HIDE DEF g
  <2>3. f'.cur = f.cur /\ f'.mapped_gen = pool[f.cur].gen /\ True(f')
    BY Zenon, <2>1, <2>2, PublishFacts DEF SameServed
  <2>4. /\ q'[t].at = "cand" /\ Others(t)
    BY <2>2, QueryMoves
  <2>5. \A m \in Pool : /\ pool'[m].gen = pool[m].gen /\ pool'[m].holders = pool[m].holders
                        /\ m # q[t].old => pool'[m] = pool[m]
                        /\ pool[m].st # "free" => pool'[m].st # "free"
    BY <1>2 DEF retire, Shape, BlockFields
  <2>6. OneSlow' /\ f.cur \in Pool /\ q[t].old # f.cur /\ \A u \in Threads : q'[u].at \notin SlowPlaces
    <3>1. \A u \in Threads \ {t} : q[u].at \notin SlowPlaces
      BY <2>2, Zenon
    <3> QED
      BY Zenon, <2>2, <2>4, <3>1
  <2>8. CurLive'
    <3>1. pool'[f.cur] = pool[f.cur]
      BY <2>5, <2>6, Zenon
    <3>2. \A u \in Threads : q'[u].at # "swap" /\ q'[u].at # "retire"
      BY <2>6, Zenon
    <3> QED
      BY <2>3, <2>6, <3>1, <3>2, Zenon DEF CurLive
  <2>7. Held' /\ MappedWhileRead'
    BY <2>2, <2>4, <2>5 DEF Held, MappedWhileRead
  <2>9. f.cur # NoMapping /\ pool'[f.cur].gen = pool[f.cur].gen
    BY <2>5, <2>6, FilterAssumption, Zenon
  <2>10. ServedGen'
    BY <2>3, <2>9, Zenon DEF ServedGen, True
  <2> QED
    BY <2>6, <2>7, <2>8, <2>10, Zenon DEF MapInv
<1> QED
  BY <1>1, <1>2, Zenon

\* A reader's reference counts only if the mapping is still served when confirmed.
LEMMA ReadMap ==
    ASSUME Shape, MapInv, NEW t \in Threads, load_cand(t) \/ acquire(t) \/ confirm(t) \/ judge(t)
    PROVE  MapInv'
<1>1. CASE load_cand(t)
  <2>1. /\ f' = f /\ pool' = pool /\ q[t].at = "cand" /\ Others(t)
        /\ \/ q'[t].at = "idle"
           \/ q'[t].at = "acquire" /\ q'[t].cand = f.cur /\ f.cur # NoMapping
    <3>1. Enter(t, "idle") \/ (ToAcquire(t) /\ f.cur # NoMapping)
      BY <1>1, Zenon DEF load_cand, Return, ToAcquire
    <3>2. f' = f /\ pool' = pool /\ q[t].at = "cand"
      BY <1>1, Zenon DEF load_cand, FilterStep
    <3>3. CASE Enter(t, "idle")
      BY <3>2, <3>3, QueryMoves, Zenon
    <3>4. CASE ToAcquire(t) /\ f.cur # NoMapping
      BY <3>2, <3>4, QueryPuts, Zenon
    <3> QED
      BY <3>1, <3>3, <3>4, Zenon
  <2> QED
    BY Zenon, <2>1, MapFrameKeeps DEF MapFrame, SameServed, SlowPlaces, MapInv, CurLive, Mapping
<1>2. ASSUME acquire(t) \/ confirm(t) \/ judge(t)
      PROVE  /\ f' = f /\ q[t].at \in {"acquire", "confirm", "judge"}
             /\ q'[t].at \in {"idle", "log", "cand", "confirm", "judge"}
             /\ Others(t)
             /\ q'[t].at = "confirm" => q'[t].cand = q[t].cand /\ t \in pool'[q[t].cand].holders
             /\ q'[t].at = "judge" => /\ q[t].at = "confirm" /\ q'[t].cand = q[t].cand
                                      /\ f.cur = q[t].cand /\ pool' = pool
  <2>1. CASE acquire(t)
    BY <2>1, QueryMoves DEF MapInv, Held, acquire, PoolStep, Holding, Shape, BlockFields
  <2>2. CASE confirm(t) /\ confirmed(t)
    BY <2>2, QueryMoves DEF confirm, confirmed, PoolStep
  <2>3. CASE confirm(t) /\ ~confirmed(t)
    BY Zenon, <2>3, QueryPuts DEF confirm, PoolStep, Retry
  <2>4. CASE judge(t)
    BY <2>4, QueryMoves DEF judge, PoolStep, Return
  <2> QED
    BY Zenon, <1>2, <2>1, <2>2, <2>3, <2>4
<1>3. ASSUME acquire(t) \/ confirm(t) \/ judge(t)
      PROVE  \A m \in Pool : /\ pool'[m].st = pool[m].st /\ pool'[m].gen = pool[m].gen
                             /\ \A u \in Threads \ {t} : u \in pool[m].holders => u \in pool'[m].holders
  BY <1>3 DEF MapInv, Held, acquire, confirm, judge, Holding, Released, Shape, BlockFields
<1>4. CASE acquire(t) \/ confirm(t) \/ judge(t)
  <2>1. OneSlow' /\ CurLive' /\ ServedGen'
    BY <1>2, <1>3, <1>4 DEF MapInv, OneSlow, CurLive, ServedGen, SlowPlaces, Mapping
  <2>2. Held'
    BY <1>2, <1>3, <1>4 DEF MapInv, Held
  <2>3. MappedWhileRead'
    BY <1>2, <1>3, <1>4, <2>2, FilterAssumption DEF MapInv, Held, MappedWhileRead, CurLive, Mapping
  <2> QED
    BY <2>1, <2>2, <2>3, Zenon DEF MapInv
<1> QED
  BY <1>1, <1>4, Zenon

----------------------------------------------------------------------------

\* The filter is cold, or serves index 1 from a live mapping.
LEMMA InitMap == Init => MapInv
<1> SUFFICES ASSUME Init PROVE MapInv
  BY Zenon
<1>1. \A t \in Threads : q[t].at = "idle"
  BY Zenon DEF Init, Idle
<1>4. CASE scene = "boot"
  <2>1. f = ColdFilter
    BY <1>4, Zenon DEF Init
  <2>2. f.cur = NoMapping /\ f.health.st = "none" /\ f.state = "INIT"
    BY <2>1, Zenon DEF ColdFilter, Health
  <2> QED
    BY <1>1, <2>2, Zenon DEF MapInv, OneSlow, CurLive, Held, MappedWhileRead, ServedGen, SlowPlaces, Mapping
<1>5. CASE scene # "boot"
  <2>1. PICK m \in Pool :
          /\ f = [ColdFilter EXCEPT !.state = "READY", !.ctl = TRUE, !.cur = m,
                     !.mapped_gen = 1, !.remap_target = 1, !.health = Ok(1)]
          /\ pool = [[n \in Pool |-> Free] EXCEPT ![m] = [Free EXCEPT !.st = "live", !.gen = 1]]
    BY Zenon, <1>5 DEF Init
  <2>2. f.cur = m /\ f.mapped_gen = 1 /\ f.state = "READY" /\ f.health = Ok(1)
    BY <2>1, Zenon DEF ColdFilter
  <2>3. f.health.st = "ok" /\ f.health.gen = 1
    BY <2>2 DEF Ok
  <2>4. pool[m].st = "live" /\ pool[m].gen = 1
    BY <2>1, Zenon DEF Free
  <2> QED
    <3>1. OneSlow /\ Held /\ MappedWhileRead
      BY <1>1, Zenon DEF OneSlow, Held, MappedWhileRead, SlowPlaces
    <3>2. CurLive /\ ServedGen
      BY <1>1, <2>2, <2>3, <2>4, FilterAssumption, Zenon DEF CurLive, ServedGen, Mapping
    <3> QED
      BY <3>1, <3>2, Zenon DEF MapInv
<1> QED
  BY <1>4, <1>5, Zenon

\* A step that leaves the threads, the mappings and what is served of the filter alone.
LEMMA WorldMap ==
    ASSUME MapInv, q' = q, pool' = pool, SameServed(f', f), f'.busy = f.busy,
           f'.health = f.health, f'.state = f.state
    PROVE  MapInv'
  BY DEF MapInv, OneSlow, CurLive, Held, MappedWhileRead, ServedGen, SameServed

\* Every step keeps MapInv.
LEMMA NextMap == Shape /\ MapInv /\ [Next]_vars => MapInv'
<1> SUFFICES ASSUME Shape, MapInv, [Next]_vars PROVE MapInv'
  BY Zenon
<1>1. CASE \/ \E on \in BOOLEAN : SetKill(on)
           \/ \E how \in {"ok", "denied"} : Seed(how)
           \/ \E bad \in BOOLEAN : PutIndex(bad)
           \/ Promote
           \/ \E mode \in {"ENFORCE", "OFF"} : SetMode(mode)
           \/ Tick
           \/ UNCHANGED filterVars
  BY <1>1, WorldMap, Zenon
     DEF SetKill, Seed, PutIndex, Promote, SetMode, Tick, filterVars, SameServed, Shape, FilterFields
<1>2. ASSUME NEW t \in Threads, log(t) \/ logged(t)
      PROVE  MapInv'
  <2>1. MapFrame(t)
    BY <1>2, QueryMoves DEF log, logged, Return, MapFrame, SameServed, SlowPlaces
  <2> QED
    BY <2>1, MapFrameKeeps, Zenon
<1>3. ASSUME NEW t \in Threads, evaluate(t) \/ Step(t), ~UNCHANGED filterVars
      PROVE  MapInv'
  BY <1>2, <1>3, KillMap, ControlMap, IndexMap, SwapMap, ReadMap, Zenon DEF Step
<1> QED
  BY <1>1, <1>3, Zenon DEF Next, vars, filterVars

\* For any threads and mappings, whatever is promoted, seeded or killed meanwhile: the index
\* a query reads is mapped and the query is counted among its holders (evaluate()'s acquire
\* and confirm, slowPath()'s retire and reclaim).
THEOREM IndexStaysMapped == Spec => []MappedWhileRead
<1>1. MapInv => MappedWhileRead
  BY Zenon DEF MapInv
<1> QED
  BY <1>1, InitMap, NextMap, InitKill, NextKill, PTL DEF Spec

\* Between two holds of the slow lock the health property tells the truth: ok:<g> names the
\* generation served, disabled is the filter's state (publishState() and its callers).
THEOREM HealthDoesNotLie == Spec => []HealthTrue
<1>1. MapInv => HealthTrue
  <2> SUFFICES ASSUME MapInv, ~f.busy PROVE HealthTrue
    BY Zenon DEF HealthTrue
  <2>1. \A t \in Threads : q[t].at # "retire"
    BY Zenon DEF MapInv, OneSlow, SlowPlaces
  <2> QED
    BY <2>1, Zenon DEF MapInv, CurLive, ServedGen, HealthTrue
<1> QED
  BY <1>1, InitMap, NextMap, InitKill, NextKill, PTL DEF Spec

----------------------------------------------------------------------------
(* The ring log                                                             *)

Slots == 0..(NR_RING_SLOTS - 1)
RingFields == {"state", "faults", "waiting", "magic", "head", "recs"}
RecFields == {"seq", "a", "b"}
WriteFields == {"at", "ticket", "counted"}
ReaderFields == {"at", "slot", "seq", "a", "b"}

\* The variables of the log have these fields, and numbers where they are compared.
RingShape ==
    /\ DOMAIN ring = RingFields /\ DOMAIN ring.recs = Slots
    /\ \A s \in Slots : DOMAIN ring.recs[s] = RecFields
    /\ DOMAIN w = Threads /\ \A t \in Threads : DOMAIN w[t] = WriteFields
    /\ DOMAIN reader = ReaderFields

RingNumbers ==
    /\ ring.head \in Nat /\ \A s \in Slots : ring.recs[s].seq \in Nat
    /\ reader.seq \in Nat /\ reader.slot \in Slots

Writing == {"seq0", "a", "b", "seq"}

\* A writer's ticket has been given out and nobody else has it in a slot that was not
\* lapped; neither does a record or the reader know its seq yet.
Tickets ==
    /\ \A s \in Slots : ring.recs[s].seq <= ring.head
    /\ reader.seq <= ring.head /\ (reader.at # "seq" => reader.seq # 0)
    /\ \A t \in Threads : w[t].at \in Writing =>
         /\ w[t].ticket \in Nat /\ w[t].ticket < ring.head
         /\ Slot(w[t].ticket) \notin lapped =>
              /\ w[t].ticket + 1 # ring.recs[Slot(w[t].ticket)].seq
              /\ reader.slot = Slot(w[t].ticket) => w[t].ticket + 1 # reader.seq
              /\ \A u \in Threads : w[u].at \in Writing /\ Slot(w[u].ticket) = Slot(w[t].ticket) => u = t

\* A record in a slot that was not lapped: seq is 0 while its one writer is in the body,
\* and names the body otherwise.
Records ==
    /\ \A s \in Slots \ lapped :
         ring.recs[s].seq # 0 =>
             ring.recs[s].a = ring.recs[s].seq - 1 /\ ring.recs[s].b = ring.recs[s].seq - 1
    /\ \A t \in Threads : w[t].at \in Writing /\ Slot(w[t].ticket) \notin lapped =>
         /\ w[t].at # "seq0" => ring.recs[Slot(w[t].ticket)].seq = 0
         /\ w[t].at \in {"b", "seq"} => ring.recs[Slot(w[t].ticket)].a = w[t].ticket
         /\ w[t].at = "seq" => ring.recs[Slot(w[t].ticket)].b = w[t].ticket

\* What the reader has read is of the record its seq names, as long as seq is still there.
ReadSoFar ==
    reader.slot \notin lapped /\ (reader.at = "got" \/ ring.recs[reader.slot].seq = reader.seq) =>
        /\ reader.at \in {"b", "again", "got"} => reader.a = reader.seq - 1
        /\ reader.at \in {"again", "got"} => reader.b = reader.seq - 1

RingInv == RingShape /\ RingNumbers /\ Tickets /\ Records /\ ReadSoFar

----------------------------------------------------------------------------

\* A ticket's slot is one of the ring's.
LEMMA SlotInRing == \A n \in Nat : Slot(n) \in Slots
  BY RingAssumption DEF Slot, Slots

\* The threads but t are where they were in nr_ring_write().
OtherWrites(t) == \A u \in Threads \ {t} : w'[u] = w[u]

\* Thread t's call of nr_ring_write() becomes r.
Puts(t, r) == w' = [w EXCEPT ![t] = r]

\* The others stay as they are.
LEMMA PutsFacts ==
    ASSUME RingInv, NEW t \in Threads, NEW r, Puts(t, r), DOMAIN r = WriteFields
    PROVE  /\ DOMAIN w' = Threads /\ \A u \in Threads : DOMAIN w'[u] = WriteFields
           /\ w'[t] = r /\ OtherWrites(t)
  BY Zenon DEF RingInv, RingShape, Puts, OtherWrites

\* A step outside the slots: records, tickets and reader stay, and the thread that moves is
\* not writing.
RingFrame ==
    /\ RingShape'
    /\ ring'.recs = ring.recs /\ ring'.head = ring.head /\ reader' = reader /\ lapped' = lapped
    /\ \A t \in Threads : w'[t] = w[t] \/ w'[t].at \notin Writing

\* Such a step keeps RingInv.
LEMMA RingFrameKeeps ==
    ASSUME RingInv, RingFrame
    PROVE  RingInv'
<1> USE DEF RingInv, RingFrame
<1>1. RingNumbers'
  BY Zenon DEF RingNumbers
<1>2. Tickets'
  BY Zenon DEF Tickets
<1>3. Records'
  BY DEF Records
<1>4. ReadSoFar'
  BY Zenon DEF ReadSoFar
<1> QED
  BY <1>1, <1>2, <1>3, <1>4, Zenon

\* ring_map(), and the steps around nr_ring_write().
LEMMA MapRing ==
    ASSUME RingInv, NEW t \in Threads,
           \/ ring_map_test(t) \/ ring_map_claim(t) \/ ring_map_fails(t) \/ ring_map_opens(t)
           \/ log(t) \/ logged(t)
    PROVE  RingInv'
<1>0. /\ \A at : DOMAIN [w[t] EXCEPT !.at = at] = WriteFields /\ [w[t] EXCEPT !.at = at].at = at
      /\ DOMAIN Dropped(w[t]) = WriteFields /\ Dropped(w[t]).at = "done"
      /\ DOMAIN Out = WriteFields /\ Out.at = "out"
      /\ \A at : DOMAIN [Out EXCEPT !.at = at] = WriteFields /\ [Out EXCEPT !.at = at].at = at
  BY Zenon DEF RingInv, RingShape, WriteFields, Out, Dropped
<1>1. /\ reader' = reader /\ lapped' = lapped
      /\ DOMAIN w' = Threads /\ \A u \in Threads : DOMAIN w'[u] = WriteFields
      /\ \A u \in Threads : w'[u] = w[u] \/ w'[u].at \notin Writing
  <2>1. \/ \E at \in {"ticket", "cas", "open"} : Puts(t, [w[t] EXCEPT !.at = at])
        \/ Puts(t, Dropped(w[t]))
        \/ Puts(t, [Out EXCEPT !.at = "state"])
        \/ Puts(t, Out)
    BY Zenon DEF ring_map_test, ring_map_claim, ring_map_fails, ring_map_opens, log, logged, ring_write_begin, Puts
  <2>2. /\ DOMAIN w' = Threads /\ \A u \in Threads : DOMAIN w'[u] = WriteFields
        /\ \A u \in Threads : w'[u] = w[u] \/ w'[u].at \notin Writing
    <3>1. PICK r : Puts(t, r) /\ DOMAIN r = WriteFields /\ r.at \notin Writing
      <4> DEFINE Silent(r) == DOMAIN r = WriteFields /\ r.at \notin Writing
      <4>1. /\ \A at \in {"ticket", "cas", "open"} : Silent([w[t] EXCEPT !.at = at])
            /\ Silent(Dropped(w[t])) /\ Silent([Out EXCEPT !.at = "state"]) /\ Silent(Out)
        BY <1>0, Zenon DEF Writing
      <4> HIDE DEF Silent
      <4>2. \E r : Puts(t, r) /\ Silent(r)
        BY <2>1, <4>1, Zenon
      <4> QED
        BY <4>2, Zenon DEF Silent
    <3> QED
      BY <3>1, PutsFacts, Zenon DEF OtherWrites
  <2>3. reader' = reader /\ lapped' = lapped
    BY Zenon DEF ring_write_begin, ring_map_test, ring_map_claim, ring_map_fails, ring_map_opens, log, logged
  <2> QED
    BY <2>2, <2>3, Zenon
<1>2. /\ DOMAIN ring' = RingFields /\ ring'.recs = ring.recs /\ ring'.head = ring.head
  BY Zenon DEF RingInv, RingShape, RingFields, ring_write_begin, ring_map_test, ring_map_claim,
         ring_map_fails, ring_map_opens, ring_fail, log, logged
<1>3. RingFrame
  BY <1>1, <1>2, Zenon DEF RingInv, RingShape, RingFrame
<1> QED
  BY <1>3, RingFrameKeeps, Zenon

\* fetch_add: a slot with a writer in it is lapped from here on.
LEMMA TicketRing ==
    ASSUME RingInv, NEW t \in Threads, ring_ticket(t)
    PROVE  RingInv'
<1> DEFINE n == ring.head
<1>1. /\ w[t].at = "ticket" /\ reader' = reader
      /\ lapped' = IF Writers(Slot(n)) # {} THEN lapped \cup {Slot(n)} ELSE lapped
      /\ ring' = [ring EXCEPT !.head = n + 1]
      /\ w' = [w EXCEPT ![t] = [w[t] EXCEPT !.at = "seq0", !.ticket = n, !.counted = w[t].counted + 1]]
  BY Zenon DEF ring_ticket
<1>2. /\ DOMAIN ring' = RingFields /\ ring'.recs = ring.recs /\ ring'.head = n + 1
  BY <1>1, Zenon DEF RingInv, RingShape, RingFields
<1>3. /\ DOMAIN w' = Threads /\ DOMAIN w'[t] = WriteFields /\ w'[t].at = "seq0" /\ w'[t].ticket = n
      /\ OtherWrites(t)
  BY <1>1, Zenon DEF RingInv, RingShape, WriteFields, OtherWrites
<1>4. /\ lapped \subseteq lapped'
      /\ Slot(n) \notin lapped' =>
           \A u \in Threads : w[u].at \in Writing => Slot(w[u].ticket) # Slot(n)
  BY <1>1, Zenon DEF Writers, Writing
<1> HIDE DEF n
<1>5. n \in Nat /\ n = ring.head
  BY Zenon DEF n, RingInv, RingNumbers
<1>6. RingShape' /\ RingNumbers'
  BY <1>1, <1>2, <1>3, <1>5 DEF RingInv, RingShape, RingNumbers, OtherWrites
<1>7. Tickets'
  <2>1. /\ \A s \in Slots : ring'.recs[s].seq <= ring'.head
        /\ reader'.seq <= ring'.head /\ (reader'.at # "seq" => reader'.seq # 0)
    BY <1>1, <1>2, <1>5 DEF RingInv, RingNumbers, Tickets
  <2>2. Slot(n) \in Slots
    BY <1>5, SlotInRing, Zenon
  <2>3. n + 1 # ring.recs[Slot(n)].seq /\ n + 1 # reader.seq
    BY <1>5, <2>2 DEF RingInv, RingNumbers, Tickets
  <2>4. ASSUME NEW u \in Threads, w'[u].at \in Writing
        PROVE  /\ w'[u].ticket \in Nat /\ w'[u].ticket < ring'.head
               /\ Slot(w'[u].ticket) \notin lapped' =>
                    /\ w'[u].ticket + 1 # ring'.recs[Slot(w'[u].ticket)].seq
                    /\ reader'.slot = Slot(w'[u].ticket) => w'[u].ticket + 1 # reader'.seq
                    /\ \A v \in Threads : w'[v].at \in Writing /\ Slot(w'[v].ticket) = Slot(w'[u].ticket) => v = u
    <3>1. CASE u = t
      BY <1>1, <1>2, <1>3, <1>4, <1>5, <2>3, <3>1 DEF OtherWrites
    <3>2. CASE u # t
      BY <1>1, <1>2, <1>3, <1>4, <1>5, <2>4, <3>2 DEF OtherWrites, RingInv, Tickets
    <3> QED
      BY <3>1, <3>2, Zenon
  <2> QED
    BY <2>1, <2>4, Zenon DEF Tickets
<1>8. Records'
  BY <1>1, <1>2, <1>3, <1>4 DEF OtherWrites, RingInv, Records, Writing
<1>9. ReadSoFar'
  BY <1>1, <1>2, <1>4, Zenon DEF RingInv, ReadSoFar
<1> QED
  BY <1>6, <1>7, <1>8, <1>9, Zenon DEF RingInv

----------------------------------------------------------------------------
(* The stores to a slot.                                                    *)

\* The record of thread t's slot, before and after a step.
OldRec(t) == ring.recs[Slot(w[t].ticket)]
NewRec(t) == ring'.recs[Slot(w[t].ticket)]

\* A store leaves the rest of the log alone, and its writer moves on.
Moves(t, from, to) ==
    /\ w[t].at = from /\ w'[t].at = to /\ w'[t].ticket = w[t].ticket /\ OtherWrites(t)
    /\ RingShape' /\ reader' = reader /\ lapped' = lapped /\ ring'.head = ring.head
    /\ Slot(w[t].ticket) \in Slots
    /\ \A x \in Slots \ {Slot(w[t].ticket)} : ring'.recs[x] = ring.recs[x]

\* One field of the record is new.
LEMMA StoreFacts ==
    ASSUME RingInv, NEW t \in Threads, w[t].at \in Writing, NEW from, NEW to, NEW v,
           NEW field \in RecFields, Store(t, from, field, v, to)
    PROVE  /\ Moves(t, from, to)
           /\ NewRec(t).seq = IF field = "seq" THEN v ELSE OldRec(t).seq
           /\ NewRec(t).a = IF field = "a" THEN v ELSE OldRec(t).a
           /\ NewRec(t).b = IF field = "b" THEN v ELSE OldRec(t).b
<1> DEFINE s == Slot(w[t].ticket)
           r == [ring.recs[s] EXCEPT ![field] = v]
           c == [w[t] EXCEPT !.at = to]
<1>1. s \in Slots
  BY SlotInRing, Zenon DEF RingInv, Tickets
<1>2. /\ w[t].at = from /\ reader' = reader /\ lapped' = lapped /\ Puts(t, c)
      /\ ring' = [ring EXCEPT !.recs = [ring.recs EXCEPT ![s] = r]]
  BY Zenon DEF Store, Puts
<1>3. DOMAIN c = WriteFields /\ c.at = to /\ c.ticket = w[t].ticket
  BY Zenon DEF RingInv, RingShape, WriteFields
<1>4. /\ DOMAIN r = RecFields
      /\ r.seq = IF field = "seq" THEN v ELSE ring.recs[s].seq
      /\ r.a = IF field = "a" THEN v ELSE ring.recs[s].a
      /\ r.b = IF field = "b" THEN v ELSE ring.recs[s].b
  BY <1>1, Zenon DEF RingInv, RingShape, RecFields
<1> HIDE DEF r, c, s
<1>5. DOMAIN ring' = RingFields /\ ring'.recs = [ring.recs EXCEPT ![s] = r] /\ ring'.head = ring.head
  BY <1>2, Zenon DEF RingInv, RingShape, RingFields
<1>6. /\ DOMAIN ring'.recs = Slots /\ ring'.recs[s] = r
      /\ \A x \in Slots \ {s} : ring'.recs[x] = ring.recs[x]
  BY <1>1, <1>5, Zenon DEF RingInv, RingShape
<1>7. /\ DOMAIN w' = Threads /\ \A u \in Threads : DOMAIN w'[u] = WriteFields
      /\ w'[t] = c /\ OtherWrites(t)
  BY <1>2, <1>3, PutsFacts, Zenon
<1>8. RingShape'
  BY <1>1, <1>2, <1>4, <1>5, <1>6, <1>7, Zenon DEF RingInv, RingShape
<1> QED
  BY <1>1, <1>2, <1>3, <1>4, <1>5, <1>6, <1>7, <1>8, Zenon DEF s, Moves, NewRec, OldRec

\* The four stores of nr_ring_write() to its record.
Invalidates(t) ==
    Moves(t, "seq0", "a") /\ NewRec(t).seq = 0 /\ NewRec(t).a = OldRec(t).a /\ NewRec(t).b = OldRec(t).b
FillsA(t) ==
    /\ Moves(t, "a", "b")
    /\ NewRec(t).seq = OldRec(t).seq /\ NewRec(t).a = w[t].ticket /\ NewRec(t).b = OldRec(t).b
FillsB(t) ==
    /\ Moves(t, "b", "seq")
    /\ NewRec(t).seq = OldRec(t).seq /\ NewRec(t).a = OldRec(t).a /\ NewRec(t).b = w[t].ticket
Publishes(t) ==
    /\ Moves(t, "seq", "done")
    /\ NewRec(t).seq = w[t].ticket + 1 /\ NewRec(t).a = OldRec(t).a /\ NewRec(t).b = OldRec(t).b

LEMMA Stores ==
    ASSUME RingInv, NEW t \in Threads, ring_invalidate(t) \/ ring_body(t) \/ ring_publish(t)
    PROVE  Invalidates(t) \/ FillsA(t) \/ FillsB(t) \/ Publishes(t)
<1>0. w[t].at \in Writing
  BY Zenon DEF ring_invalidate, ring_body, ring_publish, Store, Writing
<1>1. "seq" \in RecFields /\ "a" \in RecFields /\ "b" \in RecFields
  BY Zenon DEF RecFields
<1>2. CASE ring_invalidate(t)
  BY <1>0, <1>1, <1>2, StoreFacts, Zenon DEF ring_invalidate, Invalidates
<1>3. CASE Store(t, "a", "a", w[t].ticket, "b")
  BY <1>0, <1>1, <1>3, StoreFacts, Zenon DEF FillsA
<1>4. CASE Store(t, "b", "b", w[t].ticket, "seq")
  BY <1>0, <1>1, <1>4, StoreFacts, Zenon DEF FillsB
<1>5. CASE ring_publish(t)
  BY <1>0, <1>1, <1>5, StoreFacts, Zenon DEF ring_publish, Publishes
<1> QED
  BY <1>2, <1>3, <1>4, <1>5, Zenon DEF ring_body

\* What the writer of a slot that was not lapped may leave in it: a whole record under a seq
\* that the reader does not have, or one without a seq as far as it has been written.
Leaves(t, to) ==
    /\ NewRec(t).seq # 0 => NewRec(t).a = NewRec(t).seq - 1 /\ NewRec(t).b = NewRec(t).seq - 1
    /\ to \in Writing => to # "seq0" /\ NewRec(t).seq = 0
    /\ to \in {"b", "seq"} => NewRec(t).a = w[t].ticket
    /\ to = "seq" => NewRec(t).b = w[t].ticket
    /\ reader.slot = Slot(w[t].ticket) => reader.at = "seq" \/ NewRec(t).seq # reader.seq

\* Such a store keeps RingInv: in a slot that was not lapped there is no other writer.
LEMMA StoreKeeps ==
    ASSUME RingInv, NEW t \in Threads, NEW from \in Writing, NEW to, Moves(t, from, to),
           NewRec(t).seq \in Nat, NewRec(t).seq <= ring.head,
           Slot(w[t].ticket) \notin lapped => Leaves(t, to)
    PROVE  RingInv'
<1> DEFINE s == Slot(w[t].ticket)
<1>0. /\ RingShape' /\ reader' = reader /\ lapped' = lapped /\ ring'.head = ring.head /\ s \in Slots
      /\ w[t].at \in Writing /\ w'[t].at = to /\ w'[t].ticket = w[t].ticket
      /\ \A u \in Threads : u # t => w'[u] = w[u]
  BY Zenon DEF Moves, OtherWrites
<1>1. \A x \in Slots : ring'.recs[x] = IF x = s THEN NewRec(t) ELSE ring.recs[x]
  BY Zenon DEF Moves, NewRec
<1>2. ASSUME NEW u \in Threads, u # t, w[u].at \in Writing, Slot(w[u].ticket) \notin lapped
      PROVE  Slot(w[u].ticket) \in Slots /\ ring'.recs[Slot(w[u].ticket)] = ring.recs[Slot(w[u].ticket)]
  <2>1. Slot(w[u].ticket) # s /\ w[u].ticket \in Nat
    BY <1>0, <1>2, Zenon DEF RingInv, Tickets
  <2> QED
    BY <1>1, <2>1, SlotInRing, Zenon
<1>3. ring'.recs[s] = NewRec(t)
  BY <1>0, <1>1, Zenon
<1> HIDE DEF s
<1>4. RingNumbers'
  BY <1>0, <1>1, Zenon DEF RingInv, RingNumbers
<1>5. Tickets'
  <2>1. /\ \A x \in Slots : ring'.recs[x].seq <= ring'.head
        /\ reader'.seq <= ring'.head /\ (reader'.at # "seq" => reader'.seq # 0)
    BY <1>0, <1>1, Zenon DEF RingInv, Tickets
  <2>2. ASSUME NEW u \in Threads, w'[u].at \in Writing
        PROVE  w'[u].ticket = w[u].ticket /\ w[u].at \in Writing
    BY <1>0, <2>2, Zenon
  <2>3. ASSUME NEW u \in Threads, w'[u].at \in Writing
        PROVE  /\ w'[u].ticket \in Nat /\ w'[u].ticket < ring'.head
               /\ Slot(w'[u].ticket) \notin lapped' =>
                    /\ reader'.slot = Slot(w'[u].ticket) => w'[u].ticket + 1 # reader'.seq
                    /\ \A v \in Threads : w'[v].at \in Writing /\ Slot(w'[v].ticket) = Slot(w'[u].ticket) => v = u
    BY <1>0, <2>2, <2>3, Zenon DEF RingInv, Tickets
  <2>4. ASSUME NEW u \in Threads, w'[u].at \in Writing, Slot(w[u].ticket) \notin lapped
        PROVE  w[u].ticket + 1 # ring'.recs[Slot(w[u].ticket)].seq
    <3>1. CASE u = t
      BY <1>0, <1>3, <2>3, <2>4, <3>1 DEF Leaves, s
    <3>2. CASE u # t
      BY <1>2, <2>2, <2>4, <3>2, Zenon DEF RingInv, Tickets
    <3> QED
      BY <3>1, <3>2, Zenon
  <2> QED
    BY <1>0, <2>1, <2>2, <2>3, <2>4, Zenon DEF Tickets
<1>6. Records'
  <2>1. ASSUME NEW x \in Slots \ lapped, ring'.recs[x].seq # 0
        PROVE  ring'.recs[x].a = ring'.recs[x].seq - 1 /\ ring'.recs[x].b = ring'.recs[x].seq - 1
    BY <1>1, <2>1, Zenon DEF RingInv, Records, Leaves, s
  <2>2. ASSUME NEW u \in Threads, w'[u].at \in Writing, Slot(w'[u].ticket) \notin lapped
        PROVE  /\ w'[u].at # "seq0" => ring'.recs[Slot(w'[u].ticket)].seq = 0
               /\ w'[u].at \in {"b", "seq"} => ring'.recs[Slot(w'[u].ticket)].a = w'[u].ticket
               /\ w'[u].at = "seq" => ring'.recs[Slot(w'[u].ticket)].b = w'[u].ticket
    <3>1. CASE u = t
      BY <1>0, <1>3, <2>2, <3>1, Zenon DEF Leaves, s
    <3>2. CASE u # t
      BY <1>0, <1>2, <2>2, <3>2 DEF RingInv, Records
    <3> QED
      BY <3>1, <3>2, Zenon
  <2> QED
    BY <1>0, <2>1, <2>2, Zenon DEF Records
<1>7. ReadSoFar'
  BY <1>0, <1>1, Zenon DEF RingInv, RingNumbers, ReadSoFar, Leaves, s
<1> QED
  BY <1>0, <1>4, <1>5, <1>6, <1>7, Zenon DEF RingInv

\* Invalidate, fill, publish: the record is made whole before it is given a seq, and no one
\* has seen that seq.
LEMMA StoreRing ==
    ASSUME RingInv, NEW t \in Threads, ring_invalidate(t) \/ ring_body(t) \/ ring_publish(t)
    PROVE  RingInv'
<1>0. w[t].at \in Writing
  BY Zenon DEF ring_invalidate, ring_body, ring_publish, Store, Writing
<1>1. /\ w[t].ticket \in Nat /\ w[t].ticket < ring.head /\ ring.head \in Nat /\ Slot(w[t].ticket) \in Slots
      /\ OldRec(t).seq \in Nat /\ OldRec(t).seq <= ring.head
      /\ reader.at # "seq" => reader.seq # 0
  BY <1>0, SlotInRing, Zenon DEF RingInv, RingNumbers, Tickets, OldRec
<1>2. Slot(w[t].ticket) \notin lapped =>
        /\ reader.slot = Slot(w[t].ticket) => w[t].ticket + 1 # reader.seq
        /\ w[t].at # "seq0" => OldRec(t).seq = 0
        /\ w[t].at \in {"b", "seq"} => OldRec(t).a = w[t].ticket
        /\ w[t].at = "seq" => OldRec(t).b = w[t].ticket
  BY <1>0, Zenon DEF RingInv, Tickets, Records, OldRec
<1>3. \A from, to : Moves(t, from, to) => w[t].at = from
  BY Zenon DEF Moves
<1>4. CASE Invalidates(t)
  <2>1. Leaves(t, "a")
    BY <1>1, <1>4, Zenon DEF Invalidates, Leaves, Writing
  <2> QED
    BY <1>1, <1>4, <2>1, StoreKeeps DEF Invalidates, Writing
<1>5. CASE FillsA(t)
  <2>1. Slot(w[t].ticket) \notin lapped => Leaves(t, "b")
    BY <1>1, <1>2, <1>3, <1>5, Zenon DEF FillsA, Leaves, Writing
  <2> QED
    BY <1>1, <1>5, <2>1, StoreKeeps, Zenon DEF FillsA, Writing
<1>6. CASE FillsB(t)
  <2>1. Slot(w[t].ticket) \notin lapped => Leaves(t, "seq")
    BY <1>1, <1>2, <1>3, <1>6, Zenon DEF FillsB, Leaves, Writing
  <2> QED
    BY <1>1, <1>6, <2>1, StoreKeeps, Zenon DEF FillsB, Writing
<1>7. CASE Publishes(t)
  <2>1. Slot(w[t].ticket) \notin lapped => Leaves(t, "done")
    BY <1>1, <1>2, <1>3, <1>7 DEF Publishes, Leaves, Writing
  <2> QED
    BY <1>1, <1>7, <2>1, StoreKeeps DEF Publishes, Writing
<1> QED
  BY <1>4, <1>5, <1>6, <1>7, Stores, Zenon

----------------------------------------------------------------------------
(* The app's reader, and the proof.                                         *)

\* The reader starts over, finds a record, or reads the next part of it.
StartsOver == reader'.at = "seq" /\ reader'.seq = 0 /\ reader'.slot = 0
Finds ==
    /\ reader'.at = "a" /\ reader'.slot \in Slots /\ ring.recs[reader'.slot].seq # 0
    /\ reader'.seq = ring.recs[reader'.slot].seq
ReadsOn ==
    /\ reader.at # "seq" /\ reader'.at # "seq" /\ reader'.slot = reader.slot /\ reader'.seq = reader.seq
    /\ \/ reader'.at = "b" /\ reader'.a = ring.recs[reader.slot].a
       \/ /\ reader.at = "b" /\ reader'.at = "again" /\ reader'.a = reader.a
          /\ reader'.b = ring.recs[reader.slot].b
       \/ /\ reader.at = "again" /\ reader'.at = "got" /\ reader'.a = reader.a
          /\ reader'.b = reader.b /\ ring.recs[reader.slot].seq = reader.seq

\* The fields of the reader after each of its steps.
LEMMA ReaderMoves ==
    ASSUME RingInv, ReadRecord
    PROVE  DOMAIN reader' = ReaderFields /\ (StartsOver \/ Finds \/ ReadsOn)
<1>0. DOMAIN reader = ReaderFields
  BY Zenon DEF RingInv, RingShape
<1>1. DOMAIN Looking = ReaderFields /\ Looking.at = "seq" /\ Looking.seq = 0 /\ Looking.slot = 0
  BY Zenon DEF Looking, ReaderFields
<1>2. CASE reader' = Looking
  BY <1>1, <1>2, Zenon DEF StartsOver
<1>3. ASSUME NEW s \in Slots, ring.recs[s].seq # 0,
             reader' = [Looking EXCEPT !.at = "a", !.slot = s, !.seq = ring.recs[s].seq]
      PROVE  /\ DOMAIN reader' = ReaderFields /\ reader'.at = "a" /\ reader'.slot = s
             /\ reader'.seq = ring.recs[s].seq
  BY <1>1, <1>3, Zenon DEF ReaderFields
<1>4. CASE reader.at = "a" /\ reader' = [reader EXCEPT !.at = "b", !.a = Rec.a]
  BY <1>0, <1>4, Zenon DEF ReaderFields, Rec, ReadsOn
<1>5. CASE reader.at = "b" /\ reader' = [reader EXCEPT !.at = "again", !.b = Rec.b]
  BY <1>0, <1>5, Zenon DEF ReaderFields, Rec, ReadsOn
<1>6. CASE reader.at = "again" /\ Rec.seq = reader.seq /\ reader' = [reader EXCEPT !.at = "got"]
  BY <1>0, <1>6, Zenon DEF ReaderFields, Rec, ReadsOn
<1>7. \/ reader' = Looking
      \/ \E s \in Slots : /\ ring.recs[s].seq # 0
                          /\ reader' = [Looking EXCEPT !.at = "a", !.slot = s, !.seq = ring.recs[s].seq]
      \/ reader.at = "a" /\ reader' = [reader EXCEPT !.at = "b", !.a = Rec.a]
      \/ reader.at = "b" /\ reader' = [reader EXCEPT !.at = "again", !.b = Rec.b]
      \/ reader.at = "again" /\ Rec.seq = reader.seq /\ reader' = [reader EXCEPT !.at = "got"]
  BY Zenon DEF ReadRecord, Slots
<1>8. CASE \E s \in Slots : /\ ring.recs[s].seq # 0
                           /\ reader' = [Looking EXCEPT !.at = "a", !.slot = s, !.seq = ring.recs[s].seq]
  BY <1>3, <1>8, Zenon DEF Finds
<1> QED
  BY <1>2, <1>4, <1>5, <1>6, <1>7, <1>8, Zenon

\* A seq that is the same before and after has been there all along, and with it the body.
LEMMA ReadRing ==
    ASSUME RingInv, ReadRecord
    PROVE  RingInv'
<1>0. ring' = ring /\ w' = w /\ lapped' = lapped
  BY Zenon DEF ReadRecord
<1>1. RingShape'
  BY <1>0, ReaderMoves, Zenon DEF RingInv, RingShape
<1>2. Records'
  BY <1>0, Zenon DEF RingInv, Records
<1>3. SUFFICES RingNumbers' /\ Tickets' /\ ReadSoFar'
  BY <1>1, <1>2, Zenon DEF RingInv
<1>4. CASE StartsOver
  <2>1. RingNumbers'
    BY <1>0, <1>4, RingAssumption DEF StartsOver, RingInv, RingNumbers, Slots
  <2>2. Tickets'
    BY <1>0, <1>4 DEF StartsOver, RingInv, Tickets, RingNumbers
  <2>3. ReadSoFar'
    BY <1>4, Zenon DEF StartsOver, ReadSoFar
  <2> QED
    BY <2>1, <2>2, <2>3, Zenon
<1>5. CASE Finds
  <2>1. RingNumbers'
    BY <1>0, <1>5, Zenon DEF Finds, RingInv, RingNumbers
  <2>2. Tickets'
    BY <1>0, <1>5, Zenon DEF Finds, RingInv, Tickets
  <2>3. ReadSoFar'
    BY <1>5, Zenon DEF Finds, ReadSoFar
  <2> QED
    BY <2>1, <2>2, <2>3, Zenon
<1>6. CASE ReadsOn
  <2>0. reader.slot \in Slots /\ reader.seq # 0 /\ reader'.slot = reader.slot /\ reader'.seq = reader.seq
    BY <1>6, Zenon DEF ReadsOn, RingInv, RingNumbers, Tickets
  <2>1. RingNumbers'
    BY <1>0, <2>0, Zenon DEF RingInv, RingNumbers
  <2>2. Tickets'
    BY <1>0, <2>0, Zenon DEF RingInv, Tickets
  <2>3. reader.slot \notin lapped /\ ring.recs[reader.slot].seq = reader.seq =>
            ring.recs[reader.slot].a = reader.seq - 1 /\ ring.recs[reader.slot].b = reader.seq - 1
    BY <2>0, Zenon DEF RingInv, Records
  <2>4. ReadSoFar'
    BY <1>0, <1>6, <2>0, <2>3, Zenon DEF ReadsOn, RingInv, ReadSoFar
  <2> QED
    BY <2>1, <2>2, <2>4, Zenon
<1> QED
  BY <1>4, <1>5, <1>6, ReaderMoves, Zenon

\* An empty ring, and nobody writes.
LEMMA InitRing == Init => RingInv
<1> SUFFICES ASSUME RingInit PROVE RingInv
  BY Zenon DEF Init
<1>1. /\ ring = [state |-> "UNINIT", faults |-> 0, waiting |-> FALSE, magic |-> "zero",
                 head |-> 0, recs |-> [s \in Slots |-> Blank]]
      /\ w = [t \in Threads |-> Out] /\ reader = Looking /\ lapped = {}
  BY Zenon DEF RingInit, Slots
<1>2. /\ DOMAIN ring = RingFields /\ ring.head = 0 /\ ring.recs = [s \in Slots |-> Blank]
      /\ DOMAIN Blank = RecFields /\ Blank.seq = 0 /\ DOMAIN Out = WriteFields /\ Out.at = "out"
      /\ DOMAIN Looking = ReaderFields /\ Looking.at = "seq" /\ Looking.seq = 0 /\ Looking.slot = 0
  BY <1>1, Zenon DEF RingFields, RecFields, WriteFields, ReaderFields, Blank, Out, Looking
<1>3. 0 \in Slots
  BY RingAssumption DEF Slots
<1>4. RingShape /\ RingNumbers
  BY <1>1, <1>2, <1>3 DEF RingShape, RingNumbers
<1>5. Tickets /\ Records
  BY <1>1, <1>2 DEF Tickets, Records, Writing
<1>6. ReadSoFar
  BY <1>1, <1>2, Zenon DEF ReadSoFar
<1> QED
  BY <1>4, <1>5, <1>6, Zenon DEF RingInv

\* Every step keeps RingInv; those of the filter do not touch the log.
LEMMA NextRing == RingInv /\ [Next]_vars => RingInv'
<1> SUFFICES ASSUME RingInv, [Next]_vars PROVE RingInv'
  BY Zenon
<1>1. CASE UNCHANGED ringVars
  BY <1>1, Zenon DEF ringVars, RingInv, RingShape, RingNumbers, Tickets, Records, ReadSoFar
<1>2. CASE RingTick \/ RingForeign
  <2>1. /\ DOMAIN ring' = RingFields /\ ring'.recs = ring.recs /\ ring'.head = ring.head
        /\ w' = w /\ reader' = reader /\ lapped' = lapped
    BY <1>2, Zenon DEF RingTick, RingForeign, RingInv, RingShape, RingFields
  <2>2. RingFrame
    BY <2>1, Zenon DEF RingFrame, RingInv, RingShape
  <2> QED
    BY <2>2, RingFrameKeeps, Zenon
<1>3. CASE ReadRecord
  BY <1>3, ReadRing, Zenon
<1>4. ASSUME NEW t \in Threads, ring_step(t) \/ log(t) \/ logged(t) PROVE RingInv'
  BY <1>4, MapRing, TicketRing, StoreRing, Zenon DEF ring_step
<1>5. ASSUME NEW t \in Threads, evaluate(t) \/ (Step(t) /\ ~ring_step(t) /\ ~log(t) /\ ~logged(t))
      PROVE  UNCHANGED ringVars
  BY <1>5, Zenon DEF Step, KillStep, FilterStep, PoolStep, evaluate, kill_area, kill_find, kill_absent, kill_serial,
     kill_read, kill_store, check_kill, onKillChanged, onKillChanged_store, controlPage, controlPage_lock,
     controlPage_map, load_page, slowPath, slowPath_lock, reclaim, open_index, swap, retire, load_cand,
     acquire, confirm, judge
<1>6. \/ UNCHANGED ringVars \/ RingTick \/ RingForeign \/ ReadRecord
      \/ \E t \in Threads : evaluate(t) \/ Step(t)
  BY Zenon DEF Next, vars, SetKill, Seed, PutIndex, Promote, SetMode, Tick
<1> QED
  BY <1>1, <1>2, <1>3, <1>4, <1>5, <1>6, Zenon

\* A record whose seq the app finds unchanged after reading the body is the whole record of
\* the writer that seq names, for any number of writers, as long as none was lapped in the
\* slot (nr_ring_write()'s invalidate and publish).
THEOREM RecordsWhole == Spec => []RecordWhole
<1>1. RingInv => RecordWhole
  BY Zenon DEF RingInv, ReadSoFar, RecordWhole
<1> QED
  BY <1>1, InitRing, NextRing, PTL DEF Spec
============================================================================
