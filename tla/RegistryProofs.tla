--------------------------- MODULE RegistryProofs ---------------------------
(***************************************************************************)
(* One device object per native device, for any number of threads, kinds   *)
(* and devices, and also when platforms are built and devices destroyed    *)
(* while others ask for them.                                              *)
(*                                                                         *)
(* The argument: a device that someone holds is the one in the cache of    *)
(* its platform; it holds the platform, so the singleton of the kind has   *)
(* not expired, and no second platform of the kind, with a second cache,   *)
(* can be made.                                                            *)
(***************************************************************************)
EXTENDS MCRegistry, SequenceTheorems, FiniteSetTheorems, WellFoundedInduction, TLAPS

PlatformType == [kind : Kinds, manager : Nat, ctx : Nat, size : Nat,
                 cache : [Indices -> Nat]]
DeviceType == [plat : Nat, idx : Indices, state : {"alive", "dying", "dead"}]
QueueType == [dev : Nat, live : BOOLEAN, lost : BOOLEAN]

Types ==
    /\ pc \in [Threads -> {"idle", "build", "insert", "resize", "device", "reset"}]
    /\ index \in [Threads -> Nat]
    /\ building \in [Threads -> Nat]
    /\ lock \in [Kinds -> Threads \cup {None}]
    /\ singleton \in [Kinds -> Nat]
    /\ hold \in [Threads -> [plat : Nat, dev : Nat, queue : Nat]]
    /\ platforms \in Seq(PlatformType)
    /\ devs \in Seq(DeviceType)
    /\ queues \in Seq(QueueType)
    /\ manager \in [id : Nat, ctx : Nat]
    /\ ctxs \in Nat

\* References point to objects that have been made.
References ==
    /\ \A t \in Threads : /\ hold[t].plat <= Len(platforms)
                          /\ hold[t].dev <= Len(devs)
                          /\ hold[t].queue <= Len(queues)
    /\ \A k \in Kinds : singleton[k] <= Len(platforms)
    /\ \A d \in DOMAIN devs : devs[d].plat \in DOMAIN platforms
    /\ \A q \in DOMAIN queues : queues[q].dev \in DOMAIN devs

\* A thread's queue is live and its own.
OwnQueues ==
    \A t \in Threads : hold[t].queue # 0 =>
        /\ queues[hold[t].queue].live
        /\ \A u \in Threads : hold[u].queue = hold[t].queue => u = t

\* Who asks for a device has a platform, no device, and a valid index.
Askers == \A t \in Threads : pc[t] \in {"resize", "device"} =>
              hold[t].plat # 0 /\ hold[t].dev = 0 /\ index[t] \in Indices

\* A device is alive as long as someone holds it.
AliveIsHeld == \A d \in DOMAIN devs :
                  devs[d].state = "alive" <=> DeviceHeld(d, hold, queues)

\* A device that is alive is the one in the cache of its platform.
AliveIsCached == \A d \in DOMAIN devs : devs[d].state = "alive" =>
                    platforms[devs[d].plat].cache[devs[d].idx] = d

\* A platform that is held is the singleton of its kind.
HeldIsSingleton == \A p \in DOMAIN platforms :
                      PlatformHeld(p) => singleton[platforms[p].kind] = p

Builders == {t \in Threads : pc[t] \in {"build", "insert"}}

\* A thread that builds a platform has the mutex of one kind, and the
\* singleton of that kind stays expired meanwhile.
OneBuilderPerKind ==
    /\ \A t \in Builders : \E k \in Kinds : lock[k] = t
    /\ \A k \in Kinds : lock[k] # None =>
          /\ lock[k] \in Builders
          /\ singleton[k] = 0 \/ ~PlatformHeld(singleton[k])
          /\ \A j \in Kinds : lock[j] = lock[k] => j = k

IInv == /\ Types /\ References /\ OwnQueues /\ Askers
        /\ AliveIsHeld /\ AliveIsCached
        /\ HeldIsSingleton /\ OneBuilderPerKind

-----------------------------------------------------------------------------
\* The invariant is enough: two devices that are alive and of one kind have
\* the same platform, and with the same index the same entry of its cache.
LEMMA InvariantSuffices == IInv => OneDevicePerIndex
<1> SUFFICES ASSUME IInv,
                    NEW d \in DOMAIN devs, NEW e \in DOMAIN devs,
                    devs[d].state = "alive", devs[e].state = "alive",
                    devs[d].idx = devs[e].idx,
                    platforms[devs[d].plat].kind = platforms[devs[e].plat].kind
             PROVE  d = e
  BY DEF OneDevicePerIndex
<1>1. PlatformHeld(devs[d].plat) /\ PlatformHeld(devs[e].plat)
  BY DEF PlatformHeld
<1>2. devs[d].plat = devs[e].plat
  BY <1>1 DEF IInv, HeldIsSingleton, References
<1> QED
  BY <1>2 DEF IInv, AliveIsCached

LEMMA Initially == Init => IInv
<1> SUFFICES ASSUME Init PROVE IInv
  OBVIOUS
<1>1. Types
  BY DEF Init, Types
<1>2. References /\ OwnQueues /\ Askers
  BY DEF Init, References, OwnQueues, Askers
<1>3. AliveIsHeld /\ AliveIsCached /\ HeldIsSingleton
  BY DEF Init, AliveIsHeld, AliveIsCached, HeldIsSingleton
<1>4. OneBuilderPerKind
  BY DEF Init, OneBuilderPerKind, Builders
<1> QED
  BY <1>1, <1>2, <1>3, <1>4 DEF IInv

\* A new platform: no other platform of its kind is held.
LEMMA NewPlatformKeeps ==
    ASSUME IInv, NEW t \in Threads, NEW p \in PlatformType, NewPlatform(t, p),
           singleton[p.kind] = 0 \/ ~PlatformHeld(singleton[p.kind]),
           UNCHANGED <<devs, queues>>
    PROVE  /\ platforms' \in Seq(PlatformType)
           /\ singleton' \in [Kinds -> Nat]
           /\ hold' \in [Threads -> [plat : Nat, dev : Nat, queue : Nat]]
           /\ References' /\ OwnQueues'
           /\ AliveIsHeld' /\ AliveIsCached' /\ HeldIsSingleton'
           /\ \A r \in DOMAIN platforms : PlatformHeld(r)' => PlatformHeld(r)
<1> DEFINE n == Len(platforms) + 1
<1>1. /\ platforms' \in Seq(PlatformType) /\ Len(platforms') = n /\ n \in Nat
      /\ DOMAIN platforms' = 1 .. n /\ DOMAIN platforms = 1 .. n - 1
      /\ platforms'[n] = p
      /\ \A r \in DOMAIN platforms : platforms'[r] = platforms[r]
  BY DEF NewPlatform, IInv, Types
<1>2. /\ singleton' = [singleton EXCEPT ![p.kind] = n]
      /\ hold' = [hold EXCEPT ![t].plat = n]
      /\ p.kind \in Kinds
  BY <1>1 DEF NewPlatform, PlatformType
<1>3. /\ singleton' \in [Kinds -> Nat]
      /\ hold' \in [Threads -> [plat : Nat, dev : Nat, queue : Nat]]
  BY <1>1, <1>2 DEF IInv, Types
<1>4. \A u \in Threads : /\ hold'[u].dev = hold[u].dev
                         /\ hold'[u].queue = hold[u].queue
                         /\ hold'[u].plat = IF u = t THEN n ELSE hold[u].plat
  BY <1>2 DEF IInv, Types
<1>5. References'
  <2>1. /\ DOMAIN devs' = DOMAIN devs /\ Len(devs') = Len(devs)
        /\ Len(queues') = Len(queues)
    OBVIOUS
  <2>2. ASSUME NEW u \in Threads
        PROVE  /\ hold'[u].plat <= n
               /\ hold'[u].dev <= Len(devs)
               /\ hold'[u].queue <= Len(queues)
    BY <1>1, <1>4, SMTT(30) DEF IInv, Types, References
  <2>3. ASSUME NEW k \in Kinds PROVE singleton'[k] <= n
    BY <1>1, <1>2 DEF IInv, Types, References
  <2>4. ASSUME NEW d \in DOMAIN devs PROVE devs[d].plat \in 1 .. n
    BY <1>1 DEF IInv, References
  <2> QED
    BY <1>1, <2>1, <2>2, <2>3, <2>4 DEF IInv, References
<1>6. OwnQueues'
  BY <1>4 DEF IInv, OwnQueues
<1>7. AliveIsHeld'
  BY <1>4 DEF IInv, AliveIsHeld, DeviceHeld
<1>8. AliveIsCached'
  BY <1>1 DEF IInv, References, AliveIsCached
<1>9. \A r \in DOMAIN platforms : PlatformHeld(r)' => PlatformHeld(r)
  BY <1>1, <1>4 DEF PlatformHeld
<1>10. HeldIsSingleton'
  <2> SUFFICES ASSUME NEW r \in 1 .. n, PlatformHeld(r)'
               PROVE  singleton'[platforms'[r].kind] = r
    BY <1>1 DEF HeldIsSingleton
  <2>1. CASE r = n
    BY <1>1, <1>2, <2>1 DEF IInv, Types
  <2>2. CASE r # n
    <3>1. r \in DOMAIN platforms /\ PlatformHeld(r) /\ platforms'[r] = platforms[r]
      BY <1>1, <1>9, <2>2
    <3>2. singleton[platforms[r].kind] = r /\ r # 0 /\ platforms[r].kind \in Kinds
      <4>1. platforms[r] \in PlatformType /\ r # 0
        BY <1>1, <3>1, ElementOfSeq DEF IInv, Types
      <4> QED
        BY <3>1, <4>1 DEF IInv, HeldIsSingleton, PlatformType
    <3>3. platforms[r].kind # p.kind
      BY <3>1, <3>2
    <3> QED
      BY <1>2, <3>1, <3>2, <3>3 DEF IInv, Types
  <2> QED
    BY <2>1, <2>2
<1> QED
  BY <1>1, <1>3, <1>5, <1>6, <1>7, <1>8, <1>9, <1>10

LEMMA MakePlatformKeeps ==
    ASSUME IInv, NEW t \in Threads, NEW k \in Kinds, MakePlatform(t, k)
    PROVE  IInv'
<1> DEFINE s == singleton[k]
<1>0. /\ pc[t] = "idle" /\ lock[k] = None /\ hold[t].plat = 0
      /\ UNCHANGED <<api, index, devs, queues, ctxs>>
      /\ t # None
  BY RegistryAssumption DEF MakePlatform, Begin
<1>1. CASE /\ s # 0 /\ PlatformHeld(s)
           /\ hold' = [hold EXCEPT ![t].plat = s]
           /\ UNCHANGED <<pc, lock, singleton, platforms, manager, building>>
  <2>1. \A u \in Threads : /\ hold'[u].dev = hold[u].dev
                           /\ hold'[u].queue = hold[u].queue
                           /\ hold'[u].plat = IF u = t THEN s ELSE hold[u].plat
    BY <1>1 DEF IInv, Types
  <2>2. \A r \in DOMAIN platforms : PlatformHeld(r)' <=> PlatformHeld(r)
    <3> SUFFICES ASSUME NEW r \in DOMAIN platforms
                 PROVE  PlatformHeld(r)' <=> PlatformHeld(r)
      OBVIOUS
    <3>1. r # 0
      BY DEF IInv, Types
    <3>2. ASSUME PlatformHeld(r)' PROVE PlatformHeld(r)
      BY <1>0, <1>1, <2>1, <3>2 DEF PlatformHeld
    <3>3. ASSUME PlatformHeld(r) PROVE PlatformHeld(r)'
      BY <1>0, <1>1, <2>1, <3>1, <3>3 DEF PlatformHeld
    <3> QED
      BY <3>2, <3>3
  <2>3. Types'
    BY <1>0, <1>1 DEF IInv, Types
  <2>4. References' /\ OwnQueues' /\ Askers'
    BY <1>0, <1>1, <2>1 DEF IInv, References, OwnQueues, Askers
  <2>5. AliveIsHeld' /\ AliveIsCached'
    BY <1>0, <1>1, <2>1 DEF IInv, AliveIsHeld, AliveIsCached, DeviceHeld
  <2>6. HeldIsSingleton'
    BY <1>0, <1>1, <2>2 DEF IInv, HeldIsSingleton
  <2>7. OneBuilderPerKind'
    BY <1>0, <1>1, <2>2, SMTT(30) DEF IInv, OneBuilderPerKind, Builders, Types, References
  <2> QED
    BY <2>3, <2>4, <2>5, <2>6, <2>7 DEF IInv
<1>2. CASE /\ s = 0 \/ ~PlatformHeld(s)
           /\ NewPlatform(t, Platform(k, 0, 0, 0))
           /\ UNCHANGED <<pc, lock, manager, building>>
  <2>1. Platform(k, 0, 0, 0) \in PlatformType /\ Platform(k, 0, 0, 0).kind = k
    BY DEF Platform, PlatformType
  <2>2. /\ platforms' \in Seq(PlatformType)
        /\ singleton' \in [Kinds -> Nat]
        /\ hold' \in [Threads -> [plat : Nat, dev : Nat, queue : Nat]]
        /\ References' /\ OwnQueues'
        /\ AliveIsHeld' /\ AliveIsCached' /\ HeldIsSingleton'
        /\ \A r \in DOMAIN platforms : PlatformHeld(r)' => PlatformHeld(r)
    BY <1>0, <1>2, <2>1, NewPlatformKeeps
  <2>3. Types'
    BY <1>0, <1>2, <2>2 DEF IInv, Types
  <2>4. Askers'
    BY <1>0, <1>2 DEF IInv, Types, Askers, NewPlatform
  <2>5. OneBuilderPerKind'
    <3>1. \A j \in Kinds : j # k => singleton'[j] = singleton[j]
      BY <1>2, <2>1 DEF NewPlatform, IInv, Types
    <3>2. Builders' = Builders
      BY <1>2 DEF Builders
    <3>3. ASSUME NEW j \in Kinds, lock[j] # None
          PROVE  (singleton[j] = 0 \/ ~PlatformHeld(singleton[j]))'
      <4>1. j # k /\ singleton'[j] = singleton[j]
        BY <1>0, <3>1, <3>3
      <4>2. singleton[j] = 0 \/ singleton[j] \in DOMAIN platforms
        BY DEF IInv, Types, References
      <4>3. singleton[j] = 0 \/ ~PlatformHeld(singleton[j])
        BY <3>3 DEF IInv, OneBuilderPerKind
      <4> QED
        BY <2>2, <4>1, <4>2, <4>3 DEF PlatformHeld
    <3>4. lock' = lock
      BY <1>2
    <3> QED
      BY <3>2, <3>3, <3>4 DEF IInv, OneBuilderPerKind
  <2> QED
    BY <2>2, <2>3, <2>4, <2>5 DEF IInv
<1>3. CASE /\ s = 0 \/ ~PlatformHeld(s)
           /\ lock' = [lock EXCEPT ![k] = t]
           /\ pc' = [pc EXCEPT ![t] = "build"]
           /\ IF manager.id # 0 /\ ManagerHeld(manager.id) THEN UNCHANGED manager
              ELSE manager' = [id |-> manager.id + 1, ctx |-> 0]
           /\ building' = [building EXCEPT ![t] = manager'.id]
           /\ UNCHANGED <<hold, singleton, platforms>>
  <2>1. manager' \in [id : Nat, ctx : Nat]
    BY <1>3 DEF IInv, Types
  <2>2. Types'
    BY <1>0, <1>3, <2>1 DEF IInv, Types
  <2>3. References' /\ OwnQueues' /\ Askers'
    BY <1>0, <1>3 DEF IInv, References, OwnQueues, Askers, Types
  <2>4. AliveIsHeld' /\ AliveIsCached'
    BY <1>0, <1>3 DEF IInv, AliveIsHeld, AliveIsCached, DeviceHeld
  <2>5. \A r : PlatformHeld(r)' <=> PlatformHeld(r)
    BY <1>0, <1>3 DEF PlatformHeld
  <2>6. HeldIsSingleton'
    BY <1>3, <2>5 DEF IInv, HeldIsSingleton
  <2>7. OneBuilderPerKind'
    <3>1. t \notin Builders /\ Builders' = Builders \cup {t}
      BY <1>0, <1>3 DEF Builders, IInv, Types
    <3>2. \A j \in Kinds : lock[j] # t
      BY <1>0, <3>1 DEF IInv, OneBuilderPerKind
    <3>3. \A j \in Kinds : lock'[j] = IF j = k THEN t ELSE lock[j]
      BY <1>3 DEF IInv, Types
    <3>4. ASSUME NEW u \in Builders' PROVE \E j \in Kinds : lock'[j] = u
      <4>1. CASE u = t
        BY <3>3, <4>1
      <4>2. CASE u # t
        <5>1. PICK j \in Kinds : lock[j] = u
          BY <3>1, <4>2 DEF IInv, OneBuilderPerKind
        <5>2. j # k
          BY <1>0, <3>1, <5>1, RegistryAssumption DEF Builders
        <5> QED
          BY <3>3, <5>1, <5>2
      <4> QED
        BY <4>1, <4>2
    <3>5. ASSUME NEW j \in Kinds, lock'[j] # None
          PROVE  /\ lock'[j] \in Builders'
                 /\ (singleton[j] = 0 \/ ~PlatformHeld(singleton[j]))'
      <4>1. singleton[j] = 0 \/ ~PlatformHeld(singleton[j])
        BY <1>3, <3>3, <3>5 DEF IInv, OneBuilderPerKind
      <4>2. (singleton[j] = 0 \/ ~PlatformHeld(singleton[j]))'
        BY <1>0, <1>3, <4>1 DEF PlatformHeld
      <4> QED
        BY <3>1, <3>3, <3>5, <4>2 DEF IInv, OneBuilderPerKind
    <3>6. ASSUME NEW j \in Kinds, NEW i \in Kinds, lock'[j] # None, lock'[i] = lock'[j]
          PROVE  i = j
      BY <3>2, <3>3, <3>6 DEF IInv, OneBuilderPerKind
    <3> QED
      BY <3>4, <3>5, <3>6 DEF OneBuilderPerKind
  <2> QED
    BY <2>2, <2>3, <2>4, <2>6, <2>7 DEF IInv
<1> QED
  BY <1>1, <1>2, <1>3 DEF MakePlatform

\* The constructor of a platform returns and its thread lets go of the mutex.
LEMMA BuiltKeeps ==
    ASSUME IInv, NEW t \in Builders, NEW c \in Nat, NEW size \in Nat,
           Built(t, c, size), UNCHANGED <<devs, queues, index>>,
           manager' \in [id : Nat, ctx : Nat], ctxs' \in Nat
    PROVE  IInv'
<1> DEFINE k == CHOOSE kind \in Kinds : lock[kind] = t
           p == Platform(k, building[t], c, size)
<1>1. k \in Kinds /\ lock[k] = t
  BY DEF IInv, OneBuilderPerKind
<1>2. /\ NewPlatform(t, p)
      /\ lock' = [lock EXCEPT ![k] = None]
      /\ building' = [building EXCEPT ![t] = 0]
      /\ pc' = [pc EXCEPT ![t] = "idle"]
  BY DEF Built
<1> HIDE DEF k
<1>3. t \in Threads /\ t # None
  BY RegistryAssumption DEF Builders
<1>4. p \in PlatformType /\ p.kind = k
  BY <1>1, <1>3 DEF Platform, PlatformType, IInv, Types
<1>5. singleton[k] = 0 \/ ~PlatformHeld(singleton[k])
  BY <1>1, <1>3 DEF IInv, OneBuilderPerKind
<1> HIDE DEF p
<1>6. /\ platforms' \in Seq(PlatformType)
      /\ singleton' \in [Kinds -> Nat]
      /\ hold' \in [Threads -> [plat : Nat, dev : Nat, queue : Nat]]
      /\ References' /\ OwnQueues'
      /\ AliveIsHeld' /\ AliveIsCached' /\ HeldIsSingleton'
      /\ \A r \in DOMAIN platforms : PlatformHeld(r)' => PlatformHeld(r)
  BY <1>2, <1>3, <1>4, <1>5, NewPlatformKeeps
<1>7. Types'
  BY <1>2, <1>3, <1>6 DEF IInv, Types
<1>8. Askers'
  BY <1>2, <1>3 DEF IInv, Types, Askers, NewPlatform
<1>9. OneBuilderPerKind'
  <2>1. Builders' = Builders \ {t}
    BY <1>2, <1>3 DEF Builders, IInv, Types
  <2>2. \A j \in Kinds : lock'[j] = IF j = k THEN None ELSE lock[j]
    BY <1>2 DEF IInv, Types
  <2>3. \A j \in Kinds : j # k => singleton'[j] = singleton[j]
    BY <1>2, <1>4 DEF NewPlatform, IInv, Types
  <2>4. ASSUME NEW u \in Builders' PROVE \E j \in Kinds : lock'[j] = u
    <3>1. u \in Builders /\ u # t
      BY <2>1
    <3>2. PICK j \in Kinds : lock[j] = u
      BY <3>1 DEF IInv, OneBuilderPerKind
    <3> QED
      BY <1>1, <2>2, <3>1, <3>2
  <2>5. ASSUME NEW j \in Kinds, lock'[j] # None
        PROVE  /\ lock'[j] \in Builders'
               /\ (singleton[j] = 0 \/ ~PlatformHeld(singleton[j]))'
               /\ \A i \in Kinds : lock'[i] = lock'[j] => i = j
    <3>1. j # k /\ lock'[j] = lock[j] /\ lock[j] # None
      BY <2>2, <2>5
    <3>2. lock[j] # t /\ lock[j] \in Builders
      BY <1>1, <3>1 DEF IInv, OneBuilderPerKind
    <3>3. /\ singleton[j] = 0 \/ singleton[j] \in DOMAIN platforms
          /\ singleton[j] = 0 \/ ~PlatformHeld(singleton[j])
      BY <3>1 DEF IInv, OneBuilderPerKind, Types, References
    <3>4. (singleton[j] = 0 \/ ~PlatformHeld(singleton[j]))'
      <4>1. singleton'[j] = singleton[j]
        BY <2>3, <3>1
      <4>2. CASE singleton[j] = 0
        BY <4>1, <4>2
      <4>3. CASE singleton[j] # 0
        <5>1. ~PlatformHeld(singleton[j]) /\ singleton[j] \in DOMAIN platforms
          BY <3>3, <4>3
        <5>2. ASSUME PlatformHeld(singleton[j])' PROVE FALSE
          BY <1>6, <4>1, <5>1, <5>2 DEF PlatformHeld
        <5> QED
          BY <5>2
      <4> QED
        BY <4>2, <4>3
    <3>5. \A i \in Kinds : lock'[i] = lock'[j] => i = j
      BY <2>2, <2>5, <3>1 DEF IInv, OneBuilderPerKind
    <3> QED
      BY <2>1, <3>1, <3>2, <3>4, <3>5
  <2> QED
    BY <2>4, <2>5 DEF OneBuilderPerKind
<1> QED
  BY <1>6, <1>7, <1>8, <1>9 DEF IInv

LEMMA BuildPlatformKeeps ==
    ASSUME IInv, NEW t \in Threads, BuildPlatform(t)
    PROVE  IInv'
<1>1. t \in Builders
  BY DEF BuildPlatform, Builders
<1>2. /\ manager' \in [id : Nat, ctx : Nat] /\ ctxs' \in Nat
      /\ NumDevices \in Nat /\ manager.ctx \in Nat
  BY RegistryAssumption DEF BuildPlatform, IInv, Types
<1>3. CASE Built(t, 0, 0) \/ Built(t, manager.ctx, NumDevices)
  BY <1>1, <1>2, <1>3, BuiltKeeps DEF BuildPlatform
<1>4. CASE /\ pc' = [pc EXCEPT ![t] = "insert"]
           /\ UNCHANGED <<hold, lock, singleton, platforms, building>>
  <2>1. UNCHANGED <<index, devs, queues, manager, ctxs>>
    BY DEF BuildPlatform
  <2>2. Types'
    BY <1>4, <2>1 DEF IInv, Types
  <2>3. References' /\ OwnQueues' /\ Askers'
    BY <1>4, <2>1 DEF IInv, References, OwnQueues, Askers, Types
  <2>4. AliveIsHeld' /\ AliveIsCached' /\ HeldIsSingleton'
    BY <1>4, <2>1 DEF IInv, AliveIsHeld, AliveIsCached, HeldIsSingleton,
                      DeviceHeld, PlatformHeld
  <2>5. OneBuilderPerKind'
    <3>1. Builders' = Builders
      BY <1>1, <1>4 DEF Builders, IInv, Types
    <3> QED
      BY <1>4, <2>1, <3>1 DEF IInv, OneBuilderPerKind, PlatformHeld
  <2> QED
    BY <2>2, <2>3, <2>4, <2>5 DEF IInv
<1> QED
  BY <1>3, <1>4 DEF BuildPlatform

LEMMA InsertContextKeeps ==
    ASSUME IInv, NEW t \in Threads, InsertContext(t)
    PROVE  IInv'
<1>1. t \in Builders
  BY DEF InsertContext, Builders
<1>2. ctxs' \in Nat /\ manager' \in [id : Nat, ctx : Nat] /\ NumDevices \in Nat
  <2>1. ctxs' = ctxs + 1 /\ ctxs \in Nat /\ manager \in [id : Nat, ctx : Nat]
    BY DEF InsertContext, IInv, Types
  <2>2. manager' = [manager EXCEPT !.ctx = ctxs']
    BY DEF InsertContext
  <2>3. NumDevices \in Nat
    BY RegistryAssumption
  <2> QED
    BY <2>1, <2>2, <2>3
<1>3. PICK c \in Nat, size \in Nat : Built(t, c, size)
  BY <1>2 DEF InsertContext
<1> QED
  BY <1>1, <1>2, <1>3, BuiltKeeps DEF InsertContext

-----------------------------------------------------------------------------
\* A step that leaves handles, singletons, mutexes and objects alone.
LEMMA LocalStep ==
    ASSUME IInv, NEW t \in Threads,
           pc[t] \notin {"build", "insert"},
           NEW next \in {"idle", "resize", "device"},
           pc' = [pc EXCEPT ![t] = next],
           index' \in [Threads -> Nat],
           \A u \in Threads \ {t} : index'[u] = index[u],
           next # "idle" => /\ hold[t].plat # 0 /\ hold[t].dev = 0
                            /\ index'[t] \in Indices,
           UNCHANGED <<hold, lock, singleton, devs, queues, manager, ctxs, building>>,
           platforms' \in Seq(PlatformType), Len(platforms') = Len(platforms),
           \A p \in DOMAIN platforms : /\ platforms'[p].kind = platforms[p].kind
                                       /\ platforms'[p].cache = platforms[p].cache
    PROVE  IInv'
<1>1. DOMAIN platforms' = DOMAIN platforms
  BY DEF IInv, Types
<1>2. Types'
  BY DEF IInv, Types
<1>3. References' /\ OwnQueues'
  BY <1>1 DEF IInv, References, OwnQueues
<1>4. Askers'
  BY DEF IInv, Types, Askers
<1>5. AliveIsHeld'
  BY DEF IInv, AliveIsHeld, DeviceHeld
<1>6. AliveIsCached'
  BY DEF IInv, AliveIsCached, References
<1>7. HeldIsSingleton'
  BY <1>1 DEF IInv, HeldIsSingleton, PlatformHeld
<1>8. OneBuilderPerKind'
  <2>1. Builders' = Builders
    BY DEF Builders, IInv, Types
  <2> QED
    BY <2>1 DEF IInv, OneBuilderPerKind, PlatformHeld
<1> QED
  BY <1>2, <1>3, <1>4, <1>5, <1>6, <1>7, <1>8 DEF IInv

LEMMA GetDeviceCountKeeps ==
    ASSUME IInv, NEW t \in Threads, NEW i \in Indices, GetDeviceCount(t, i)
    PROVE  IInv'
<1>1. /\ pc[t] = "idle" /\ hold[t].plat # 0 /\ hold[t].dev = 0
      /\ index' = [index EXCEPT ![t] = i] /\ i \in Nat
      /\ UNCHANGED <<hold, lock, singleton, platforms, devs, queues, manager, ctxs, building>>
  BY RegistryAssumption DEF GetDeviceCount, Begin, Indices
<1>2. PICK next \in {"idle", "resize", "device"} : pc' = [pc EXCEPT ![t] = next]
  BY <1>1 DEF GetDeviceCount, IInv, Types
<1>3. /\ index' \in [Threads -> Nat] /\ index'[t] = i
      /\ \A u \in Threads \ {t} : index'[u] = index[u]
  BY <1>1 DEF IInv, Types
<1>4. platforms' \in Seq(PlatformType)
  BY <1>1 DEF IInv, Types
<1> QED
  BY <1>1, <1>2, <1>3, <1>4, LocalStep

LEMMA ResizeKeeps ==
    ASSUME IInv, NEW t \in Threads, Resize(t)
    PROVE  IInv'
<1> DEFINE p == hold[t].plat
<1>1. /\ pc[t] = "resize" /\ pc' = [pc EXCEPT ![t] = "device"]
      /\ platforms' = [platforms EXCEPT ![p].size = NumDevices]
      /\ NumDevices \in Nat
      /\ UNCHANGED <<hold, index, lock, singleton, devs, queues, manager, ctxs, building>>
  BY RegistryAssumption DEF Resize
<1>2. p # 0 /\ hold[t].dev = 0 /\ index[t] \in Indices
  BY <1>1 DEF IInv, Askers
<1>3. p \in 1 .. Len(platforms)
  BY <1>2 DEF IInv, Types, References
<1>4. platforms[p] \in PlatformType
  BY <1>3, ElementOfSeq DEF IInv, Types
<1> DEFINE new == [platforms[p] EXCEPT !.size = NumDevices]
<1>5. /\ new \in PlatformType
      /\ new.kind = platforms[p].kind /\ new.cache = platforms[p].cache
  BY <1>1, <1>4 DEF PlatformType
<1>6. platforms' = [platforms EXCEPT ![p] = new]
  BY <1>1
<1> HIDE DEF new
<1>7. /\ platforms' \in Seq(PlatformType)
      /\ Len(platforms') = Len(platforms)
      /\ \A r \in 1 .. Len(platforms) :
            platforms'[r] = IF r = p THEN new ELSE platforms[r]
  BY <1>3, <1>5, <1>6, ExceptSeq DEF IInv, Types
<1>8. \A r \in DOMAIN platforms : /\ platforms'[r].kind = platforms[r].kind
                                  /\ platforms'[r].cache = platforms[r].cache
  <2>1. DOMAIN platforms = 1 .. Len(platforms)
    BY DEF IInv, Types
  <2> QED
    BY <1>5, <1>7, <2>1
<1>9. index' \in [Threads -> Nat]
  BY <1>1 DEF IInv, Types
<1> QED
  BY <1>1, <1>2, <1>7, <1>8, <1>9, LocalStep

-----------------------------------------------------------------------------
\* As long as no platform becomes held again, singletons stay what they are.
LEMMA SingletonsKeep ==
    ASSUME IInv, NEW t \in Threads, pc[t] \notin {"build", "insert"},
           NEW next \in {"idle", "reset"}, pc' = [pc EXCEPT ![t] = next],
           UNCHANGED <<lock, singleton>>,
           DOMAIN platforms' = DOMAIN platforms,
           \A r \in DOMAIN platforms : /\ platforms'[r].kind = platforms[r].kind
                                       /\ PlatformHeld(r)' => PlatformHeld(r)
    PROVE  HeldIsSingleton' /\ OneBuilderPerKind'
<1>1. HeldIsSingleton'
  BY DEF IInv, HeldIsSingleton
<1>2. Builders' = Builders
  BY DEF Builders, IInv, Types
<1>3. ASSUME NEW k \in Kinds, lock[k] # None
      PROVE  (singleton[k] = 0 \/ ~PlatformHeld(singleton[k]))'
  <2>1. /\ singleton[k] = 0 \/ singleton[k] \in DOMAIN platforms
        /\ singleton[k] = 0 \/ ~PlatformHeld(singleton[k])
    BY <1>3 DEF IInv, OneBuilderPerKind, Types, References
  <2>2. CASE singleton[k] = 0
    BY <2>2
  <2>3. CASE singleton[k] # 0
    <3>1. ASSUME PlatformHeld(singleton[k])' PROVE FALSE
      BY <2>1, <2>3, <3>1 DEF PlatformHeld
    <3> QED
      BY <3>1
  <2> QED
    BY <2>2, <2>3
<1> QED
  BY <1>1, <1>2, <1>3 DEF IInv, OneBuilderPerKind

LEMMA MakeQueueKeeps ==
    ASSUME IInv, NEW t \in Threads, MakeQueue(t)
    PROVE  IInv'
<1> DEFINE d == hold[t].dev
           n == Len(queues) + 1
           q == [dev |-> d, live |-> TRUE, lost |-> FALSE]
<1>1. /\ pc[t] = "idle" /\ d # 0 /\ hold[t].queue = 0
      /\ queues' = Append(queues, q)
      /\ hold' = [hold EXCEPT ![t].queue = Len(queues')]
      /\ UNCHANGED <<pc, index, lock, singleton, platforms, devs, manager, ctxs, building>>
  BY DEF MakeQueue, Begin
<1>2. d \in DOMAIN devs /\ d \in Nat
  BY <1>1 DEF IInv, Types, References
<1>3. q \in QueueType
  BY <1>2 DEF QueueType
<1>4. /\ queues' \in Seq(QueueType) /\ Len(queues') = n /\ n \in Nat
      /\ DOMAIN queues' = 1 .. n /\ DOMAIN queues = 1 .. n - 1
      /\ queues'[n] = q
      /\ \A r \in DOMAIN queues : queues'[r] = queues[r]
  BY <1>1, <1>3 DEF IInv, Types
<1>5. /\ hold' \in [Threads -> [plat : Nat, dev : Nat, queue : Nat]]
      /\ \A u \in Threads : /\ hold'[u].dev = hold[u].dev
                            /\ hold'[u].plat = hold[u].plat
                            /\ hold'[u].queue = IF u = t THEN n ELSE hold[u].queue
  BY <1>1, <1>4 DEF IInv, Types
<1>6. Types'
  BY <1>1, <1>4, <1>5 DEF IInv, Types
<1>7. References'
  <2>1. \A r \in DOMAIN queues' : queues'[r].dev \in DOMAIN devs
    BY <1>2, <1>4 DEF IInv, References
  <2>2. \A u \in Threads : hold'[u].queue <= n
    <3> SUFFICES ASSUME NEW u \in Threads PROVE hold'[u].queue <= n
      OBVIOUS
    <3>1. hold[u].queue \in Nat /\ hold[u].queue <= Len(queues) /\ Len(queues) = n - 1
      BY <1>4 DEF IInv, Types, References
    <3> QED
      BY <1>4, <1>5, <3>1
  <2> QED
    BY <1>1, <1>4, <1>5, <2>1, <2>2 DEF IInv, References
<1>8. OwnQueues'
  <2>1. ASSUME NEW u \in Threads PROVE hold[u].queue \in 0 .. n - 1
    <3>1. hold[u].queue \in Nat /\ hold[u].queue <= Len(queues) /\ Len(queues) = n - 1
      BY <1>4 DEF IInv, Types, References
    <3> QED
      BY <1>4, <3>1
  <2>2. ASSUME NEW u \in Threads, hold'[u].queue # 0
        PROVE  /\ queues'[hold'[u].queue].live
               /\ \A w \in Threads : hold'[w].queue = hold'[u].queue => w = u
    <3>1. CASE u = t
      BY <1>4, <1>5, <2>1, <3>1
    <3>2. CASE u # t
      <4>1. hold'[u].queue = hold[u].queue /\ hold[u].queue \in 1 .. n - 1
        BY <1>4, <1>5, <2>1, <2>2, <3>2
      <4> QED
        BY <1>4, <1>5, <4>1 DEF IInv, OwnQueues
    <3> QED
      BY <3>1, <3>2
  <2> QED
    BY <2>2 DEF OwnQueues
<1>9. Askers'
  BY <1>1, <1>5 DEF IInv, Askers
<1>10. \A e \in DOMAIN devs : DeviceHeld(e, hold, queues)' <=> DeviceHeld(e, hold, queues)
  BY <1>1, <1>4, <1>5 DEF DeviceHeld
<1>11. AliveIsHeld' /\ AliveIsCached'
  BY <1>1, <1>10 DEF IInv, AliveIsHeld, AliveIsCached
<1>12. \A r \in DOMAIN platforms : PlatformHeld(r)' => PlatformHeld(r)
  BY <1>1, <1>5 DEF PlatformHeld
<1>13. HeldIsSingleton' /\ OneBuilderPerKind'
  <2>1. pc' = [pc EXCEPT ![t] = "idle"]
    BY <1>1 DEF IInv, Types
  <2> QED
    BY <1>1, <1>12, <2>1, SingletonsKeep
<1> QED
  BY <1>6, <1>7, <1>8, <1>9, <1>11, <1>13 DEF IInv

LEMMA DropPlatformKeeps ==
    ASSUME IInv, NEW t \in Threads, DropPlatform(t)
    PROVE  IInv'
<1>1. /\ pc[t] = "idle"
      /\ hold' = [hold EXCEPT ![t].plat = 0]
      /\ UNCHANGED <<pc, index, lock, singleton, platforms, devs, queues, manager, ctxs, building>>
  BY DEF DropPlatform
<1>2. /\ hold' \in [Threads -> [plat : Nat, dev : Nat, queue : Nat]]
      /\ \A u \in Threads : /\ hold'[u].dev = hold[u].dev
                            /\ hold'[u].queue = hold[u].queue
                            /\ hold'[u].plat = IF u = t THEN 0 ELSE hold[u].plat
  BY <1>1 DEF IInv, Types
<1>3. Types'
  BY <1>1, <1>2 DEF IInv, Types
<1>4. References' /\ OwnQueues' /\ Askers'
  <2>1. References'
    BY <1>1, <1>2 DEF IInv, Types, References
  <2>2. OwnQueues'
    BY <1>1, <1>2 DEF IInv, OwnQueues
  <2>3. Askers'
    BY <1>1, <1>2 DEF IInv, Askers
  <2> QED
    BY <2>1, <2>2, <2>3
<1>5. AliveIsHeld' /\ AliveIsCached'
  BY <1>1, <1>2 DEF IInv, AliveIsHeld, AliveIsCached, DeviceHeld
<1>6. ASSUME NEW r \in DOMAIN platforms, PlatformHeld(r)' PROVE PlatformHeld(r)
  <2>1. r # 0
    BY DEF IInv, Types
  <2> QED
    BY <1>1, <1>2, <1>6, <2>1 DEF PlatformHeld
<1>7. HeldIsSingleton' /\ OneBuilderPerKind'
  <2>1. pc' = [pc EXCEPT ![t] = "idle"]
    BY <1>1 DEF IInv, Types
  <2> QED
    BY <1>1, <1>6, <2>1, SingletonsKeep
<1> QED
  BY <1>3, <1>4, <1>5, <1>7 DEF IInv

LEMMA MakeDeviceKeeps ==
    ASSUME IInv, NEW t \in Threads, MakeDevice(t)
    PROVE  IInv'
<1> DEFINE p == hold[t].plat
           i == index[t]
           cached == platforms[p].cache[i]
           n == Len(devs) + 1
           new == [plat |-> p, idx |-> i, state |-> "alive"]
<1>1. /\ pc[t] = "device" /\ pc' = [pc EXCEPT ![t] = "idle"]
      /\ UNCHANGED <<index, lock, singleton, queues, manager, ctxs, building>>
  BY DEF MakeDevice
<1>2. /\ p \in DOMAIN platforms /\ p # 0 /\ hold[t].dev = 0
      /\ i \in Indices /\ platforms[p] \in PlatformType /\ cached \in Nat
  <2>1. p # 0 /\ hold[t].dev = 0 /\ i \in Indices
    BY <1>1 DEF IInv, Askers
  <2>2. p \in 1 .. Len(platforms)
    BY <2>1 DEF IInv, Types, References
  <2>3. platforms[p] \in PlatformType
    BY <2>2, ElementOfSeq DEF IInv, Types
  <2>4. cached \in Nat
    BY <2>1, <2>3 DEF PlatformType
  <2>5. p \in DOMAIN platforms
    BY <2>2 DEF IInv, Types
  <2> QED
    BY <2>1, <2>3, <2>4, <2>5
<1>3. CASE /\ cached # 0 /\ DeviceHeld(cached, hold, queues)
           /\ hold' = [hold EXCEPT ![t].dev = cached]
           /\ UNCHANGED <<devs, platforms>>
  <2>1. cached \in DOMAIN devs
    BY <1>2, <1>3 DEF DeviceHeld, IInv, Types, References
  <2>2. /\ hold' \in [Threads -> [plat : Nat, dev : Nat, queue : Nat]]
        /\ \A u \in Threads : /\ hold'[u].plat = hold[u].plat
                              /\ hold'[u].queue = hold[u].queue
                              /\ hold'[u].dev = IF u = t THEN cached ELSE hold[u].dev
    BY <1>2, <1>3 DEF IInv, Types
  <2>3. Types'
    BY <1>1, <1>3, <2>2 DEF IInv, Types
  <2>4. References'
    <3>1. cached <= Len(devs)
      BY <2>1 DEF IInv, Types
    <3>2. \A u \in Threads : /\ hold'[u].plat <= Len(platforms)
                             /\ hold'[u].dev <= Len(devs)
                             /\ hold'[u].queue <= Len(queues)
      BY <2>2, <3>1 DEF IInv, References
    <3> QED
      BY <1>1, <1>3, <3>2 DEF IInv, References
  <2>5. OwnQueues'
    BY <1>1, <2>2 DEF IInv, OwnQueues
  <2>6. Askers'
    BY <1>1, <2>2 DEF IInv, Types, Askers
  <2>7. ASSUME NEW e \in DOMAIN devs
        PROVE  DeviceHeld(e, hold, queues)' <=> DeviceHeld(e, hold, queues)
    <3>1. e # 0
      BY DEF IInv, Types
    <3>2. ASSUME DeviceHeld(e, hold, queues)' PROVE DeviceHeld(e, hold, queues)
      BY <1>1, <1>3, <2>2, <3>2 DEF DeviceHeld
    <3>3. ASSUME DeviceHeld(e, hold, queues) PROVE DeviceHeld(e, hold, queues)'
      BY <1>1, <1>2, <2>2, <3>1, <3>3 DEF DeviceHeld
    <3> QED
      BY <3>2, <3>3
  <2>8. AliveIsHeld' /\ AliveIsCached'
    BY <1>3, <2>7 DEF IInv, AliveIsHeld, AliveIsCached
  <2>9. \A r \in DOMAIN platforms : PlatformHeld(r)' => PlatformHeld(r)
    BY <1>3, <2>2 DEF PlatformHeld
  <2>10. HeldIsSingleton' /\ OneBuilderPerKind'
    BY <1>1, <1>3, <2>9, SingletonsKeep
  <2> QED
    BY <2>3, <2>4, <2>5, <2>6, <2>8, <2>10 DEF IInv
<1>4. CASE /\ cached = 0 \/ ~DeviceHeld(cached, hold, queues)
           /\ devs' = Append(devs, new)
           /\ platforms' = [platforms EXCEPT ![p].cache[i] = Len(devs')]
           /\ hold' = [hold EXCEPT ![t].dev = Len(devs')]
  <2>1. /\ new \in DeviceType
        /\ devs' \in Seq(DeviceType) /\ Len(devs') = n /\ n \in Nat
        /\ DOMAIN devs' = 1 .. n /\ DOMAIN devs = 1 .. n - 1
        /\ devs'[n] = new
        /\ \A e \in DOMAIN devs : devs'[e] = devs[e]
    BY <1>2, <1>4 DEF IInv, Types, DeviceType
  <2> DEFINE pnew == [platforms[p] EXCEPT !.cache[i] = n]
  <2>2. /\ pnew \in PlatformType /\ pnew.kind = platforms[p].kind
        /\ \A j \in Indices : pnew.cache[j] = IF j = i THEN n ELSE platforms[p].cache[j]
        /\ platforms' = [platforms EXCEPT ![p] = pnew]
    BY <1>2, <1>4, <2>1 DEF PlatformType
  <2> HIDE DEF pnew
  <2>3. /\ platforms' \in Seq(PlatformType) /\ Len(platforms') = Len(platforms)
        /\ DOMAIN platforms' = DOMAIN platforms
        /\ \A r \in DOMAIN platforms : platforms'[r] = IF r = p THEN pnew ELSE platforms[r]
    <3>1. p \in 1 .. Len(platforms) /\ DOMAIN platforms = 1 .. Len(platforms)
      BY <1>2 DEF IInv, Types
    <3>2. /\ platforms' \in Seq(PlatformType) /\ Len(platforms') = Len(platforms)
          /\ \A r \in 1 .. Len(platforms) : platforms'[r] = IF r = p THEN pnew ELSE platforms[r]
      BY <2>2, <3>1, ExceptSeq DEF IInv, Types
    <3> QED
      BY <3>1, <3>2
  <2>4. /\ hold' \in [Threads -> [plat : Nat, dev : Nat, queue : Nat]]
        /\ \A u \in Threads : /\ hold'[u].plat = hold[u].plat
                              /\ hold'[u].queue = hold[u].queue
                              /\ hold'[u].dev = IF u = t THEN n ELSE hold[u].dev
    BY <1>4, <2>1 DEF IInv, Types
  <2>5. Types'
    BY <1>1, <2>1, <2>3, <2>4 DEF IInv, Types
  <2>6. References'
    <3>1. ASSUME NEW u \in Threads
          PROVE  hold'[u].plat <= Len(platforms) /\ hold'[u].dev <= n
                 /\ hold'[u].queue <= Len(queues)
      <4>1. hold[u].dev \in Nat /\ hold[u].dev <= Len(devs) /\ Len(devs) = n - 1
        BY <2>1 DEF IInv, Types, References
      <4>2. hold'[u].dev <= n
        BY <2>1, <2>4, <4>1
      <4> QED
        BY <2>4, <4>2 DEF IInv, References
    <3>2. ASSUME NEW e \in DOMAIN devs' PROVE devs'[e].plat \in DOMAIN platforms
      <4>1. CASE e = n
        BY <1>2, <2>1, <4>1
      <4>2. CASE e # n
        BY <2>1, <4>2 DEF IInv, References
      <4> QED
        BY <4>1, <4>2
    <3>3. ASSUME NEW q \in DOMAIN queues PROVE queues[q].dev \in DOMAIN devs'
      <4>1. queues[q].dev \in DOMAIN devs
        BY DEF IInv, References
      <4> QED
        BY <2>1, <4>1
    <3> QED
      BY <1>1, <2>1, <2>3, <3>1, <3>2, <3>3 DEF IInv, References
  <2>7. OwnQueues'
    BY <1>1, <2>4 DEF IInv, OwnQueues
  <2>8. Askers'
    BY <1>1, <2>4 DEF IInv, Types, Askers
  <2>9. ASSUME NEW e \in DOMAIN devs
        PROVE  DeviceHeld(e, hold, queues)' <=> DeviceHeld(e, hold, queues)
    <3>1. e # 0 /\ e # n
      BY <2>1
    <3>2. ASSUME DeviceHeld(e, hold, queues)' PROVE DeviceHeld(e, hold, queues)
      BY <1>1, <2>4, <3>1, <3>2 DEF DeviceHeld
    <3>3. ASSUME DeviceHeld(e, hold, queues) PROVE DeviceHeld(e, hold, queues)'
      BY <1>1, <1>2, <2>4, <3>1, <3>3 DEF DeviceHeld
    <3> QED
      BY <3>2, <3>3
  <2>10. hold'[t].dev = n
    BY <2>4
  <2>11. AliveIsHeld'
    <3> SUFFICES ASSUME NEW e \in DOMAIN devs'
                 PROVE  devs'[e].state = "alive" <=> DeviceHeld(e, hold, queues)'
      BY DEF AliveIsHeld
    <3>1. CASE e = n
      BY <2>1, <2>10, <3>1 DEF DeviceHeld
    <3>2. CASE e # n
      BY <2>1, <2>9, <3>2 DEF IInv, AliveIsHeld
    <3> QED
      BY <3>1, <3>2
  <2>12. AliveIsCached'
    <3> SUFFICES ASSUME NEW e \in DOMAIN devs', devs'[e].state = "alive"
                 PROVE  platforms'[devs'[e].plat].cache[devs'[e].idx] = e
      BY DEF AliveIsCached
    <3>1. CASE e = n
      BY <1>2, <2>1, <2>2, <2>3, <3>1
    <3>2. CASE e # n
      <4>1. /\ e \in DOMAIN devs /\ devs'[e] = devs[e] /\ e # 0
            /\ devs[e].plat \in DOMAIN platforms /\ devs[e].idx \in Indices
        <5>1. e \in DOMAIN devs /\ devs[e] \in DeviceType
          BY <2>1, <3>2, ElementOfSeq DEF IInv, Types
        <5> QED
          BY <2>1, <5>1 DEF DeviceType, IInv, References
      <4>2. /\ platforms[devs[e].plat].cache[devs[e].idx] = e
            /\ DeviceHeld(e, hold, queues)
        BY <4>1 DEF IInv, AliveIsCached, AliveIsHeld
      <4>3. ~(devs[e].plat = p /\ devs[e].idx = i)
        BY <1>4, <4>1, <4>2
      <4> QED
        BY <2>2, <2>3, <4>1, <4>2, <4>3
    <3> QED
      BY <3>1, <3>2
  <2>13. ASSUME NEW r \in DOMAIN platforms, PlatformHeld(r)' PROVE PlatformHeld(r)
    <3>1. CASE \E u \in Threads : hold'[u].plat = r
      BY <2>4, <3>1 DEF PlatformHeld
    <3>2. CASE \E e \in DOMAIN devs' : devs'[e].plat = r /\ devs'[e].state # "dead"
      <4>1. PICK e \in DOMAIN devs' : devs'[e].plat = r /\ devs'[e].state # "dead"
        BY <3>2
      <4>2. CASE e = n
        BY <2>1, <4>1, <4>2 DEF PlatformHeld
      <4>3. CASE e # n
        BY <2>1, <4>1, <4>3 DEF PlatformHeld
      <4> QED
        BY <4>2, <4>3
    <3> QED
      BY <2>13, <3>1, <3>2 DEF PlatformHeld
  <2>14. HeldIsSingleton' /\ OneBuilderPerKind'
    <3>1. \A r \in DOMAIN platforms : platforms'[r].kind = platforms[r].kind
      BY <2>2, <2>3
    <3> QED
      BY <1>1, <2>3, <2>13, <3>1, SingletonsKeep
  <2> QED
    BY <2>5, <2>6, <2>7, <2>8, <2>11, <2>12, <2>14 DEF IInv
<1> QED
  BY <1>3, <1>4 DEF MakeDevice

-----------------------------------------------------------------------------
\* A handle of device d goes away, and with the last one the device.
LEMMA ReleaseKeeps ==
    ASSUME IInv, NEW t \in Threads, pc[t] = "idle",
           NEW d \in DOMAIN devs, DeviceHeld(d, hold, queues), Release(t, d),
           UNCHANGED <<lock, singleton, platforms, manager, ctxs, building>>,
           index' \in [Threads -> Nat],
           \A u \in Threads \ {t} : index'[u] = index[u],
           hold' \in [Threads -> [plat : Nat, dev : Nat, queue : Nat]],
           \A u \in Threads : /\ hold'[u].plat = hold[u].plat
                              /\ hold'[u].dev = hold[u].dev \/ hold'[u].dev = 0
                              /\ hold'[u].queue = hold[u].queue \/ hold'[u].queue = 0
                              /\ u # t => hold'[u] = hold[u],
           queues' \in Seq(QueueType), DOMAIN queues' = DOMAIN queues,
           Len(queues') = Len(queues),
           \A q \in DOMAIN queues : queues'[q].dev = queues[q].dev,
           OwnQueues',
           \A e \in DOMAIN devs \ {d} :
              DeviceHeld(e, hold', queues') <=> DeviceHeld(e, hold, queues)
    PROVE  IInv'
<1> DEFINE gone == IF api = "cuda" THEN "dying" ELSE "dead"
           new == [devs[d] EXCEPT !.state = gone]
<1>1. d \in 1 .. Len(devs) /\ devs[d] \in DeviceType
  <2>1. d \in 1 .. Len(devs)
    BY DEF IInv, Types
  <2> QED
    BY <2>1, ElementOfSeq DEF IInv, Types
<1>2. new \in DeviceType /\ new.plat = devs[d].plat /\ new.idx = devs[d].idx
      /\ new.state # "alive"
  BY <1>1 DEF DeviceType
<1>3. devs[d].state = "alive"
  BY DEF IInv, AliveIsHeld
<1>4. \/ DeviceHeld(d, hold', queues') /\ devs' = devs /\ pc' = pc
      \/ /\ ~DeviceHeld(d, hold', queues') /\ devs' = [devs EXCEPT ![d] = new]
         /\ pc' = pc \/ pc' = [pc EXCEPT ![t] = "reset"]
  BY DEF Release
<1> HIDE DEF new
<1>5. /\ devs' \in Seq(DeviceType) /\ Len(devs') = Len(devs)
      /\ DOMAIN devs' = DOMAIN devs
      /\ \A e \in DOMAIN devs \ {d} : devs'[e] = devs[e]
      /\ devs'[d].plat = devs[d].plat /\ devs'[d].idx = devs[d].idx
      /\ devs'[d].state = "alive" <=> DeviceHeld(d, hold', queues')
  <2>1. CASE DeviceHeld(d, hold', queues') /\ devs' = devs
    BY <1>3, <2>1 DEF IInv, Types
  <2>2. CASE ~DeviceHeld(d, hold', queues') /\ devs' = [devs EXCEPT ![d] = new]
    <3>1. /\ devs' \in Seq(DeviceType) /\ Len(devs') = Len(devs)
          /\ \A e \in 1 .. Len(devs) : devs'[e] = IF e = d THEN new ELSE devs[e]
      BY <1>1, <1>2, <2>2, ExceptSeq DEF IInv, Types
    <3>2. DOMAIN devs = 1 .. Len(devs) /\ DOMAIN devs' = 1 .. Len(devs)
      BY <3>1 DEF IInv, Types
    <3> QED
      BY <1>1, <1>2, <2>2, <3>1, <3>2
  <2> QED
    BY <1>4, <2>1, <2>2
<1>6. PICK next \in {"idle", "reset"} : pc' = [pc EXCEPT ![t] = next]
  BY <1>4 DEF IInv, Types
<1>7. Types'
  BY <1>5, <1>6 DEF IInv, Types
<1>8. References'
  <2>1. \A u \in Threads : /\ hold'[u].plat <= Len(platforms)
                           /\ hold'[u].dev <= Len(devs)
                           /\ hold'[u].queue <= Len(queues)
    <3> SUFFICES ASSUME NEW u \in Threads
                 PROVE  /\ hold'[u].plat <= Len(platforms)
                        /\ hold'[u].dev <= Len(devs)
                        /\ hold'[u].queue <= Len(queues)
      OBVIOUS
    <3>1. Len(devs) \in Nat /\ Len(queues) \in Nat
      BY DEF IInv, Types
    <3>2. /\ hold[u].plat <= Len(platforms)
          /\ hold[u].dev <= Len(devs)
          /\ hold[u].queue <= Len(queues)
      BY DEF IInv, References
    <3>3. /\ hold'[u].plat = hold[u].plat
          /\ hold'[u].dev = hold[u].dev \/ hold'[u].dev = 0
          /\ hold'[u].queue = hold[u].queue \/ hold'[u].queue = 0
      OBVIOUS
    <3>4. hold'[u].dev <= Len(devs) /\ hold'[u].queue <= Len(queues)
      BY ONLY <3>1, <3>2, <3>3
    <3> QED
      BY ONLY <3>2, <3>3, <3>4
  <2>2. \A e \in DOMAIN devs : devs'[e].plat \in DOMAIN platforms
    BY <1>5 DEF IInv, References
  <2> QED
    BY <1>5, <2>1, <2>2 DEF IInv, References
<1>9. Askers'
  BY <1>6 DEF IInv, Types, Askers
<1>10. AliveIsHeld'
  <2>1. ASSUME NEW e \in DOMAIN devs
        PROVE  devs'[e].state = "alive" <=> DeviceHeld(e, hold', queues')
    BY <1>5 DEF IInv, AliveIsHeld
  <2> QED
    BY <1>5, <2>1 DEF AliveIsHeld
<1>11. AliveIsCached'
  <2> SUFFICES ASSUME NEW e \in DOMAIN devs, devs'[e].state = "alive"
               PROVE  platforms[devs'[e].plat].cache[devs'[e].idx] = e
    BY <1>5 DEF AliveIsCached
  <2>1. /\ devs[e].state = "alive"
        /\ devs'[e].plat = devs[e].plat /\ devs'[e].idx = devs[e].idx
    BY <1>3, <1>5
  <2> QED
    BY <2>1 DEF IInv, AliveIsCached
<1>12. ASSUME NEW r \in DOMAIN platforms, PlatformHeld(r)' PROVE PlatformHeld(r)
  <2>1. CASE \E u \in Threads : hold'[u].plat = r
    BY <2>1 DEF PlatformHeld
  <2>2. CASE \E e \in DOMAIN devs' : devs'[e].plat = r /\ devs'[e].state # "dead"
    BY <1>3, <1>5, <2>2 DEF PlatformHeld
  <2> QED
    BY <1>12, <2>1, <2>2 DEF PlatformHeld
<1>13. HeldIsSingleton' /\ OneBuilderPerKind'
  BY <1>6, <1>12, SingletonsKeep
<1> QED
  BY <1>7, <1>8, <1>9, <1>10, <1>11, <1>13 DEF IInv

\* The index of a device is a number.
LEMMA DeviceIndex ==
    ASSUME IInv, NEW d \in DOMAIN devs
    PROVE  devs[d].idx \in Nat
<1>1. devs[d] \in DeviceType
  BY ElementOfSeq DEF IInv, Types
<1> QED
  BY <1>1, RegistryAssumption DEF DeviceType, Indices

LEMMA DropDeviceKeeps ==
    ASSUME IInv, NEW t \in Threads, DropDevice(t)
    PROVE  IInv'
<1> DEFINE d == hold[t].dev
<1>1. /\ pc[t] = "idle" /\ d # 0
      /\ hold' = [hold EXCEPT ![t].dev = 0]
      /\ Release(t, d)
      /\ UNCHANGED <<lock, singleton, platforms, queues, manager, ctxs, building>>
  BY DEF DropDevice
<1>2. d \in DOMAIN devs
  BY <1>1 DEF IInv, Types, References
<1>3. index' = [index EXCEPT ![t] = IF pc'[t] = "reset" THEN devs[d].idx ELSE 0]
  BY DEF DropDevice
<1>4. /\ index' \in [Threads -> Nat]
      /\ \A u \in Threads \ {t} : index'[u] = index[u]
  BY <1>2, <1>3, DeviceIndex DEF IInv, Types
<1>5. /\ hold' \in [Threads -> [plat : Nat, dev : Nat, queue : Nat]]
      /\ \A u \in Threads : /\ hold'[u].plat = hold[u].plat
                            /\ hold'[u].queue = hold[u].queue
                            /\ hold'[u].dev = IF u = t THEN 0 ELSE hold[u].dev
                            /\ u # t => hold'[u] = hold[u]
  BY <1>1 DEF IInv, Types
<1>6. DeviceHeld(d, hold, queues)
  BY DEF DeviceHeld
<1>7. OwnQueues'
  BY <1>1, <1>5 DEF IInv, OwnQueues
<1>8. ASSUME NEW e \in DOMAIN devs \ {d}
      PROVE  DeviceHeld(e, hold', queues') <=> DeviceHeld(e, hold, queues)
  <2>1. e # 0
    BY DEF IInv, Types
  <2> QED
    BY <1>1, <1>5, <2>1 DEF DeviceHeld
<1>9. queues' \in Seq(QueueType)
  BY <1>1 DEF IInv, Types
<1> HIDE DEF d
<1> QED
  BY <1>1, <1>2, <1>4, <1>5, <1>6, <1>7, <1>8, <1>9, ReleaseKeeps

LEMMA DropQueueKeeps ==
    ASSUME IInv, NEW t \in Threads, DropQueue(t)
    PROVE  IInv'
<1> DEFINE q == hold[t].queue
           d == queues[q].dev
           new == [queues[q] EXCEPT !.live = FALSE]
<1>1. /\ pc[t] = "idle" /\ q # 0
      /\ hold' = [hold EXCEPT ![t].queue = 0]
      /\ queues' = [queues EXCEPT ![q] = new]
      /\ Release(t, d)
      /\ UNCHANGED <<lock, singleton, platforms, manager, ctxs, building>>
  BY DEF DropQueue
<1>2. /\ q \in 1 .. Len(queues) /\ q \in DOMAIN queues /\ queues[q] \in QueueType
      /\ DOMAIN queues = 1 .. Len(queues)
  <2>1. q \in 1 .. Len(queues) /\ DOMAIN queues = 1 .. Len(queues)
    BY <1>1 DEF IInv, Types, References
  <2> QED
    BY <2>1, ElementOfSeq DEF IInv, Types
<1>3. new \in QueueType /\ new.dev = d /\ ~new.live
  BY <1>2 DEF QueueType
<1>4. queues[q].live /\ \A u \in Threads : hold[u].queue = q => u = t
  BY <1>1 DEF IInv, OwnQueues
<1>5. d \in DOMAIN devs /\ DeviceHeld(d, hold, queues)
  BY <1>2, <1>4 DEF IInv, References, DeviceHeld
<1>6. index' = [index EXCEPT ![t] = IF pc'[t] = "reset" THEN devs[d].idx ELSE @]
  BY DEF DropQueue
<1>7. /\ index' \in [Threads -> Nat]
      /\ \A u \in Threads \ {t} : index'[u] = index[u]
  BY <1>5, <1>6, DeviceIndex DEF IInv, Types
<1>8. /\ hold' \in [Threads -> [plat : Nat, dev : Nat, queue : Nat]]
      /\ \A u \in Threads : /\ hold'[u].plat = hold[u].plat
                            /\ hold'[u].dev = hold[u].dev
                            /\ hold'[u].queue = IF u = t THEN 0 ELSE hold[u].queue
                            /\ u # t => hold'[u] = hold[u]
  BY <1>1 DEF IInv, Types
<1> HIDE DEF q, new
<1>9. /\ queues' \in Seq(QueueType) /\ Len(queues') = Len(queues)
      /\ DOMAIN queues' = DOMAIN queues
      /\ \A r \in DOMAIN queues : queues'[r] = IF r = q THEN new ELSE queues[r]
  <2>1. /\ queues' \in Seq(QueueType) /\ Len(queues') = Len(queues)
        /\ \A r \in 1 .. Len(queues) : queues'[r] = IF r = q THEN new ELSE queues[r]
    BY <1>1, <1>2, <1>3, ExceptSeq DEF IInv, Types
  <2> QED
    BY <1>2, <2>1
<1> HIDE DEF d
<1>10. \A r \in DOMAIN queues : queues'[r].dev = queues[r].dev
  BY <1>3, <1>9 DEF d
<1>11. OwnQueues'
  <2>1. ASSUME NEW u \in Threads, hold'[u].queue # 0
        PROVE  /\ queues'[hold'[u].queue].live
               /\ \A w \in Threads : hold'[w].queue = hold'[u].queue => w = u
    <3>1. u # t /\ hold'[u].queue = hold[u].queue
      BY <1>8, <2>1
    <3>2. hold[u].queue # q /\ hold[u].queue \in DOMAIN queues
      BY <1>2, <1>4, <2>1, <3>1 DEF IInv, Types, References
    <3> QED
      BY <1>8, <1>9, <2>1, <3>1, <3>2 DEF IInv, OwnQueues
  <2> QED
    BY <2>1 DEF OwnQueues
<1>12. ASSUME NEW e \in DOMAIN devs \ {d}
       PROVE  DeviceHeld(e, hold', queues') <=> DeviceHeld(e, hold, queues)
  BY <1>3, <1>8, <1>9 DEF DeviceHeld, d
<1> QED
  BY <1>1, <1>5, <1>7, <1>8, <1>9, <1>10, <1>11, <1>12, ReleaseKeeps

\* A device that is dying is in nobody's hands; its reset ends it.
LEMMA ResetDeviceKeeps ==
    ASSUME IInv, NEW t \in Threads, ResetDevice(t)
    PROVE  IInv'
<1>1. PICK d \in DOMAIN devs :
         /\ devs[d].state = "dying"
         /\ devs' = [devs EXCEPT ![d].state = "dead"]
         /\ queues' = [q \in DOMAIN queues |->
                         IF /\ devs[queues[q].dev].idx = devs[d].idx
                            /\ platforms[devs[queues[q].dev].plat].kind
                                  = platforms[devs[d].plat].kind
                         THEN [queues[q] EXCEPT !.lost = TRUE] ELSE queues[q]]
  BY DEF ResetDevice
<1>2. /\ pc[t] = "reset" /\ pc' = [pc EXCEPT ![t] = "idle"]
      /\ index' = [index EXCEPT ![t] = 0]
      /\ UNCHANGED <<hold, lock, singleton, platforms, manager, ctxs, building>>
  BY DEF ResetDevice
<1> DEFINE new == [devs[d] EXCEPT !.state = "dead"]
<1>3. /\ DOMAIN devs = 1 .. Len(devs) /\ devs[d] \in DeviceType
      /\ d \in 1 .. Len(devs)
  BY ElementOfSeq DEF IInv, Types
<1>4. /\ new \in DeviceType /\ new.plat = devs[d].plat /\ new.idx = devs[d].idx
      /\ new.state = "dead"
      /\ devs' = [devs EXCEPT ![d] = new]
  BY <1>1, <1>3 DEF DeviceType
<1> HIDE DEF new
<1>5. /\ devs' \in Seq(DeviceType) /\ Len(devs') = Len(devs)
      /\ DOMAIN devs' = DOMAIN devs
      /\ \A e \in DOMAIN devs : devs'[e] = IF e = d THEN new ELSE devs[e]
  <2>1. /\ devs' \in Seq(DeviceType) /\ Len(devs') = Len(devs)
        /\ \A e \in 1 .. Len(devs) : devs'[e] = IF e = d THEN new ELSE devs[e]
    BY <1>3, <1>4, ExceptSeq DEF IInv, Types
  <2> QED
    BY <1>3, <2>1
<1>6. /\ queues' \in Seq(QueueType) /\ Len(queues') = Len(queues)
      /\ DOMAIN queues' = DOMAIN queues
      /\ \A q \in DOMAIN queues : /\ queues'[q].dev = queues[q].dev
                                  /\ queues'[q].live = queues[q].live
  <2>1. DOMAIN queues = 1 .. Len(queues) /\ Len(queues) \in Nat
    BY DEF IInv, Types
  <2>2. ASSUME NEW q \in 1 .. Len(queues)
        PROVE  /\ queues'[q] \in QueueType
               /\ queues'[q].dev = queues[q].dev /\ queues'[q].live = queues[q].live
    <3>1. queues[q] \in QueueType
      BY ElementOfSeq DEF IInv, Types
    <3>2. queues'[q] = queues[q] \/ queues'[q] = [queues[q] EXCEPT !.lost = TRUE]
      BY <1>1, <2>1
    <3> QED
      BY <3>1, <3>2 DEF QueueType
  <2>3. DOMAIN queues' = 1 .. Len(queues) /\ queues' \in [1 .. Len(queues) -> QueueType]
    BY <1>1, <2>1, <2>2
  <2>4. queues' \in Seq(QueueType)
    BY <2>1, <2>3, SeqDef
  <2>5. Len(queues') = Len(queues)
    BY <2>1, <2>3, <2>4
  <2> QED
    BY <2>1, <2>2, <2>3, <2>4, <2>5
<1>7. Types'
  BY <1>2, <1>5, <1>6 DEF IInv, Types
<1>8. References'
  BY <1>2, <1>4, <1>5, <1>6 DEF IInv, References
<1>9. OwnQueues'
  <2>1. \A u \in Threads : hold[u].queue # 0 => hold[u].queue \in DOMAIN queues
    BY DEF IInv, Types, References
  <2> QED
    BY <1>2, <1>6, <2>1 DEF IInv, OwnQueues
<1>10. Askers'
  BY <1>2 DEF IInv, Types, Askers
<1>11. \A e : DeviceHeld(e, hold, queues)' <=> DeviceHeld(e, hold, queues)
  BY <1>2, <1>6 DEF DeviceHeld
<1>12. AliveIsHeld'
  BY <1>1, <1>4, <1>5, <1>11 DEF IInv, AliveIsHeld
<1>13. AliveIsCached'
  BY <1>2, <1>4, <1>5 DEF IInv, AliveIsCached
<1>14. \A r \in DOMAIN platforms : PlatformHeld(r)' => PlatformHeld(r)
  BY <1>1, <1>2, <1>4, <1>5 DEF PlatformHeld
<1>15. HeldIsSingleton' /\ OneBuilderPerKind'
  BY <1>2, <1>14, SingletonsKeep
<1> QED
  BY <1>7, <1>8, <1>9, <1>10, <1>12, <1>13, <1>15 DEF IInv

LEMMA Invariance == Spec => []IInv
<1>1. IInv /\ [Next]_vars => IInv'
  <2> SUFFICES ASSUME IInv, [Next]_vars PROVE IInv'
    OBVIOUS
  <2>1. CASE UNCHANGED vars
    <3>1. Types' /\ References' /\ OwnQueues' /\ Askers'
      BY <2>1 DEF vars, IInv, Types, References, OwnQueues, Askers
    <3>2. AliveIsHeld' /\ AliveIsCached' /\ HeldIsSingleton'
      BY <2>1 DEF vars, IInv, AliveIsHeld, AliveIsCached, HeldIsSingleton,
                  DeviceHeld, PlatformHeld
    <3>3. OneBuilderPerKind'
      BY <2>1 DEF vars, IInv, OneBuilderPerKind, Builders, PlatformHeld
    <3> QED
      BY <3>1, <3>2, <3>3 DEF IInv
  <2>2. ASSUME NEW t \in Threads, Step(t) PROVE IInv'
    BY <2>2, MakePlatformKeeps, GetDeviceCountKeeps, MakeQueueKeeps,
       DropPlatformKeeps, DropDeviceKeeps, DropQueueKeeps, BuildPlatformKeeps,
       InsertContextKeeps, ResizeKeeps, MakeDeviceKeeps, ResetDeviceKeeps
       DEF Step, Continue
  <2> QED
    BY <2>1, <2>2 DEF Next
<1> QED
  BY <1>1, Initially, PTL DEF Spec

\* Two handles of the same native device of one kind are the same object, for
\* any number of threads, kinds and devices, overlapping or not.
THEOREM DevicesAreUnique == Spec => []OneDevicePerIndex
  BY Invariance, InvariantSuffices, PTL

\* The constructor of a platform runs in one thread at a time for each kind, and
\* meanwhile nobody can revive the expired platform it replaces.
THEOREM BuildersAreAlone == Spec => []OneBuilderPerKind
<1>1. IInv => OneBuilderPerKind
  BY DEF IInv
<1> QED
  BY <1>1, Invariance, PTL

-----------------------------------------------------------------------------
(***************************************************************************)
(* Resets, for programs that do not make a device anew while the one it     *)
(* replaces is being destroyed.  A reset can only hit a queue of a device   *)
(* with the same native index: none of these is alive.                     *)
(***************************************************************************)
KindOf(d) == platforms[devs[d].plat].kind

SameNative(d, e) == devs[d].idx = devs[e].idx /\ KindOf(d) = KindOf(e)

\* While a device is dying, no other object of its native device is alive.
DyingIsAlone ==
    \A d, e \in DOMAIN devs :
        devs[d].state = "dying" /\ devs[e].state = "alive" => ~SameNative(d, e)

\* Whoever holds it, a queue is intact while it is live.
LiveIsIntact == \A q \in DOMAIN queues : queues[q].live => ~queues[q].lost

SpareInv == DyingIsAlone /\ LiveIsIntact

\* Devices and queues stay, and so do the kinds of the platforms there are.
LEMMA SameDevices ==
    ASSUME IInv, SpareInv, UNCHANGED <<devs, queues>>,
           \A p \in DOMAIN platforms : platforms'[p].kind = platforms[p].kind
    PROVE  SpareInv'
<1>1. \A d \in DOMAIN devs : KindOf(d)' = KindOf(d)
  BY DEF KindOf, IInv, References
<1> QED
  BY <1>1 DEF SpareInv, DyingIsAlone, SameNative, LiveIsIntact

LEMMA PlatformSpares ==
    ASSUME IInv, SpareInv, NEW t \in Threads,
           \/ \E k \in Kinds : MakePlatform(t, k)
           \/ BuildPlatform(t)
           \/ InsertContext(t)
    PROVE  SpareInv'
<1>1. UNCHANGED <<devs, queues>>
  BY DEF MakePlatform, BuildPlatform, InsertContext
<1>2. UNCHANGED platforms \/ \E p : platforms' = Append(platforms, p)
  BY DEF MakePlatform, BuildPlatform, InsertContext, Built, NewPlatform
<1>3. platforms \in Seq(PlatformType) /\ DOMAIN platforms = 1 .. Len(platforms)
  BY DEF IInv, Types
<1>4. CASE UNCHANGED platforms
  BY <1>1, <1>4, SameDevices
<1>5. CASE \E p : platforms' = Append(platforms, p)
  <2>1. \A p \in DOMAIN platforms : platforms'[p] = platforms[p]
    BY <1>3, <1>5
  <2> QED
    BY <1>1, <2>1, SameDevices
<1> QED
  BY <1>2, <1>4, <1>5

LEMMA LookUpSpares ==
    ASSUME IInv, SpareInv, NEW t \in Threads,
           \/ \E i \in Indices : GetDeviceCount(t, i)
           \/ Resize(t)
           \/ DropPlatform(t)
    PROVE  SpareInv'
<1>1. UNCHANGED <<devs, queues>>
  BY DEF GetDeviceCount, Resize, DropPlatform
<1>2. \A p \in DOMAIN platforms : platforms'[p].kind = platforms[p].kind
  <2>1. CASE Resize(t)
    <3>1. platforms \in Seq(PlatformType) /\ DOMAIN platforms = 1 .. Len(platforms)
      BY DEF IInv, Types
    <3>2. \A p \in DOMAIN platforms : platforms[p] \in PlatformType
      BY <3>1, ElementOfSeq
    <3>3. platforms' = [platforms EXCEPT ![hold[t].plat].size = NumDevices]
      BY <2>1 DEF Resize
    <3> QED
      BY <3>1, <3>2, <3>3 DEF PlatformType
  <2>2. CASE UNCHANGED platforms
    BY <2>2
  <2> QED
    BY <2>1, <2>2 DEF GetDeviceCount, DropPlatform
<1> QED
  BY <1>1, <1>2, SameDevices

\* A new device: nothing is dying then.
LEMMA MakeDeviceSpares ==
    ASSUME ~Overlapping, IInv, SpareInv, NEW t \in Threads, MakeDevice(t)
    PROVE  SpareInv'
<1>1. UNCHANGED queues
  BY DEF MakeDevice
<1>2. CASE UNCHANGED <<devs, platforms>>
  BY <1>1, <1>2, SameDevices
<1>3. CASE /\ \A d \in DOMAIN devs : devs[d].state # "dying"
           /\ \E d : d.state = "alive" /\ devs' = Append(devs, d)
  <2>1. \A d \in DOMAIN devs' : devs'[d].state # "dying"
    BY <1>3 DEF IInv, Types
  <2> QED
    BY <1>1, <2>1 DEF SpareInv, DyingIsAlone, LiveIsIntact
<1> QED
  BY <1>2, <1>3 DEF MakeDevice

LEMMA MakeQueueSpares ==
    ASSUME IInv, SpareInv, NEW t \in Threads, MakeQueue(t)
    PROVE  SpareInv'
<1>1. UNCHANGED <<devs, platforms>>
  BY DEF MakeQueue
<1>2. DyingIsAlone'
  BY <1>1 DEF SpareInv, DyingIsAlone, SameNative, KindOf
<1>3. \E q : ~q.lost /\ queues' = Append(queues, q)
  BY DEF MakeQueue
<1>4. LiveIsIntact'
  BY <1>3 DEF IInv, Types, SpareInv, LiveIsIntact
<1> QED
  BY <1>2, <1>4 DEF SpareInv

\* The device that dies was the only one of its native device that was alive.
LEMMA ReleaseSpares ==
    ASSUME IInv, SpareInv, NEW t \in Threads, NEW d \in DOMAIN devs,
           devs[d].state = "alive", Release(t, d), UNCHANGED platforms
    PROVE  DyingIsAlone'
<1>1. CASE UNCHANGED devs
  BY <1>1 DEF SpareInv, DyingIsAlone, SameNative, KindOf
<1>2. CASE \E state \in {"dying", "dead"} : devs' = [devs EXCEPT ![d].state = state]
  <2>1. /\ DOMAIN devs' = DOMAIN devs
        /\ devs'[d].state # "alive"
        /\ \A e \in DOMAIN devs : /\ devs'[e].plat = devs[e].plat
                                  /\ devs'[e].idx = devs[e].idx
                                  /\ e # d => devs'[e] = devs[e]
    <3>1. \A e \in DOMAIN devs : devs[e] \in DeviceType
      BY ElementOfSeq DEF IInv, Types
    <3> QED
      BY <1>2, <3>1 DEF IInv, Types, DeviceType
  <2>2. \A e, f \in DOMAIN devs : SameNative(e, f)' <=> SameNative(e, f)
    BY <2>1 DEF SameNative, KindOf
  <2> SUFFICES ASSUME NEW x \in DOMAIN devs, NEW y \in DOMAIN devs,
                      devs'[x].state = "dying", devs'[y].state = "alive",
                      SameNative(x, y)
               PROVE  FALSE
    BY <2>1, <2>2 DEF DyingIsAlone
  <2>3. y # d /\ devs[y].state = "alive"
    BY <2>1
  <2>4. CASE x = d
    BY <2>3, <2>4, InvariantSuffices DEF OneDevicePerIndex, SameNative, KindOf
  <2>5. CASE x # d
    BY <2>1, <2>3, <2>5 DEF SpareInv, DyingIsAlone
  <2> QED
    BY <2>4, <2>5
<1> QED
  BY <1>1, <1>2 DEF Release

LEMMA DropSpares ==
    ASSUME IInv, SpareInv, NEW t \in Threads, DropDevice(t) \/ DropQueue(t)
    PROVE  SpareInv'
<1>1. CASE DropDevice(t)
  <2>1. /\ hold[t].dev # 0 /\ Release(t, hold[t].dev)
        /\ UNCHANGED <<platforms, queues>>
    BY <1>1 DEF DropDevice
  <2>2. hold[t].dev \in DOMAIN devs
    BY <2>1 DEF IInv, Types, References
  <2>3. devs[hold[t].dev].state = "alive"
    BY <2>2 DEF IInv, AliveIsHeld, DeviceHeld
  <2>4. DyingIsAlone'
    BY <2>1, <2>2, <2>3, ReleaseSpares
  <2> QED
    BY <2>1, <2>4 DEF SpareInv, LiveIsIntact
<1>2. CASE DropQueue(t)
  <2> DEFINE q == hold[t].queue
  <2>1. /\ q # 0 /\ Release(t, queues[q].dev)
        /\ queues' = [queues EXCEPT ![q].live = FALSE]
        /\ UNCHANGED platforms
    BY <1>2 DEF DropQueue
  <2>2. q \in DOMAIN queues /\ queues[q].live
    BY <2>1 DEF IInv, Types, References, OwnQueues
  <2>3. queues[q].dev \in DOMAIN devs /\ devs[queues[q].dev].state = "alive"
    BY <2>2 DEF IInv, References, AliveIsHeld, DeviceHeld
  <2>4. DyingIsAlone'
    BY <2>1, <2>3, ReleaseSpares
  <2>5. LiveIsIntact'
    <3>1. \A r \in DOMAIN queues : queues[r] \in QueueType
      BY ElementOfSeq DEF IInv, Types
    <3>2. /\ DOMAIN queues' = DOMAIN queues
          /\ ~queues'[q].live
          /\ \A r \in DOMAIN queues \ {q} : queues'[r] = queues[r]
      BY <2>1, <2>2, <3>1 DEF IInv, Types, QueueType
    <3> QED
      BY <3>2 DEF SpareInv, LiveIsIntact
  <2> QED
    BY <2>4, <2>5 DEF SpareInv
<1> QED
  BY <1>1, <1>2

\* A live queue has a device that is alive, which is not the one that is reset.
LEMMA ResetSpares ==
    ASSUME IInv, SpareInv, NEW t \in Threads, ResetDevice(t)
    PROVE  SpareInv'
<1>1. PICK d \in DOMAIN devs :
         /\ devs[d].state = "dying"
         /\ devs' = [devs EXCEPT ![d].state = "dead"]
         /\ queues' = [q \in DOMAIN queues |->
                         IF /\ devs[queues[q].dev].idx = devs[d].idx
                            /\ platforms[devs[queues[q].dev].plat].kind
                                  = platforms[devs[d].plat].kind
                         THEN [queues[q] EXCEPT !.lost = TRUE] ELSE queues[q]]
  BY DEF ResetDevice
<1>2. UNCHANGED platforms
  BY DEF ResetDevice
<1>3. DyingIsAlone'
  <2>1. \A e \in DOMAIN devs : devs[e] \in DeviceType
    BY ElementOfSeq DEF IInv, Types
  <2>2. /\ DOMAIN devs' = DOMAIN devs
        /\ devs'[d].state = "dead"
        /\ \A e \in DOMAIN devs : /\ devs'[e].plat = devs[e].plat
                                  /\ devs'[e].idx = devs[e].idx
                                  /\ e # d => devs'[e] = devs[e]
    BY <1>1, <2>1 DEF IInv, Types, DeviceType
  <2>3. \A e, f \in DOMAIN devs : SameNative(e, f)' <=> SameNative(e, f)
    BY <1>2, <2>2 DEF SameNative, KindOf
  <2> QED
    BY <2>2, <2>3 DEF SpareInv, DyingIsAlone
<1>4. LiveIsIntact'
  <2> SUFFICES ASSUME NEW q \in DOMAIN queues, queues'[q].live
               PROVE  ~queues'[q].lost
    BY <1>1 DEF LiveIsIntact
  <2>1. queues[q] \in QueueType
    BY ElementOfSeq DEF IInv, Types
  <2>2. queues[q].live
    BY <1>1, <2>1 DEF QueueType
  <2>3. queues[q].dev \in DOMAIN devs /\ devs[queues[q].dev].state = "alive"
    BY <2>2 DEF IInv, References, AliveIsHeld, DeviceHeld
  <2>4. ~SameNative(d, queues[q].dev)
    BY <1>1, <2>3 DEF SpareInv, DyingIsAlone
  <2>5. queues'[q] = queues[q]
    BY <1>1, <2>4 DEF SameNative, KindOf
  <2> QED
    BY <2>2, <2>5 DEF SpareInv, LiveIsIntact
<1> QED
  BY <1>3, <1>4 DEF SpareInv

\* A reset of a native device, which ~Device does for CUDA and HIP, never destroys
\* the native resources of a queue that a thread holds, for any number of threads,
\* kinds and devices, if no device is made anew while the one it replaces dies.
THEOREM ResetsSpareLiveQueues ==
    ASSUME ~Overlapping
    PROVE  Spec => []ResetSparesLiveQueues
<1>1. Init => SpareInv
  BY DEF Init, SpareInv, DyingIsAlone, LiveIsIntact
<1>2. IInv /\ SpareInv /\ [Next]_vars => SpareInv'
  <2> SUFFICES ASSUME IInv, SpareInv, [Next]_vars PROVE SpareInv'
    OBVIOUS
  <2>1. CASE UNCHANGED vars
    BY <2>1 DEF vars, SpareInv, DyingIsAlone, SameNative, KindOf, LiveIsIntact
  <2>2. ASSUME NEW t \in Threads, Step(t) PROVE SpareInv'
    BY <2>2, PlatformSpares, LookUpSpares, MakeDeviceSpares, MakeQueueSpares,
       DropSpares, ResetSpares DEF Step, Continue
  <2> QED
    BY <2>1, <2>2 DEF Next
<1>3. IInv /\ SpareInv => ResetSparesLiveQueues
  <2> SUFFICES ASSUME IInv, SpareInv, NEW t \in Threads, hold[t].queue # 0
               PROVE  ~queues[hold[t].queue].lost
    BY DEF ResetSparesLiveQueues
  <2>1. hold[t].queue \in DOMAIN queues
    BY DEF IInv, Types, References
  <2>2. queues[hold[t].queue].live
    BY DEF IInv, OwnQueues
  <2> QED
    BY <2>1, <2>2 DEF SpareInv, LiveIsIntact
<1> QED
  BY <1>1, <1>2, <1>3, Invariance, PTL DEF Spec


-----------------------------------------------------------------------------
(***************************************************************************)
(* The context of SYCL's platforms, for programs in which one thread at a   *)
(* time builds a platform.  A platform that is held holds the context       *)
(* manager it was built with, which therefore has not expired: there is one *)
(* map of contexts, and its entry is written once.                          *)
(***************************************************************************)
BuildersShare ==
    /\ \A t, u \in Builders : t = u
    /\ \A t \in Builders : building[t] = manager.id /\ manager.id # 0
    /\ \A t \in Threads : pc[t] = "insert" => manager.ctx = 0

HasTheContext(p) == manager.id # 0 /\ p.manager = manager.id /\ p.ctx = manager.ctx

HeldHaveTheContext ==
    \A p \in DOMAIN platforms : PlatformHeld(p) /\ platforms[p].ctx # 0 => HasTheContext(platforms[p])

ContextInv == BuildersShare /\ HeldHaveTheContext

\* Nobody begins to build, and nothing that has a context becomes held.
LEMMA ContextStays ==
    ASSUME ContextInv, UNCHANGED <<manager, building>>,
           NEW t \in Threads, NEW next \in {"idle", "resize", "device", "reset"},
           pc' = [pc EXCEPT ![t] = next], IInv,
           \A r \in DOMAIN platforms' : PlatformHeld(r)' /\ platforms'[r].ctx # 0 =>
              /\ r \in DOMAIN platforms /\ PlatformHeld(r)
              /\ platforms'[r].ctx = platforms[r].ctx /\ platforms'[r].manager = platforms[r].manager
    PROVE  ContextInv'
<1>1. \A u \in Threads : pc'[u] \in {"build", "insert"} => pc'[u] = pc[u]
  BY DEF IInv, Types
<1>2. Builders' \subseteq Builders
  BY <1>1 DEF Builders
<1>3. BuildersShare'
  BY <1>1, <1>2 DEF ContextInv, BuildersShare
<1>4. HeldHaveTheContext'
  BY DEF ContextInv, HeldHaveTheContext, HasTheContext
<1> QED
  BY <1>3, <1>4 DEF ContextInv

\* The platforms there are stay, and are held if they were; there is one more.
LEMMA OnePlatformMore ==
    ASSUME IInv, NEW t \in Threads, NEW p, p \in PlatformType, NewPlatform(t, p), UNCHANGED devs
    PROVE  \A r \in DOMAIN platforms' :
              \/ platforms'[r] = p
              \/ r \in DOMAIN platforms /\ platforms'[r] = platforms[r] /\ (PlatformHeld(r)' => PlatformHeld(r))
<1> DEFINE n == Len(platforms) + 1
<1>1. /\ Len(platforms') = n /\ n \in Nat
      /\ DOMAIN platforms' = 1 .. n /\ DOMAIN platforms = 1 .. n - 1
      /\ platforms'[n] = p
      /\ \A r \in DOMAIN platforms : platforms'[r] = platforms[r]
  BY DEF NewPlatform, IInv, Types
<1>2. hold' = [hold EXCEPT ![t].plat = n]
  BY <1>1 DEF NewPlatform
<1>3. \A u \in Threads : hold'[u].plat = IF u = t THEN n ELSE hold[u].plat
  BY <1>1, <1>2 DEF IInv, Types
<1>4. \A r \in DOMAIN platforms : PlatformHeld(r)' => PlatformHeld(r)
  BY <1>1, <1>3 DEF PlatformHeld
<1> QED
  BY <1>1, <1>4

LEMMA MakePlatformShares ==
    ASSUME ~Overlapping, IInv, ContextInv, NEW t \in Threads, NEW k \in Kinds, MakePlatform(t, k)
    PROVE  ContextInv'
<1>0. /\ pc[t] = "idle" /\ UNCHANGED devs /\ Builders = {}
      /\ pc \in [Threads -> {"idle", "build", "insert", "resize", "device", "reset"}]
      /\ manager \in [id : Nat, ctx : Nat] /\ building \in [Threads -> Nat]
  BY DEF MakePlatform, Begin, Builders, IInv, Types
<1>1. CASE /\ singleton[k] # 0 /\ PlatformHeld(singleton[k])
           /\ hold' = [hold EXCEPT ![t].plat = singleton[k]]
           /\ UNCHANGED <<pc, lock, singleton, platforms, manager, building>>
  <2>1. \A u \in Threads : hold'[u].plat = IF u = t THEN singleton[k] ELSE hold[u].plat
    BY <1>1 DEF IInv, Types
  <2>2. \A r \in DOMAIN platforms : PlatformHeld(r)' => PlatformHeld(r)
    BY <1>0, <1>1, <2>1 DEF PlatformHeld
  <2>3. pc' = [pc EXCEPT ![t] = "idle"]
    BY <1>0, <1>1
  <2> QED
    BY <1>1, <2>2, <2>3, ContextStays
<1>2. CASE /\ NewPlatform(t, Platform(k, 0, 0, 0))
           /\ UNCHANGED <<pc, lock, manager, building>>
  <2>1. Platform(k, 0, 0, 0) \in PlatformType /\ Platform(k, 0, 0, 0).ctx = 0
    BY DEF Platform, PlatformType
  <2>2. PICK p \in PlatformType : p.ctx = 0 /\ NewPlatform(t, p)
    BY <1>2, <2>1
  <2>3. \A r \in DOMAIN platforms' :
           \/ platforms'[r] = p
           \/ r \in DOMAIN platforms /\ platforms'[r] = platforms[r] /\ (PlatformHeld(r)' => PlatformHeld(r))
    BY <1>0, <2>2, OnePlatformMore
  <2>4. pc' = [pc EXCEPT ![t] = "idle"]
    BY <1>0, <1>2
  <2> QED
    BY <1>2, <2>2, <2>3, <2>4, ContextStays
<1>3. CASE /\ pc' = [pc EXCEPT ![t] = "build"]
           /\ IF manager.id # 0 /\ ManagerHeld(manager.id) THEN UNCHANGED manager
              ELSE manager' = [id |-> manager.id + 1, ctx |-> 0]
           /\ building' = [building EXCEPT ![t] = manager'.id]
           /\ UNCHANGED <<hold, singleton, platforms>>
  <2>1. \A u \in Threads : pc'[u] = IF u = t THEN "build" ELSE pc[u]
    BY <1>0, <1>3
  <2>2. Builders' = {t} /\ \A u \in Threads : pc'[u] # "insert"
    BY <1>0, <2>1 DEF Builders
  <2>3. building'[t] = manager'.id /\ manager'.id # 0
    BY <1>0, <1>3
  <2>4. BuildersShare'
    BY <2>2, <2>3 DEF BuildersShare
  <2>5. \A r : PlatformHeld(r)' <=> PlatformHeld(r)
    BY <1>0, <1>3 DEF PlatformHeld
  <2>6. HeldHaveTheContext'
    <3>1. CASE UNCHANGED manager
      BY <1>3, <2>5, <3>1 DEF ContextInv, HeldHaveTheContext, HasTheContext
    <3>2. CASE ~(manager.id # 0 /\ ManagerHeld(manager.id))
      <4>1. \A r \in DOMAIN platforms : PlatformHeld(r) => platforms[r].ctx = 0
        BY <3>2 DEF ContextInv, HeldHaveTheContext, HasTheContext, ManagerHeld
      <4> QED
        BY <1>3, <2>5, <4>1 DEF HeldHaveTheContext
    <3> QED
      BY <1>3, <3>1, <3>2
  <2> QED
    BY <2>4, <2>6 DEF ContextInv
<1> QED
  BY <1>1, <1>2, <1>3 DEF MakePlatform

\* A platform is finished with the context of the map, or without one.
LEMMA BuiltShares ==
    ASSUME IInv, ContextInv, NEW t \in Builders, NEW c \in Nat, NEW size \in Nat, Built(t, c, size),
           UNCHANGED devs, manager'.id = manager.id, c = 0 \/ c = manager'.ctx,
           manager'.ctx = manager.ctx \/ manager.ctx = 0
    PROVE  ContextInv'
<1>0. t \in Threads /\ building[t] = manager.id /\ manager.id # 0 /\ building \in [Threads -> Nat]
  BY DEF Builders, ContextInv, BuildersShare, IInv, Types
<1>1. PICK k \in Kinds :
        /\ NewPlatform(t, Platform(k, building[t], c, size))
        /\ pc' = [pc EXCEPT ![t] = "idle"]
  BY DEF Built, IInv, OneBuilderPerKind
<1>2. PICK p \in PlatformType : p.ctx = c /\ p.manager = manager.id /\ NewPlatform(t, p)
  BY <1>0, <1>1 DEF Platform, PlatformType
<1>3. \A r \in DOMAIN platforms' :
         \/ platforms'[r] = p
         \/ r \in DOMAIN platforms /\ platforms'[r] = platforms[r] /\ (PlatformHeld(r)' => PlatformHeld(r))
  BY <1>0, <1>2, OnePlatformMore
<1>4. Builders' = {} /\ \A u \in Threads : pc'[u] # "insert"
  <2>1. \A u \in Threads : pc'[u] = IF u = t THEN "idle" ELSE pc[u]
    BY <1>1 DEF IInv, Types
  <2>2. \A u \in Threads : u # t => u \notin Builders
    BY DEF ContextInv, BuildersShare
  <2> QED
    BY <2>1, <2>2 DEF Builders
<1>5. BuildersShare'
  BY <1>4 DEF BuildersShare
<1>6. HeldHaveTheContext'
  <2> SUFFICES ASSUME NEW r \in DOMAIN platforms', PlatformHeld(r)', platforms'[r].ctx # 0
               PROVE  HasTheContext(platforms[r])'
    BY DEF HeldHaveTheContext
  <2>1. CASE platforms'[r] = p
    BY <1>0, <1>2, <2>1 DEF HasTheContext
  <2>2. CASE r \in DOMAIN platforms /\ platforms'[r] = platforms[r] /\ PlatformHeld(r)
    BY <1>0, <2>2 DEF ContextInv, HeldHaveTheContext, HasTheContext
  <2> QED
    BY <1>3, <2>1, <2>2
<1> QED
  BY <1>5, <1>6 DEF ContextInv

LEMMA BuildPlatformShares ==
    ASSUME IInv, ContextInv, NEW t \in Threads, BuildPlatform(t)
    PROVE  ContextInv'
<1>0. t \in Builders /\ UNCHANGED <<devs, manager>> /\ manager.ctx \in Nat /\ NumDevices \in Nat
  BY RegistryAssumption DEF BuildPlatform, Builders, IInv, Types
<1>1. CASE Built(t, 0, 0) \/ Built(t, manager.ctx, NumDevices)
  BY <1>0, <1>1, BuiltShares
<1>2. CASE /\ manager.ctx = 0
           /\ pc' = [pc EXCEPT ![t] = "insert"]
           /\ UNCHANGED <<hold, lock, singleton, platforms, building>>
  <2>1. Builders' = Builders
    BY <1>0, <1>2 DEF Builders, IInv, Types
  <2>2. BuildersShare'
    BY <1>0, <1>2, <2>1 DEF ContextInv, BuildersShare
  <2>3. HeldHaveTheContext'
    BY <1>0, <1>2 DEF ContextInv, HeldHaveTheContext, HasTheContext, PlatformHeld
  <2> QED
    BY <2>2, <2>3 DEF ContextInv
<1> QED
  BY <1>1, <1>2 DEF BuildPlatform

LEMMA InsertContextShares ==
    ASSUME IInv, ContextInv, NEW t \in Threads, InsertContext(t)
    PROVE  ContextInv'
<1>0. /\ t \in Builders /\ UNCHANGED devs /\ manager.ctx = 0 /\ NumDevices \in Nat
      /\ manager \in [id : Nat, ctx : Nat] /\ ctxs' \in Nat
      /\ manager' = [manager EXCEPT !.ctx = ctxs']
  BY RegistryAssumption DEF InsertContext, Builders, IInv, Types, ContextInv, BuildersShare
<1>1. manager'.id = manager.id /\ manager'.ctx = ctxs'
  BY <1>0
<1>2. PICK c \in Nat, size \in Nat : Built(t, c, size) /\ (c = 0 \/ c = manager'.ctx)
  BY <1>0, <1>1 DEF InsertContext
<1> QED
  BY <1>0, <1>1, <1>2, BuiltShares

\* Devices are found, made and dropped; queues are made and dropped.
LEMMA LookUpShares ==
    ASSUME IInv, ContextInv, NEW t \in Threads,
           (\E i \in Indices : GetDeviceCount(t, i)) \/ Resize(t) \/ DropPlatform(t) \/ MakeQueue(t)
    PROVE  ContextInv'
<1>1. PICK next \in {"idle", "resize", "device", "reset"} : pc' = [pc EXCEPT ![t] = next]
  BY DEF GetDeviceCount, Resize, DropPlatform, MakeQueue, Begin, IInv, Types
<1>2. UNCHANGED <<manager, building, devs>>
  BY DEF GetDeviceCount, Resize, DropPlatform, MakeQueue
<1>3. \A r \in DOMAIN platforms' : /\ r \in DOMAIN platforms /\ r # 0
                                   /\ platforms'[r].ctx = platforms[r].ctx
                                   /\ platforms'[r].manager = platforms[r].manager
  <2>0. DOMAIN platforms = 1 .. Len(platforms) /\ \A p \in DOMAIN platforms : platforms[p] \in PlatformType
    BY ElementOfSeq DEF IInv, Types
  <2>1. CASE platforms' = [platforms EXCEPT ![hold[t].plat].size = NumDevices]
    BY <2>0, <2>1 DEF PlatformType
  <2>2. CASE UNCHANGED platforms
    BY <2>0, <2>2
  <2> QED
    BY <2>1, <2>2 DEF GetDeviceCount, Resize, DropPlatform, MakeQueue
<1>4. \A u \in Threads : hold'[u].plat \in {hold[u].plat, 0}
  <2>0. hold \in [Threads -> [plat : Nat, dev : Nat, queue : Nat]]
    BY DEF IInv, Types
  <2>1. CASE UNCHANGED hold
    BY <2>1
  <2>2. CASE hold' = [hold EXCEPT ![t].plat = 0]
    BY <2>0, <2>2
  <2>3. CASE hold' = [hold EXCEPT ![t].queue = Len(queues')]
    BY <2>0, <2>3
  <2> QED
    BY <2>1, <2>2, <2>3 DEF GetDeviceCount, Resize, DropPlatform, MakeQueue
<1>5. \A r : r # 0 /\ PlatformHeld(r)' => PlatformHeld(r)
  BY <1>2, <1>4 DEF PlatformHeld
<1> QED
  BY <1>1, <1>2, <1>3, <1>5, ContextStays

LEMMA MakeDeviceShares ==
    ASSUME IInv, ContextInv, NEW t \in Threads, MakeDevice(t)
    PROVE  ContextInv'
<1> DEFINE p == hold[t].plat
<1>1. pc[t] = "device" /\ pc' = [pc EXCEPT ![t] = "idle"] /\ UNCHANGED <<manager, building>>
  BY DEF MakeDevice
<1>2. /\ p \in DOMAIN platforms /\ DOMAIN platforms = 1 .. Len(platforms)
      /\ \A r \in DOMAIN platforms : platforms[r] \in PlatformType
  BY <1>1, ElementOfSeq DEF IInv, Types, References, Askers
<1>3. PICK d : hold' = [hold EXCEPT ![t].dev = d]
  <2>1. CASE hold' = [hold EXCEPT ![t].dev = platforms[p].cache[index[t]]]
    BY <2>1
  <2>2. CASE hold' = [hold EXCEPT ![t].dev = Len(devs')]
    BY <2>2
  <2> QED
    BY <2>1, <2>2 DEF MakeDevice
<1>4. \A u \in Threads : hold'[u].plat = hold[u].plat
  <2>1. hold \in [Threads -> [plat : Nat, dev : Nat, queue : Nat]]
    BY DEF IInv, Types
  <2> QED
    BY <1>3, <2>1
<1>5. \A r \in DOMAIN platforms' : /\ r \in DOMAIN platforms
                                   /\ platforms'[r].ctx = platforms[r].ctx
                                   /\ platforms'[r].manager = platforms[r].manager
  <2>1. CASE UNCHANGED platforms
    BY <2>1
  <2>2. CASE platforms' = [platforms EXCEPT ![p].cache[index[t]] = Len(devs')]
    BY <1>2, <2>2 DEF PlatformType
  <2> QED
    BY <2>1, <2>2 DEF MakeDevice
<1>6. \A r : PlatformHeld(r)' => PlatformHeld(r)
  <2>1. CASE UNCHANGED devs
    BY <1>4, <2>1 DEF PlatformHeld
  <2>2. CASE \E e : e.plat = p /\ devs' = Append(devs, e)
    <3>1. PICK e : e.plat = p /\ devs' = Append(devs, e)
      BY <2>2
    <3>2. \A x \in DOMAIN devs' : (x \in DOMAIN devs /\ devs'[x] = devs[x]) \/ devs'[x] = e
      BY <3>1 DEF IInv, Types
    <3> QED
      BY <1>4, <3>1, <3>2 DEF PlatformHeld
  <2> QED
    BY <2>1, <2>2 DEF MakeDevice
<1> QED
  BY <1>1, <1>5, <1>6, ContextStays

LEMMA DropShares ==
    ASSUME IInv, ContextInv, NEW t \in Threads, DropDevice(t) \/ DropQueue(t)
    PROVE  ContextInv'
<1>1. PICK d \in DOMAIN devs : devs[d].state = "alive" /\ Release(t, d)
  <2>1. CASE DropDevice(t)
    <3>1. hold[t].dev # 0 /\ Release(t, hold[t].dev)
      BY <2>1 DEF DropDevice
    <3>2. hold[t].dev \in DOMAIN devs
      BY <3>1 DEF IInv, Types, References
    <3>3. devs[hold[t].dev].state = "alive"
      BY <3>2 DEF IInv, AliveIsHeld, DeviceHeld
    <3> QED
      BY <3>1, <3>2, <3>3
  <2>2. CASE DropQueue(t)
    <3> DEFINE q == hold[t].queue
    <3>1. q # 0 /\ Release(t, queues[q].dev)
      BY <2>2 DEF DropQueue
    <3>2. q \in DOMAIN queues /\ queues[q].live
      BY <3>1 DEF IInv, Types, References, OwnQueues
    <3>3. queues[q].dev \in DOMAIN devs /\ devs[queues[q].dev].state = "alive"
      BY <3>2 DEF IInv, References, AliveIsHeld, DeviceHeld
    <3> QED
      BY <3>1, <3>3
  <2> QED
    BY <2>1, <2>2
<1>2. UNCHANGED <<manager, building, platforms>> /\ pc[t] = "idle"
  BY DEF DropDevice, DropQueue
<1>3. PICK next \in {"idle", "resize", "device", "reset"} : pc' = [pc EXCEPT ![t] = next]
  BY <1>1, <1>2 DEF Release, IInv, Types
<1>4. \A u \in Threads : hold'[u].plat = hold[u].plat
  <2>1. hold \in [Threads -> [plat : Nat, dev : Nat, queue : Nat]]
    BY DEF IInv, Types
  <2>2. CASE hold' = [hold EXCEPT ![t].dev = 0]
    BY <2>1, <2>2
  <2>3. CASE hold' = [hold EXCEPT ![t].queue = 0]
    BY <2>1, <2>3
  <2> QED
    BY <2>2, <2>3 DEF DropDevice, DropQueue
<1>5. \A e \in DOMAIN devs' : /\ e \in DOMAIN devs /\ devs'[e].plat = devs[e].plat
                              /\ devs[e].state = "dead" => devs'[e].state = "dead"
  <2>1. \A e \in DOMAIN devs : devs[e] \in DeviceType
    BY ElementOfSeq DEF IInv, Types
  <2>2. UNCHANGED devs \/ \E state \in {"dying", "dead"} : devs' = [devs EXCEPT ![d].state = state]
    BY <1>1 DEF Release
  <2> QED
    BY <1>1, <2>1, <2>2 DEF DeviceType
<1>6. \A r : PlatformHeld(r)' => PlatformHeld(r)
  BY <1>4, <1>5 DEF PlatformHeld
<1> QED
  BY <1>2, <1>3, <1>6, ContextStays

LEMMA ResetShares ==
    ASSUME IInv, ContextInv, NEW t \in Threads, ResetDevice(t)
    PROVE  ContextInv'
<1>1. PICK d \in DOMAIN devs : devs' = [devs EXCEPT ![d].state = "dead"]
  BY DEF ResetDevice
<1>2. pc' = [pc EXCEPT ![t] = "idle"] /\ UNCHANGED <<hold, platforms, manager, building>>
  BY DEF ResetDevice
<1>3. \A e \in DOMAIN devs' : /\ e \in DOMAIN devs /\ devs'[e].plat = devs[e].plat
                              /\ devs[e].state = "dead" => devs'[e].state = "dead"
  <2>1. \A e \in DOMAIN devs : devs[e] \in DeviceType
    BY ElementOfSeq DEF IInv, Types
  <2> QED
    BY <1>1, <2>1 DEF DeviceType
<1>4. \A r : PlatformHeld(r)' => PlatformHeld(r)
  BY <1>2, <1>3 DEF PlatformHeld
<1> QED
  BY <1>2, <1>4, ContextStays

\* The platforms of all kinds that are alive use the same SYCL context, although
\* each finds it through the expiring reference of the context manager, for any
\* number of threads and kinds, if one thread at a time builds a platform.
THEOREM ContextsAreShared ==
    ASSUME ~Overlapping
    PROVE  Spec => []ContextIsShared
<1>1. Init => ContextInv
  BY DEF Init, ContextInv, BuildersShare, HeldHaveTheContext, Builders
<1>2. IInv /\ ContextInv /\ [Next]_vars => ContextInv'
  <2> SUFFICES ASSUME IInv, ContextInv, [Next]_vars PROVE ContextInv'
    OBVIOUS
  <2>1. CASE UNCHANGED vars
    BY <2>1 DEF vars, ContextInv, BuildersShare, Builders, HeldHaveTheContext, HasTheContext, PlatformHeld
  <2>2. ASSUME NEW t \in Threads, Step(t) PROVE ContextInv'
    BY <2>2, MakePlatformShares, BuildPlatformShares, InsertContextShares, LookUpShares,
       MakeDeviceShares, DropShares, ResetShares DEF Step, Continue
  <2> QED
    BY <2>1, <2>2 DEF Next
<1>3. ContextInv => ContextIsShared
  BY DEF ContextInv, HeldHaveTheContext, HasTheContext, ContextIsShared
<1> QED
  BY <1>1, <1>2, <1>3, Invariance, PTL DEF Spec

-----------------------------------------------------------------------------
(***************************************************************************)
(* Memory on devices (DeviceMemory), for any number of threads, devices and *)
(* buffers: who asks for memory has made the device current, so memory lies *)
(* on the device it was asked for; then the deleters that hold the device   *)
(* are those of all memory that a reset would destroy.                      *)
(***************************************************************************)
BufferType == [given : Memory!Indices, how : {"alloc", "unified", "mapped", "deferred"},
               at : Memory!Indices, state : {"held", "freed", "lost"}]

Placed(bs) == /\ bs \in Seq(BufferType)
              /\ \A k \in DOMAIN bs : bs[k].at = bs[k].given /\ bs[k].state # "lost"

MemoryInv == memApi \in {"host", "cuda", "sycl"} /\ Placed(buffers)

\* ~Device resets a device only if no buffer lies on it.
LEMMA DestroyedSparesMemory ==
    ASSUME NEW t \in Threads, NEW i \in Memory!Indices, NEW hs, NEW qs, NEW bs,
           Placed(bs), Memory!Destroyed(t, i, hs, qs, bs)
    PROVE  buffers' = bs
<1>1. CASE memApi = "cuda" /\ ~Memory!Alive(i, hs, qs, bs)
  <2>1. \A k \in DOMAIN bs : ~Memory!Holds(bs[k], i)
    BY <1>1 DEF Memory!Alive
  <2>2. \A k \in DOMAIN bs : ~(bs[k].at = i /\ bs[k].state = "held")
    BY <1>1, <2>1 DEF Memory!Holds, Memory!Held, Placed
  <2>3. buffers' = [k \in DOMAIN bs |-> bs[k]]
    BY <1>1, <2>2 DEF Memory!Destroyed, Memory!AfterReset
  <2>4. bs = [k \in DOMAIN bs |-> bs[k]]
    BY DEF Placed
  <2> QED
    BY <2>3, <2>4
<1>2. CASE ~(memApi = "cuda" /\ ~Memory!Alive(i, hs, qs, bs))
  BY <1>2 DEF Memory!Destroyed
<1> QED
  BY <1>1, <1>2

\* Memory is allocated on the device that was asked for.
LEMMA AllocatedIsPlaced ==
    ASSUME Careful, MemoryInv, NEW t \in Threads, NEW i \in Memory!Indices,
           NEW how \in {"alloc", "unified", "mapped", "deferred"}, Memory!Allocated(t, i, how)
    PROVE  Placed(buffers)'
<1> DEFINE b == [given |-> i, how |-> how, at |-> i, state |-> "held"]
<1>1. buffers' = Append(buffers, b)
  BY DEF Memory!Allocated
<1>2. b \in BufferType /\ b.at = b.given /\ b.state # "lost"
  BY DEF BufferType
<1>3. buffers \in Seq(BufferType)
  BY DEF MemoryInv, Placed
<1>4. \A k \in DOMAIN buffers : buffers[k].at = buffers[k].given /\ buffers[k].state # "lost"
  BY DEF MemoryInv, Placed
<1> HIDE DEF b
<1>5. buffers' \in Seq(BufferType)
  BY <1>1, <1>2, <1>3
<1>6. \A k \in DOMAIN buffers' : buffers'[k] = b \/ (k \in DOMAIN buffers /\ buffers'[k] = buffers[k])
  BY <1>1, <1>3
<1> QED
  BY <1>2, <1>4, <1>5, <1>6 DEF Placed

\* What is freed stays where it was.
LEMMA FreedIsPlaced ==
    ASSUME Placed(buffers), NEW k \in DOMAIN buffers
    PROVE  Placed([buffers EXCEPT ![k].state = "freed"]) /\ buffers[k].given \in Memory!Indices
<1> DEFINE bs == [buffers EXCEPT ![k].state = "freed"]
<1>1. buffers \in Seq(BufferType) /\ buffers[k] \in BufferType
  BY DEF Placed
<1>2. [buffers[k] EXCEPT !.state = "freed"] \in BufferType
  BY <1>1 DEF BufferType
<1>3. bs \in Seq(BufferType) /\ DOMAIN bs = DOMAIN buffers
  BY <1>1, <1>2
<1>4. \A j \in DOMAIN bs : bs[j] = IF j = k THEN [buffers[k] EXCEPT !.state = "freed"] ELSE buffers[j]
  BY <1>1
<1>5. /\ [buffers[k] EXCEPT !.state = "freed"].at = buffers[k].at
      /\ [buffers[k] EXCEPT !.state = "freed"].given = buffers[k].given
      /\ [buffers[k] EXCEPT !.state = "freed"].state = "freed"
  BY <1>1 DEF BufferType
<1> HIDE DEF bs
<1>6. \A j \in DOMAIN bs : bs[j].at = bs[j].given /\ bs[j].state # "lost"
  BY <1>3, <1>4, <1>5 DEF Placed
<1>7. Placed(bs) /\ buffers[k].given \in Memory!Indices
  BY <1>1, <1>3, <1>6 DEF Placed, BufferType
<1> QED
  BY <1>7 DEF bs

LEMMA MemoryStep ==
    ASSUME Careful, MemoryInv, [Memory!Next]_(Memory!vars)
    PROVE  MemoryInv'
<1>1. CASE UNCHANGED Memory!vars
  BY <1>1 DEF Memory!vars, MemoryInv, Placed
<1>2. CASE Memory!Next
  <2>0. memApi' = memApi
    BY <1>2 DEF Memory!Next, Memory!MakeDevice, Memory!DropDevice, Memory!MakeQueue, Memory!DropQueue,
                Memory!UseDevice, Memory!Alloc, Memory!AllocUnified, Memory!AllocMapped,
                Memory!AllocDeferred, Memory!Allocated, Memory!DropBuffer
  <2>1. Placed(buffers)'
    <3>1. PICK t \in Threads :
             \/ \E i \in Memory!Indices : \/ Memory!MakeDevice(t, i) \/ Memory!DropDevice(t, i)
                                   \/ Memory!MakeQueue(t, i) \/ Memory!DropQueue(t, i)
                                   \/ Memory!UseDevice(t, i)
                                   \/ Memory!Alloc(t, i) \/ Memory!AllocUnified(t, i)
                                   \/ Memory!AllocMapped(t, i) \/ Memory!AllocDeferred(t, i)
             \/ \E k \in DOMAIN buffers : Memory!DropBuffer(t, k)
      BY <1>2 DEF Memory!Next
    <3>2. ASSUME NEW i \in Memory!Indices,
                 Memory!MakeDevice(t, i) \/ Memory!MakeQueue(t, i) \/ Memory!UseDevice(t, i)
          PROVE  Placed(buffers)'
      <4>1. UNCHANGED buffers
        BY <3>2 DEF Memory!MakeDevice, Memory!MakeQueue, Memory!UseDevice
      <4> QED
        BY <4>1 DEF MemoryInv, Placed
    <3>3. ASSUME NEW i \in Memory!Indices, Memory!DropDevice(t, i) \/ Memory!DropQueue(t, i)
          PROVE  Placed(buffers)'
      <4>1. buffers' = buffers
        BY <3>3, DestroyedSparesMemory DEF Memory!DropDevice, Memory!DropQueue, MemoryInv
      <4> QED
        BY <4>1 DEF MemoryInv, Placed
    <3>4. ASSUME NEW i \in Memory!Indices, \/ Memory!Alloc(t, i) \/ Memory!AllocUnified(t, i)
                                    \/ Memory!AllocMapped(t, i) \/ Memory!AllocDeferred(t, i)
          PROVE  Placed(buffers)'
      BY <3>4, AllocatedIsPlaced
         DEF Memory!Alloc, Memory!AllocUnified, Memory!AllocMapped, Memory!AllocDeferred
    <3>5. ASSUME NEW k \in DOMAIN buffers, Memory!DropBuffer(t, k)
          PROVE  Placed(buffers)'
      <4>1. PICK bs : bs = [buffers EXCEPT ![k].state = "freed"]
        OBVIOUS
      <4>2. Placed(bs) /\ buffers[k].given \in Memory!Indices
        BY <4>1, FreedIsPlaced DEF MemoryInv
      <4>3. buffers' = bs
        BY <3>5, <4>1, <4>2, DestroyedSparesMemory DEF Memory!DropBuffer
      <4> QED
        BY <4>2, <4>3 DEF Placed
    <3> QED
      BY <3>1, <3>2, <3>3, <3>4, <3>5
  <2> QED
    BY <2>0, <2>1 DEF MemoryInv
<1> QED
  BY <1>1, <1>2

\* With a single device "all devices can use it" says no more than "its device
\* can": there are two or more.
LEMMA PlacedIsUsable ==
    ASSUME MemDevices \in Nat, MemDevices > 1, MemoryInv
    PROVE  Memory!BuffersAreUsable
<1> SUFFICES ASSUME NEW k \in DOMAIN buffers, Memory!Held(buffers[k])
             PROVE  LET b == buffers[k]
                    IN  /\ b.state # "lost"
                        /\ Memory!CanUse(b.given, b)
                        /\ \A i \in Memory!Indices : Memory!IsDataAccessible(i, b) => Memory!CanUse(i, b)
                        /\ Memory!IsAccessibleOnHost(b) <=> (\A i \in Memory!Indices : Memory!CanUse(i, b))
                        /\ Memory!IsDataAccessible(b.given, b) \/ (memApi = "sycl" /\ b.how = "mapped")
  BY DEF Memory!BuffersAreUsable
<1>1. PICK b \in BufferType : b = buffers[k]
  BY DEF MemoryInv, Placed
<1>2. b.at = b.given /\ b.state # "lost"
  BY <1>1 DEF MemoryInv, Placed
<1>3. Memory!CanUse(b.given, b)
  BY <1>2 DEF Memory!CanUse
<1>4. \A i \in Memory!Indices : Memory!IsDataAccessible(i, b) => Memory!CanUse(i, b)
  BY DEF Memory!IsDataAccessible, Memory!PointerDevice, Memory!IsShared, Memory!CanUse
<1>5. Memory!IsAccessibleOnHost(b) => (\A i \in Memory!Indices : Memory!CanUse(i, b))
  BY DEF Memory!IsAccessibleOnHost, Memory!CanUse
<1>6. (\A i \in Memory!Indices : Memory!CanUse(i, b)) => Memory!IsAccessibleOnHost(b)
  <2>1. \E i \in Memory!Indices : b.at # i
    <3>1. 0 \in Memory!Indices /\ 1 \in Memory!Indices
      BY DEF Memory!Indices
    <3> QED
      BY <3>1
  <2> QED
    BY <2>1 DEF Memory!IsAccessibleOnHost, Memory!CanUse
<1>7. Memory!IsDataAccessible(b.given, b) \/ (memApi = "sycl" /\ b.how = "mapped")
  BY <1>2 DEF Memory!IsDataAccessible, Memory!PointerDevice
<1> QED
  BY <1>1, <1>2, <1>3, <1>4, <1>5, <1>6, <1>7

MemorySpec == Memory!Init /\ [][Memory!Next]_(Memory!vars)

\* Memory that is held is intact, kernels of the device it was asked for can use
\* it, and what is reported accessible is, for any number of threads, devices and
\* buffers, whoever drops which handle, if programs make a device current before
\* they allocate there (Device.hpp of api/unifiedCudaHip does not).
THEOREM MemoryIsUsable ==
    ASSUME Careful, MemDevices \in Nat, MemDevices > 1
    PROVE  MemorySpec => []Memory!BuffersAreUsable
<1>1. Memory!Init => MemoryInv
  BY DEF Memory!Init, MemoryInv, Placed
<1>2. MemoryInv /\ [Memory!Next]_(Memory!vars) => MemoryInv'
  BY MemoryStep
<1>3. MemoryInv => Memory!BuffersAreUsable
  BY PlacedIsUsable
<1> QED
  BY <1>1, <1>2, <1>3, PTL DEF MemorySpec

\* The same of the composition that is model-checked.
THEOREM CheckedMemoryIsUsable ==
    ASSUME Careful, MemDevices \in Nat, MemDevices > 1
    PROVE  MCSpec => []BuffersAreUsable
<1> DEFINE I == memApi # None => MemoryInv
<1>1. MCInit => I
  <2>1. Memory!Init => MemoryInv
    BY DEF Memory!Init, MemoryInv, Placed
  <2>2. MemoryIdle => memApi = None
    BY DEF MemoryIdle
  <2> QED
    BY <2>1, <2>2 DEF MCInit
<1>2. I /\ [MCNext]_<<vars, memVars, handleVars>> => I'
  <2> SUFFICES ASSUME I, [MCNext]_<<vars, memVars, handleVars>> PROVE I'
    OBVIOUS
  <2>1. CASE UNCHANGED memVars
    BY <2>1 DEF memVars, MemoryInv, Placed
  <2>2. CASE memApi # None /\ Memory!Next
    BY <2>2, MemoryStep
  <2> QED
    BY <2>1, <2>2 DEF MCNext
<1>3. I => BuffersAreUsable
  BY PlacedIsUsable DEF BuffersAreUsable
<1> QED
  BY <1>1, <1>2, <1>3, PTL DEF MCSpec

-----------------------------------------------------------------------------
(***************************************************************************)
(* Handles.                                                                *)
(***************************************************************************)
\* Induction over the naturals, for a set: from the library's well-founded order.
LEMMA SetInduction ==
    ASSUME NEW S, 0 \in S, \A n \in Nat : n \in S => n + 1 \in S
    PROVE  Nat \subseteq S
<1> DEFINE T == Nat \ S
           Below == {p \in Nat \X Nat : p[1] < p[2]}
<1> SUFFICES ASSUME T # {} PROVE FALSE
  OBVIOUS
<1>1. IsWellFoundedOn(Below, Nat)
  BY NatLessThanWellFounded DEF OpToRel
<1>2. PICK x \in T : \A y \in T : ~ (<<y, x>> \in Below)
  BY <1>1, WFMin
<1>3. x \in Nat /\ x # 0 /\ x - 1 \in Nat /\ x = (x - 1) + 1
  OBVIOUS
<1>4. <<x - 1, x>> \in Below
  BY <1>3
<1>5. x - 1 \in S
  BY <1>2, <1>3, <1>4
<1> QED
  BY <1>3, <1>5

\* A vector of n naturals has n components.
LEMMA VectorLength ==
    ASSUME NEW n \in Nat, NEW v \in [1 .. n -> Nat]
    PROVE  v \in Seq(Nat) /\ Len(v) = n
<1>1. v \in Seq(Nat)
  OBVIOUS
<1>2. DOMAIN v = 1 .. Len(v) /\ DOMAIN v = 1 .. n /\ Len(v) \in Nat
  BY <1>1
<1> QED
  BY <1>1, <1>2

\* The sums of the first components are what the loop computes.
LEMMA SumsAreDefined ==
    ASSUME NEW n \in Nat, NEW v \in [1 .. n -> Nat]
    PROVE  \E f : /\ Derived!Sum(v) = f[n] /\ f[0] = 0
                  /\ \A k \in 1 .. n : f[k] = f[k - 1] + v[k]
<1> DEFINE Prefixes == {m \in Nat : m <= n => \E f : f = [k \in 0 .. m |-> IF k = 0 THEN 0 ELSE f[k - 1] + v[k]]}
<1>1. 0 \in Prefixes
  <2>1. [k \in 0 .. 0 |-> 0] = [k \in 0 .. 0 |-> IF k = 0 THEN 0 ELSE [j \in 0 .. 0 |-> 0][k - 1] + v[k]]
    OBVIOUS
  <2> QED
    BY <2>1
<1>2. ASSUME NEW m \in Nat, m \in Prefixes PROVE m + 1 \in Prefixes
  <2> SUFFICES ASSUME m + 1 <= n
               PROVE  \E f : f = [k \in 0 .. m + 1 |-> IF k = 0 THEN 0 ELSE f[k - 1] + v[k]]
    OBVIOUS
  <2>1. PICK f : f = [k \in 0 .. m |-> IF k = 0 THEN 0 ELSE f[k - 1] + v[k]]
    BY <1>2
  <2> DEFINE g == [k \in 0 .. m + 1 |-> IF k <= m THEN f[k] ELSE f[m] + v[m + 1]]
  <2>2. ASSUME NEW k \in 0 .. m + 1 PROVE g[k] = IF k = 0 THEN 0 ELSE g[k - 1] + v[k]
    <3>1. CASE k = 0
      BY <2>1, <3>1
    <3>2. CASE k \in 1 .. m
      <4>1. g[k] = f[k] /\ g[k - 1] = f[k - 1] /\ k # 0 /\ k \in 0 .. m
        BY <3>2
      <4>2. f[k] = f[k - 1] + v[k]
        BY <2>1, <4>1
      <4> QED
        BY <4>1, <4>2
    <3>3. CASE k = m + 1
      <4>1. g[k] = f[m] + v[m + 1] /\ g[k - 1] = f[m] /\ k # 0
        BY <3>3
      <4> QED
        BY <3>3, <4>1
    <3> QED
      BY <3>1, <3>2, <3>3
  <2>3. g = [k \in 0 .. m + 1 |-> IF k = 0 THEN 0 ELSE g[k - 1] + v[k]]
    <3>1. DOMAIN g = 0 .. m + 1 /\ g = [k \in 0 .. m + 1 |-> g[k]]
      OBVIOUS
    <3> HIDE DEF g
    <3> QED
      BY <2>2, <3>1
  <2> QED
    BY <2>3
<1>3. n \in Prefixes
  <2>1. Nat \subseteq Prefixes
    <3> HIDE DEF Prefixes
    <3> QED
      BY <1>1, <1>2, SetInduction
  <2> QED
    BY <2>1
<1>4. Len(v) = n
  BY VectorLength
<1>5. \E f : f = [k \in 0 .. Len(v) |-> IF k = 0 THEN 0 ELSE f[k - 1] + v[k]]
  BY <1>3, <1>4
<1>6. PICK f : f = Derived!PrefixSums(v)
  OBVIOUS
<1>7. f = [k \in 0 .. Len(v) |-> IF k = 0 THEN 0 ELSE f[k - 1] + v[k]]
  BY <1>5, <1>6, Zenon DEF Derived!PrefixSums
<1>8. f[0] = 0 /\ \A k \in 1 .. n : f[k] = f[k - 1] + v[k]
  BY <1>4, <1>7
<1>9. Derived!Sum(v) = f[n]
  BY <1>4, <1>6 DEF Derived!Sum
<1> QED
  BY <1>8, <1>9

\* w is the sum of u and v; w is the multiple of v by s.
Adds(n, u, v, w) == /\ u \in [1 .. n -> Nat] /\ v \in [1 .. n -> Nat] /\ w \in [1 .. n -> Nat]
                    /\ \A d \in 1 .. n : w[d] = u[d] + v[d]
Scales(n, s, v, w) == /\ v \in [1 .. n -> Nat] /\ w \in [1 .. n -> Nat]
                      /\ \A d \in 1 .. n : w[d] = s * v[d]

\* Sums are naturals; the sum of sums is the sum.
LEMMA SumIsLinear ==
    ASSUME NEW n \in Nat, NEW u, NEW v, NEW w, Adds(n, u, v, w)
    PROVE  /\ Derived!Sum(u) \in Nat /\ Derived!Sum(v) \in Nat
           /\ Derived!Sum(w) = Derived!Sum(u) + Derived!Sum(v)
<1>0. /\ u \in [1 .. n -> Nat] /\ v \in [1 .. n -> Nat] /\ w \in [1 .. n -> Nat]
      /\ \A d \in 1 .. n : w[d] = u[d] + v[d]
  BY DEF Adds
<1>1. PICK f : Derived!Sum(u) = f[n] /\ f[0] = 0 /\ \A k \in 1 .. n : f[k] = f[k - 1] + u[k]
  BY <1>0, SumsAreDefined
<1>2. PICK g : Derived!Sum(v) = g[n] /\ g[0] = 0 /\ \A k \in 1 .. n : g[k] = g[k - 1] + v[k]
  BY <1>0, SumsAreDefined
<1>3. PICK h : Derived!Sum(w) = h[n] /\ h[0] = 0 /\ \A k \in 1 .. n : h[k] = h[k - 1] + w[k]
  BY <1>0, SumsAreDefined
<1> DEFINE Equal == {m \in Nat : m <= n => f[m] \in Nat /\ g[m] \in Nat /\ h[m] = f[m] + g[m]}
<1>4. 0 \in Equal
  BY <1>1, <1>2, <1>3
<1>5. ASSUME NEW m \in Nat, m \in Equal PROVE m + 1 \in Equal
  <2> SUFFICES ASSUME m + 1 <= n
               PROVE  f[m + 1] \in Nat /\ g[m + 1] \in Nat /\ h[m + 1] = f[m + 1] + g[m + 1]
    OBVIOUS
  <2>1. PICK k \in 1 .. n : k = m + 1 /\ k - 1 = m
    OBVIOUS
  <2>2. f[m] \in Nat /\ g[m] \in Nat /\ h[m] = f[m] + g[m]
    BY <1>5
  <2>3. f[k] = f[m] + u[k] /\ g[k] = g[m] + v[k] /\ h[k] = h[m] + w[k]
    BY <1>1, <1>2, <1>3, <2>1
  <2>4. u[k] \in Nat /\ v[k] \in Nat /\ w[k] = u[k] + v[k]
    BY <1>0
  <2>5. PICK a \in Nat, b \in Nat, x \in Nat, y \in Nat :
            a = f[m] /\ b = g[m] /\ x = u[k] /\ y = v[k]
    BY <2>2, <2>4
  <2>6. f[k] = a + x /\ g[k] = b + y /\ h[k] = (a + b) + (x + y)
    BY <2>2, <2>3, <2>4, <2>5
  <2>7. f[k] \in Nat /\ g[k] \in Nat /\ h[k] = f[k] + g[k]
    BY <2>6
  <2> QED
    BY <2>1, <2>7
<1>6. n \in Equal
  <2>1. Nat \subseteq Equal
    <3> HIDE DEF Equal
    <3> QED
      BY <1>4, <1>5, SetInduction
  <2> QED
    BY <2>1
<1> QED
  BY <1>1, <1>2, <1>3, <1>6

\* A common factor is a factor of the sum.
LEMMA SumScales ==
    ASSUME NEW n \in Nat, NEW s \in Nat, NEW v, NEW w, Scales(n, s, v, w)
    PROVE  Derived!Sum(v) \in Nat /\ Derived!Sum(w) = s * Derived!Sum(v)
<1>0. v \in [1 .. n -> Nat] /\ w \in [1 .. n -> Nat] /\ \A d \in 1 .. n : w[d] = s * v[d]
  BY DEF Scales
<1>1. PICK f : Derived!Sum(v) = f[n] /\ f[0] = 0 /\ \A k \in 1 .. n : f[k] = f[k - 1] + v[k]
  BY <1>0, SumsAreDefined
<1>2. PICK g : Derived!Sum(w) = g[n] /\ g[0] = 0 /\ \A k \in 1 .. n : g[k] = g[k - 1] + w[k]
  BY <1>0, SumsAreDefined
<1> DEFINE Scaled == {m \in Nat : m <= n => f[m] \in Nat /\ g[m] = s * f[m]}
<1>3. 0 \in Scaled
  BY <1>1, <1>2
<1>4. ASSUME NEW m \in Nat, m \in Scaled PROVE m + 1 \in Scaled
  <2> SUFFICES ASSUME m + 1 <= n
               PROVE  f[m + 1] \in Nat /\ g[m + 1] = s * f[m + 1]
    OBVIOUS
  <2>1. PICK k \in 1 .. n : k = m + 1 /\ k - 1 = m
    OBVIOUS
  <2>2. f[m] \in Nat /\ g[m] = s * f[m]
    BY <1>4
  <2>3. f[k] = f[m] + v[k] /\ g[k] = g[m] + w[k]
    BY <1>1, <1>2, <2>1
  <2>4. v[k] \in Nat /\ w[k] = s * v[k]
    BY <1>0
  <2>5. PICK a \in Nat, b \in Nat : a = f[m] /\ b = v[k]
    BY <2>2, <2>4
  <2>6. f[k] = a + b /\ g[k] = s * a + s * b
    BY <2>2, <2>3, <2>4, <2>5
  <2>7. s * a + s * b = s * (a + b) /\ a + b \in Nat
    OBVIOUS
  <2>8. f[k] \in Nat /\ g[k] = s * f[k]
    BY <2>6, <2>7
  <2> QED
    BY <2>1, <2>8
<1>5. n \in Scaled
  <2>1. Nat \subseteq Scaled
    <3> HIDE DEF Scaled
    <3> QED
      BY <1>3, <1>4, SetInduction
  <2> QED
    BY <2>1
<1> QED
  BY <1>1, <1>2, <1>5

\* Quotients of multiples.
LEMMA Multiple ==
    ASSUME NEW s \in Nat \ {0}, NEW q \in Nat
    PROVE  (s * q) % s = 0
  OBVIOUS

\* A number without remainder is a multiple.
LEMMA NoRemainder ==
    ASSUME NEW s \in Nat \ {0}, NEW n \in Nat, n % s = 0
    PROVE  \E q \in Nat : n = s * q
<1>1. n \div s \in Nat /\ n = s * (n \div s) + (n % s)
  OBVIOUS
<1> QED
  BY <1>1

\* The components of p are multiples of s.
Multiples(p, n, s) == \E q \in [1 .. n -> Nat] : p = [d \in 1 .. n |-> s * q[d]]

\* Pitches are multiples of the size of an element if the row pitch is one.
LEMMA PitchesAreMultiples ==
    ASSUME NEW n \in Nat \ {0}, NEW e \in [1 .. n -> Nat], NEW size \in Nat \ {0}, NEW r \in Nat
    PROVE  Multiples(Derived!CalculatePitches(e, size * r, size), n, size)
<1> DEFINE Unit(f, d) == IF d = n THEN 1 ELSE IF d = n - 1 THEN r ELSE e[d + 1] * f[d + 1]
           From(m) == {f \in [n - m .. n -> Nat] : \A d \in n - m .. n : f[d] = Unit(f, d)}
           Tails == {m \in Nat : m < n => From(m) # {}}
<1>1. 0 \in Tails
  <2> DEFINE f == [d \in n - 0 .. n |-> 1]
  <2>1. f \in [n - 0 .. n -> Nat] /\ \A d \in n - 0 .. n : d = n /\ f[d] = 1
    OBVIOUS
  <2>2. \A d \in n - 0 .. n : f[d] = Unit(f, d)
    BY <2>1
  <2>3. f \in From(0)
    BY <2>1, <2>2
  <2> QED
    BY <2>3
<1>2. ASSUME NEW m \in Nat, m \in Tails PROVE m + 1 \in Tails
  <2> HIDE DEF From
  <2> SUFFICES ASSUME m + 1 < n PROVE From(m + 1) # {}
    OBVIOUS
  <2>1. PICK f \in From(m) : TRUE
    BY <1>2
  <2> USE DEF From
  <2>2. f \in [n - m .. n -> Nat] /\ \A d \in n - m .. n : f[d] = Unit(f, d)
    BY <2>1
  <2>3. PICK k \in 1 .. n : k = n - (m + 1) /\ k + 1 = n - m /\ k + 1 \in 1 .. n
    OBVIOUS
  <2>4. e[k + 1] \in Nat /\ f[k + 1] \in Nat
    BY <2>2, <2>3
  <2>5. PICK x \in Nat : x = Unit(f, k)
    <3>1. PICK a \in Nat, b \in Nat : a = e[k + 1] /\ b = f[k + 1]
      BY <2>4
    <3>2. a * b \in Nat
      OBVIOUS
    <3>3. Unit(f, k) \in Nat
      BY <3>1, <3>2
    <3> QED
      BY <3>3
  <2> DEFINE g == [d \in n - (m + 1) .. n |-> IF d = k THEN x ELSE f[d]]
  <2>6. g \in [n - (m + 1) .. n -> Nat]
    BY <2>2, <2>3
  <2>7. ASSUME NEW d \in n - (m + 1) .. n PROVE g[d] = Unit(g, d)
    <3>1. d # n => g[d + 1] = f[d + 1]
      BY <2>3
    <3>2. Unit(g, d) = Unit(f, d)
      BY <3>1
    <3>3. CASE d = k
      BY <2>5, <3>2, <3>3
    <3>4. CASE d # k
      <4>1. d \in n - m .. n /\ g[d] = f[d]
        BY <2>3, <3>4
      <4> QED
        BY <2>2, <3>2, <4>1
    <3> QED
      BY <3>3, <3>4
  <2>8. g \in From(m + 1)
    BY <2>6, <2>7
  <2> QED
    BY <2>8
<1>3. n - 1 \in Nat /\ n - 1 \in Tails /\ n - (n - 1) = 1
  <2>1. Nat \subseteq Tails
    <3> HIDE DEF Tails
    <3> QED
      BY <1>1, <1>2, SetInduction
  <2>2. n - 1 \in Nat /\ n - (n - 1) = 1
    OBVIOUS
  <2> QED
    BY <2>1, <2>2
<1>4. PICK q \in [1 .. n -> Nat] : \A d \in 1 .. n : q[d] = Unit(q, d)
  <2>1. From(n - 1) # {}
    BY <1>3
  <2>2. PICK q \in From(n - 1) : TRUE
    BY <2>1
  <2> QED
    BY <1>3, <2>2
<1> DEFINE Pitch(f, d) == CASE d = n     -> size
                            [] d = n - 1 -> size * r
                            [] OTHER     -> e[d + 1] * f[d + 1]
           p == [d \in 1 .. n |-> size * q[d]]
<1>5. ASSUME NEW d \in 1 .. n PROVE size * q[d] = Pitch(p, d)
  <2>1. CASE d = n
    <3>1. q[d] = 1
      BY <1>4, <2>1
    <3> QED
      BY <2>1, <3>1
  <2>2. CASE d = n - 1
    <3>1. q[d] = r /\ d # n
      BY <1>4, <2>2
    <3> QED
      BY <2>2, <3>1
  <2>3. CASE d # n /\ d # n - 1
    <3>1. q[d] = e[d + 1] * q[d + 1] /\ d + 1 \in 1 .. n
      BY <1>4, <2>3
    <3>2. PICK x \in Nat, y \in Nat : x = e[d + 1] /\ y = q[d + 1]
      BY <3>1
    <3>3. p[d + 1] = size * y
      BY <3>1, <3>2
    <3>4. size * (x * y) = x * (size * y)
      OBVIOUS
    <3>5. Pitch(p, d) = e[d + 1] * p[d + 1]
      BY <2>3
    <3> QED
      BY <3>1, <3>2, <3>3, <3>4, <3>5
  <2> QED
    BY <2>1, <2>2, <2>3
<1>6. p = [d \in 1 .. n |-> Pitch(p, d)]
  BY <1>5
<1>7. Len(e) = n
  BY VectorLength
<1>8. PICK c : c = Derived!CalculatePitches(e, size * r, size)
  OBVIOUS
<1>9. c = [d \in 1 .. n |-> Pitch(c, d)]
  <2> DEFINE Of(f, d) == CASE d = Len(e)     -> size
                           [] d = Len(e) - 1 -> size * r
                           [] OTHER          -> e[d + 1] * f[d + 1]
  <2>1. p = [d \in 1 .. Len(e) |-> Of(p, d)]
    BY <1>6, <1>7
  <2>2. c = CHOOSE f : f = [d \in 1 .. Len(e) |-> Of(f, d)]
    BY <1>8, Zenon DEF Derived!CalculatePitches
  <2>3. c = [d \in 1 .. Len(e) |-> Of(c, d)]
    <3>1. \E f : f = [d \in 1 .. Len(e) |-> Of(f, d)]
      BY <2>1, Zenon
    <3> HIDE DEF Of
    <3> QED
      BY <2>2, <3>1, Zenon
  <2> QED
    BY <1>7, <2>3
<1> DEFINE Same == {m \in Nat : m < n => c[n - m] = p[n - m]}
<1>10. 0 \in Same
  <2>1. n - 0 = n /\ n \in 1 .. n
    OBVIOUS
  <2>2. c[n] = Pitch(c, n) /\ p[n] = Pitch(p, n)
    BY <1>5, <1>9, <2>1
  <2> QED
    BY <2>1, <2>2
<1>11. ASSUME NEW m \in Nat, m \in Same PROVE m + 1 \in Same
  <2> SUFFICES ASSUME m + 1 < n PROVE c[n - (m + 1)] = p[n - (m + 1)]
    OBVIOUS
  <2>1. PICK k \in 1 .. n : k = n - (m + 1) /\ k + 1 = n - m
    OBVIOUS
  <2>2. c[k + 1] = p[k + 1]
    BY <1>11, <2>1
  <2>3. c[k] = Pitch(c, k) /\ p[k] = Pitch(p, k)
    BY <1>5, <1>9
  <2>4. Pitch(c, k) = Pitch(p, k)
    BY <2>2
  <2> QED
    BY <2>1, <2>3, <2>4
<1>12. ASSUME NEW d \in 1 .. n PROVE c[d] = size * q[d]
  <2>1. Nat \subseteq Same
    <3> HIDE DEF Same
    <3> QED
      BY <1>10, <1>11, SetInduction
  <2>2. n - d \in Nat /\ n - d < n /\ n - (n - d) = d
    OBVIOUS
  <2>3. c[d] = p[d]
    BY <2>1, <2>2
  <2> QED
    BY <2>3
<1>13. c = [d \in 1 .. n |-> size * q[d]]
  <2>1. c = [d \in 1 .. n |-> c[d]]
    <3>1. PICK F : F = [d \in 1 .. n |-> Pitch(c, d)]
      OBVIOUS
    <3>2. F = [d \in 1 .. n |-> F[d]]
      BY <3>1
    <3> QED
      BY <1>9, <3>1, <3>2
  <2> QED
    BY <1>12, <2>1
<1> QED
  BY <1>8, <1>13 DEF Multiples

\* InPlace(r, view, at, align): the view has the pitches of the root, begins at the
\* position at of it and does not reach beyond it; more than the alignment of an
\* element is only claimed at the origin.
InPlace(r, view, at, align) ==
    /\ Derived!LegalRoot(r)
    /\ view = [ptr |-> view.ptr, extents |-> view.extents,
               pitches |-> Derived!RootView(r).pitches, size |-> r.size]
    /\ view.extents \in [DOMAIN r.extents -> Nat]
    /\ at \in [DOMAIN r.extents -> Nat]
    /\ \A d \in DOMAIN r.extents : at[d] + view.extents[d] <= r.extents[d]
    /\ view.ptr = Derived!Sum(Derived!Times(at, view.pitches))
    /\ align # Derived!Auto => /\ align = r.align
                               /\ view.ptr = 0

\* The view of the root: its pitches are multiples of the size of its elements.
LEMMA RootIsPlaced ==
    ASSUME NEW r, Derived!LegalRoot(r)
    PROVE  /\ \E q \in [DOMAIN r.extents -> Nat] :
                  Derived!RootView(r).pitches = [d \in DOMAIN r.extents |-> r.size * q[d]]
           /\ Derived!RootView(r) = [ptr |-> 0, extents |-> r.extents,
                                     pitches |-> Derived!RootView(r).pitches, size |-> r.size]
<1>0. PICK n \in Nat \ {0} : n = Len(r.extents)
  BY DEF Derived!LegalRoot
<1>1. PICK size \in Nat \ {0}, e \in [1 .. n -> Nat] : size = r.size /\ e = r.extents
  BY <1>0 DEF Derived!LegalRoot
<1>2. DOMAIN r.extents = 1 .. n /\ Len(e) = n /\ e[n] \in Nat
  BY <1>0, <1>1
<1>3. ASSUME NEW row, NEW k \in Nat, row = size * k
      PROVE  Multiples(Derived!CalculatePitches(e, row, size), n, size)
  <2>1. Multiples(Derived!CalculatePitches(e, size * k, size), n, size)
    BY PitchesAreMultiples
  <2> QED
    BY <1>3, <2>1
<1>4. n = 1 => Multiples(<<size>>, n, size)
  <2> SUFFICES ASSUME n = 1 PROVE \E q \in [1 .. n -> Nat] : <<size>> = [d \in 1 .. n |-> size * q[d]]
    BY DEF Multiples
  <2> DEFINE q == [d \in 1 .. 1 |-> 1]
  <2>1. q \in [1 .. n -> Nat] /\ <<size>> = [d \in 1 .. n |-> size * q[d]]
    OBVIOUS
  <2> QED
    BY <2>1
<1>5. ASSUME NEW p, Multiples(p, n, size),
             Derived!RootView(r) = [ptr |-> 0, extents |-> e, pitches |-> p, size |-> size]
      PROVE  /\ \E q \in [DOMAIN r.extents -> Nat] :
                    Derived!RootView(r).pitches = [d \in DOMAIN r.extents |-> r.size * q[d]]
             /\ Derived!RootView(r) = [ptr |-> 0, extents |-> r.extents,
                                       pitches |-> Derived!RootView(r).pitches, size |-> r.size]
  <2>1. Derived!RootView(r).pitches = p /\ r.extents = e /\ r.size = size /\ DOMAIN r.extents = 1 .. n
    BY <1>1, <1>2, <1>5
  <2> QED
    BY <1>5, <2>1 DEF Multiples
<1>6. CASE r.kind = "array"
  <2>1. Derived!CArrayType(r.extents) = e
    BY <1>1, <1>6 DEF Derived!LegalRoot
  <2>2. Derived!RootView(r) = Derived!ArrayView(0, e, size)
    BY <1>1, <1>6 DEF Derived!RootView
  <2>3. PICK p : p = Derived!PitchesFromExtents(e, size)
    OBVIOUS
  <2>4. Derived!RootView(r) = [ptr |-> 0, extents |-> e, pitches |-> p, size |-> size]
    BY <1>1, <2>1, <2>2, <2>3 DEF Derived!ArrayView, Derived!MakeView
  <2>5. Multiples(p, n, size)
    <3>1. PICK k \in Nat : k = e[n]
      BY <1>2
    <3>2. k * size = size * k
      OBVIOUS
    <3>3. p = Derived!CalculatePitches(e, k * size, size)
      BY <1>2, <2>3, <3>1 DEF Derived!PitchesFromExtents
    <3> QED
      BY <1>3, <3>2, <3>3
  <2> QED
    BY <1>5, <2>4, <2>5
<1>7. CASE r.kind = "std"
  <2>1. n = 1
    BY <1>0, <1>7 DEF Derived!LegalRoot
  <2>2. Derived!RootView(r) = [ptr |-> 0, extents |-> e, pitches |-> <<size>>, size |-> size]
    BY <1>1, <1>7 DEF Derived!RootView, Derived!StdView, Derived!MakeView
  <2> QED
    BY <1>4, <1>5, <2>1, <2>2
<1>8. CASE r.kind \in {"buffer", "view", "span"}
  <2>1. r.align \in Nat \ {0} /\ r.align % size = 0
    BY <1>1, <1>8 DEF Derived!LegalRoot
  <2>2. PICK a \in Nat \ {0}, c \in Nat : a = r.align /\ a = size * c
    BY <2>1, NoRemainder
  <2>3. PICK p : p = Derived!AlignedMemDescription(a, e, size).pitches
    OBVIOUS
  <2>4. Derived!RootView(r) = [ptr |-> 0, extents |-> e, pitches |-> p, size |-> size]
    BY <1>1, <1>8, <2>2, <2>3 DEF Derived!RootView, Derived!MakeView
  <2>5. Multiples(p, n, size)
    <3>1. CASE n = 1
      <4>1. p = <<size>>
        BY <1>2, <2>3, <3>1 DEF Derived!AlignedMemDescription
      <4> QED
        BY <1>4, <3>1, <4>1
    <3>2. CASE n # 1
      <4>1. PICK x : x = (e[n] * size + a - 1) \div a
        OBVIOUS
      <4>2. x \in Nat
        <5>1. PICK y \in Nat : y = e[n] * size
          <6>1. PICK z \in Nat : z = e[n]
            BY <1>2
          <6>2. z * size \in Nat
            OBVIOUS
          <6> QED
            BY <6>1, <6>2
        <5>2. (y + a - 1) \div a \in Nat
          OBVIOUS
        <5> QED
          BY <4>1, <5>1, <5>2
      <4>3. p = Derived!CalculatePitches(e, x * a, size)
        BY <1>2, <2>3, <3>2, <4>1 DEF Derived!AlignedMemDescription
      <4>4. x * a = size * (c * x) /\ c * x \in Nat
        BY <2>2, <4>2
      <4> QED
        BY <1>3, <4>3, <4>4
    <3> QED
      BY <3>1, <3>2
  <2> QED
    BY <1>5, <2>4, <2>5
<1> QED
  BY <1>6, <1>7, <1>8 DEF Derived!LegalRoot

\* Distances by pitches: those of sums of indices are sums of distances, and
\* multiples of what divides all pitches.
LEMMA Distances ==
    ASSUME NEW n \in Nat, NEW a \in [1 .. n -> Nat], NEW b \in [1 .. n -> Nat],
           NEW p \in [1 .. n -> Nat], NEW s \in Nat \ {0}, Multiples(p, n, s)
    PROVE  /\ Derived!Sum(Derived!Times(a, p)) \in Nat /\ Derived!Sum(Derived!Times(b, p)) \in Nat
           /\ Derived!Sum(Derived!Times(Derived!Plus(a, b), p))
                = Derived!Sum(Derived!Times(a, p)) + Derived!Sum(Derived!Times(b, p))
           /\ Derived!Sum(Derived!Times(a, p)) % s = 0
<1>1. PICK u, v, w : /\ u = Derived!Times(a, p) /\ v = Derived!Times(b, p)
                     /\ w = Derived!Times(Derived!Plus(a, b), p)
  OBVIOUS
<1>2. /\ u = [d \in 1 .. n |-> a[d] * p[d]] /\ v = [d \in 1 .. n |-> b[d] * p[d]]
      /\ w = [d \in 1 .. n |-> (a[d] + b[d]) * p[d]]
  BY <1>1 DEF Derived!Times, Derived!Plus
<1>3. ASSUME NEW d \in 1 .. n PROVE u[d] \in Nat /\ v[d] \in Nat /\ w[d] = u[d] + v[d] /\ w[d] \in Nat
  <2>1. PICK x \in Nat, y \in Nat, z \in Nat : x = a[d] /\ y = b[d] /\ z = p[d]
    OBVIOUS
  <2>2. u[d] = x * z /\ v[d] = y * z /\ w[d] = (x + y) * z
    BY <1>2, <2>1
  <2>3. x * z \in Nat /\ y * z \in Nat /\ (x + y) * z = x * z + y * z /\ (x + y) * z \in Nat
    OBVIOUS
  <2> QED
    BY <2>2, <2>3
<1>4. Adds(n, u, v, w)
  <2>1. u = [d \in 1 .. n |-> u[d]] /\ v = [d \in 1 .. n |-> v[d]] /\ w = [d \in 1 .. n |-> w[d]]
    BY <1>2
  <2> QED
    BY <1>3, <2>1 DEF Adds
<1>5. /\ Derived!Sum(u) \in Nat /\ Derived!Sum(v) \in Nat
      /\ Derived!Sum(w) = Derived!Sum(u) + Derived!Sum(v)
  BY <1>4, SumIsLinear
<1>6. PICK q \in [1 .. n -> Nat] : p = [d \in 1 .. n |-> s * q[d]]
  BY DEF Multiples
<1>7. PICK f : f = [d \in 1 .. n |-> a[d] * q[d]]
  OBVIOUS
<1>8. Scales(n, s, f, u)
  <2> SUFFICES ASSUME NEW d \in 1 .. n PROVE f[d] \in Nat /\ u[d] = s * f[d]
    <3>1. f = [d \in 1 .. n |-> f[d]] /\ u \in [1 .. n -> Nat]
      BY <1>4, <1>7 DEF Adds
    <3> QED
      BY <3>1 DEF Scales
  <2>1. PICK x \in Nat, y \in Nat : x = a[d] /\ y = q[d]
    OBVIOUS
  <2>2. f[d] = x * y /\ u[d] = x * (s * y)
    BY <1>2, <1>6, <1>7, <2>1
  <2>3. x * y \in Nat /\ x * (s * y) = s * (x * y)
    OBVIOUS
  <2> QED
    BY <2>2, <2>3
<1>9. Derived!Sum(f) \in Nat /\ Derived!Sum(u) = s * Derived!Sum(f)
  BY <1>8, SumScales
<1>10. Derived!Sum(u) % s = 0
  <2>1. PICK k \in Nat : k = Derived!Sum(f)
    BY <1>9
  <2> QED
    BY <1>9, <2>1, Multiple
<1> QED
  BY <1>1, <1>5, <1>10

\* What a placed view has to do with its root.
LEMMA PlacedSizes ==
    ASSUME NEW r, NEW view, NEW at, NEW align, InPlace(r, view, at, align)
    PROVE  \E n \in Nat : /\ DOMAIN r.extents = 1 .. n /\ DOMAIN view.extents = 1 .. n /\ DOMAIN at = 1 .. n
                          /\ r.extents \in [1 .. n -> Nat]
                          /\ view.extents \in [1 .. n -> Nat] /\ at \in [1 .. n -> Nat]
                          /\ view.pitches \in [1 .. n -> Nat]
                          /\ r.size \in Nat \ {0} /\ Multiples(view.pitches, n, r.size)
<1>1. Derived!LegalRoot(r)
  BY DEF InPlace
<1>2. PICK n \in Nat : /\ DOMAIN r.extents = 1 .. n /\ r.size \in Nat \ {0}
                       /\ r.extents \in [1 .. n -> Nat]
  <2>1. PICK n \in Nat \ {0} : n = Len(r.extents)
    BY <1>1 DEF Derived!LegalRoot
  <2>2. r.extents \in [1 .. n -> Nat \ {0}] /\ r.size \in Nat \ {0}
    BY <1>1, <2>1 DEF Derived!LegalRoot
  <2> QED
    BY <2>2
<1>3. view.pitches = Derived!RootView(r).pitches
  <2>1. PICK p, x, e, z : p = Derived!RootView(r).pitches /\ x = view.ptr /\ e = view.extents /\ z = r.size
    OBVIOUS
  <2>2. view = [ptr |-> x, extents |-> e, pitches |-> p, size |-> z]
    BY <2>1 DEF InPlace
  <2> QED
    BY <2>1, <2>2
<1>4. Multiples(view.pitches, n, r.size)
  BY <1>1, <1>2, <1>3, RootIsPlaced DEF Multiples
<1>5. view.pitches \in [1 .. n -> Nat]
  <2>1. PICK p, s : p = view.pitches /\ s = r.size /\ s \in Nat \ {0}
    BY <1>2
  <2>2. PICK q \in [1 .. n -> Nat] : p = [d \in 1 .. n |-> s * q[d]]
    BY <1>4, <2>1 DEF Multiples
  <2>3. ASSUME NEW d \in 1 .. n PROVE p[d] \in Nat
    <3>1. PICK x \in Nat : x = q[d]
      OBVIOUS
    <3>2. s * x \in Nat
      BY <2>1
    <3>3. p[d] = s * x
      BY <2>2, <3>1
    <3> QED
      BY <3>2, <3>3
  <2>4. p = [d \in 1 .. n |-> p[d]]
    BY <2>2
  <2> QED
    BY <2>1, <2>3, <2>4
<1>6. view.extents \in [1 .. n -> Nat] /\ at \in [1 .. n -> Nat]
  BY <1>2 DEF InPlace
<1> QED
  BY <1>2, <1>4, <1>5, <1>6

\* A part that begins elsewhere is placed.
LEMMA ShiftIsPlaced ==
    ASSUME NEW r, NEW view, NEW at, NEW align, InPlace(r, view, at, align),
           NEW offset \in [DOMAIN r.extents -> Nat], NEW extents \in [DOMAIN r.extents -> Nat],
           \A d \in DOMAIN r.extents : offset[d] + extents[d] <= view.extents[d]
    PROVE  InPlace(r, Derived!GetSubView(view, offset, extents), Derived!Plus(at, offset), Derived!Auto)
<1>1. PICK n \in Nat : /\ DOMAIN r.extents = 1 .. n /\ DOMAIN view.extents = 1 .. n /\ DOMAIN at = 1 .. n
                       /\ r.extents \in [1 .. n -> Nat]
                       /\ view.extents \in [1 .. n -> Nat] /\ at \in [1 .. n -> Nat]
                       /\ view.pitches \in [1 .. n -> Nat]
                       /\ r.size \in Nat \ {0} /\ Multiples(view.pitches, n, r.size)
  BY PlacedSizes
<1>2. PICK p, sum, v : /\ p = view.pitches /\ sum = Derived!Plus(at, offset)
                       /\ v = Derived!GetSubView(view, offset, extents)
  OBVIOUS
<1>3. PICK f, x, z : f = Derived!RootView(r).pitches /\ x = view.ptr /\ z = r.size
  OBVIOUS
<1>4. /\ Derived!LegalRoot(r) /\ view = [ptr |-> x, extents |-> view.extents, pitches |-> f, size |-> z]
      /\ \A d \in 1 .. n : at[d] + view.extents[d] <= r.extents[d]
      /\ x = Derived!Sum(Derived!Times(at, p))
  BY <1>1, <1>2, <1>3 DEF InPlace
<1>5. p = f /\ view.size = z
  BY <1>2, <1>4
<1>6. v = [ptr |-> x + Derived!Sum(Derived!Times(offset, p)), extents |-> extents, pitches |-> f, size |-> z]
  BY <1>2, <1>3, <1>5 DEF Derived!GetSubView, Derived!MakeView, Derived!Ptr
<1>7. x + Derived!Sum(Derived!Times(offset, p)) = Derived!Sum(Derived!Times(sum, p))
  <2>1. offset \in [1 .. n -> Nat] /\ at \in [1 .. n -> Nat] /\ p \in [1 .. n -> Nat]
    BY <1>1, <1>2
  <2>2. PICK s \in Nat \ {0} : Multiples(p, n, s)
    BY <1>1, <1>2
  <2>3. Derived!Sum(Derived!Times(Derived!Plus(at, offset), p))
          = Derived!Sum(Derived!Times(at, p)) + Derived!Sum(Derived!Times(offset, p))
    BY <2>1, <2>2, Distances
  <2> QED
    BY <1>2, <1>4, <2>3
<1>8. /\ sum \in [1 .. n -> Nat]
      /\ \A d \in 1 .. n : sum[d] + extents[d] <= r.extents[d]
  <2>1. sum = [d \in 1 .. n |-> at[d] + offset[d]]
    BY <1>1, <1>2 DEF Derived!Plus
  <2>2. ASSUME NEW d \in 1 .. n PROVE sum[d] \in Nat /\ sum[d] + extents[d] <= r.extents[d]
    <3>1. at[d] \in Nat /\ offset[d] \in Nat /\ extents[d] \in Nat /\ view.extents[d] \in Nat /\ r.extents[d] \in Nat
      BY <1>1
    <3>2. at[d] + view.extents[d] <= r.extents[d] /\ offset[d] + extents[d] <= view.extents[d]
      BY <1>1, <1>4
    <3> QED
      BY <2>1, <3>1, <3>2
  <2> QED
    BY <2>1, <2>2
<1>9. InPlace(r, v, sum, Derived!Auto)
  <2>1. v.pitches = f /\ v.extents = extents /\ v.ptr = Derived!Sum(Derived!Times(sum, p))
    BY <1>6, <1>7
  <2> QED
    BY <1>1, <1>3, <1>4, <1>5, <1>6, <1>8, <2>1 DEF InPlace
<1> QED
  BY <1>2, <1>9

\* A part from the origin on is placed.
LEMMA ShrinkIsPlaced ==
    ASSUME NEW r, NEW view, NEW at, NEW align, InPlace(r, view, at, align),
           NEW extents \in [DOMAIN r.extents -> Nat],
           \A d \in DOMAIN r.extents : extents[d] <= view.extents[d]
    PROVE  InPlace(r, [view EXCEPT !.extents = extents], at, align)
<1>1. PICK v, x, f, z : /\ v = [view EXCEPT !.extents = extents] /\ x = view.ptr
                        /\ f = Derived!RootView(r).pitches /\ z = r.size
  OBVIOUS
<1>2. /\ Derived!LegalRoot(r) /\ view = [ptr |-> x, extents |-> view.extents, pitches |-> f, size |-> z]
      /\ \A d \in DOMAIN r.extents : at[d] + view.extents[d] <= r.extents[d]
      /\ at \in [DOMAIN r.extents -> Nat] /\ view.extents \in [DOMAIN r.extents -> Nat]
      /\ x = Derived!Sum(Derived!Times(at, f))
      /\ align # Derived!Auto => align = r.align /\ x = 0
  <2>1. view.pitches = f
    <3>1. view = [ptr |-> x, extents |-> view.extents, pitches |-> f, size |-> z]
      BY <1>1 DEF InPlace
    <3> QED
      BY <3>1
  <2> QED
    BY <1>1, <2>1 DEF InPlace
<1>3. v = [ptr |-> x, extents |-> extents, pitches |-> f, size |-> z]
  BY <1>1, <1>2
<1>4. ASSUME NEW d \in DOMAIN r.extents PROVE at[d] + extents[d] <= r.extents[d]
  <2>1. r.extents[d] \in Nat
    BY <1>2 DEF Derived!LegalRoot
  <2> QED
    BY <1>2, <2>1
<1>5. v.ptr = x /\ v.extents = extents /\ v.pitches = f
  BY <1>3
<1>6. InPlace(r, v, at, align)
  BY <1>1, <1>2, <1>3, <1>4, <1>5 DEF InPlace
<1> QED
  BY <1>1, <1>6

\* So is the part in a direction of halos of one element.
LEMMA BoundaryIsPlaced ==
    ASSUME NEW r, NEW view, NEW at, NEW align, InPlace(r, view, at, align),
           \A d \in DOMAIN view.extents : view.extents[d] >= 2,
           NEW dir \in [DOMAIN view.extents -> {"LOWER", "MIDDLE", "UPPER"}],
           NEW one, one = Derived!Fill(view.extents, 1),
           NEW offset, offset = [d \in DOMAIN dir |-> CASE dir[d] = "LOWER"  -> 0
                                                        [] dir[d] = "MIDDLE" -> 1
                                                        [] dir[d] = "UPPER"  -> view.extents[d] - 1]
    PROVE  InPlace(r, Derived!BoundaryView(view, dir, one, one), Derived!Plus(at, offset), Derived!Auto)
<1>1. PICK n \in Nat : /\ DOMAIN r.extents = 1 .. n /\ DOMAIN view.extents = 1 .. n
                       /\ view.extents \in [1 .. n -> Nat]
  BY PlacedSizes
<1>2. DOMAIN dir = 1 .. n /\ \A d \in 1 .. n : one[d] = 1 /\ view.extents[d] \in Nat /\ view.extents[d] >= 2
                             /\ dir[d] \in {"LOWER", "MIDDLE", "UPPER"}
  BY <1>1 DEF Derived!Fill
<1> DEFINE Offset(d) == CASE dir[d] = "LOWER"  -> 0
                          [] dir[d] = "UPPER"  -> view.extents[d] - one[d]
                          [] dir[d] = "MIDDLE" -> one[d]
           Extent(d) == CASE dir[d] = "LOWER"  -> one[d]
                          [] dir[d] = "UPPER"  -> one[d]
                          [] dir[d] = "MIDDLE" -> view.extents[d] - one[d] - one[d]
<1>3. PICK extents : extents = [d \in DOMAIN dir |-> Extent(d)]
  OBVIOUS
<1>4. ASSUME NEW d \in 1 .. n
      PROVE  /\ offset[d] \in Nat /\ extents[d] \in Nat /\ offset[d] + extents[d] <= view.extents[d]
             /\ offset[d] = Offset(d)
  <2>1. CASE dir[d] = "LOWER"
    <3>1. offset[d] = 0 /\ extents[d] = 1 /\ Offset(d) = 0
      BY <1>2, <1>3, <2>1
    <3> QED
      BY <1>2, <3>1
  <2>2. CASE dir[d] = "MIDDLE"
    <3>1. offset[d] = 1 /\ extents[d] = view.extents[d] - 1 - 1 /\ Offset(d) = 1
      BY <1>2, <1>3, <2>2
    <3> QED
      BY <1>2, <3>1
  <2>3. CASE dir[d] = "UPPER"
    <3>1. offset[d] = view.extents[d] - 1 /\ extents[d] = 1 /\ Offset(d) = view.extents[d] - 1
      BY <1>2, <1>3, <2>3
    <3> QED
      BY <1>2, <3>1
  <2> QED
    BY <1>2, <2>1, <2>2, <2>3
<1>5. offset = [d \in 1 .. n |-> offset[d]] /\ extents = [d \in 1 .. n |-> extents[d]]
  BY <1>2, <1>3
<1>6. offset \in [1 .. n -> Nat] /\ extents \in [1 .. n -> Nat]
  BY <1>4, <1>5
<1>7. Derived!BoundaryView(view, dir, one, one) = Derived!GetSubView(view, offset, extents)
  <2>1. [d \in DOMAIN dir |-> Offset(d)] = offset
    BY <1>2, <1>4, <1>5
  <2>2. Derived!BoundaryView(view, dir, one, one)
          = Derived!GetSubView(view, [d \in DOMAIN dir |-> Offset(d)], [d \in DOMAIN dir |-> Extent(d)])
    BY Zenon DEF Derived!BoundaryView
  <2> QED
    BY <1>3, <2>1, <2>2, Zenon
<1>8. InPlace(r, Derived!GetSubView(view, offset, extents), Derived!Plus(at, offset), Derived!Auto)
  BY <1>1, <1>4, <1>6, ShiftIsPlaced
<1> QED
  BY <1>7, <1>8

\* The elements of a handle are those of the root, and aligned (ElementsAreInPlace).
PartOfRoot(r, h) ==
    /\ \A idx \in Derived!IndicesOf(h.view.extents) :
           Derived!Ptr(h.view, idx) = Derived!Ptr(Derived!RootView(r), Derived!Plus(h.at, idx))
    /\ \A d \in DOMAIN h.at : h.at[d] + h.view.extents[d] <= r.extents[d]
    /\ h.view.ptr % Derived!AlignmentOf(h) = 0
    /\ h.view.pitches = Derived!RootView(r).pitches

\* A handle in its place has elements of the root, as aligned as it claims.
LEMMA ElementsOfTheRoot ==
    ASSUME NEW r, NEW h, InPlace(r, h.view, h.at, h.align)
    PROVE  PartOfRoot(r, h)
<1>1. PICK view, at : view = h.view /\ at = h.at
  OBVIOUS
<1>2. PICK n \in Nat : /\ DOMAIN r.extents = 1 .. n /\ DOMAIN view.extents = 1 .. n /\ DOMAIN at = 1 .. n
                       /\ view.extents \in [1 .. n -> Nat] /\ at \in [1 .. n -> Nat]
                       /\ view.pitches \in [1 .. n -> Nat]
                       /\ r.size \in Nat \ {0} /\ Multiples(view.pitches, n, r.size)
  BY <1>1, PlacedSizes
<1>3. PICK p \in [1 .. n -> Nat], s \in Nat \ {0} : p = view.pitches /\ s = r.size /\ Multiples(p, n, s)
  BY <1>2
<1>4. PICK f, x, whole : f = Derived!RootView(r).pitches /\ x = view.ptr /\ whole = Derived!RootView(r)
  OBVIOUS
<1>5. /\ Derived!LegalRoot(r) /\ view = [ptr |-> x, extents |-> view.extents, pitches |-> f, size |-> s]
      /\ \A d \in 1 .. n : at[d] + view.extents[d] <= r.extents[d]
      /\ x = Derived!Sum(Derived!Times(at, p))
      /\ h.align # Derived!Auto => h.align = r.align /\ x = 0
  BY <1>1, <1>2, <1>3, <1>4 DEF InPlace
<1>6. p = f /\ view.size = s
  BY <1>3, <1>5
<1>7. whole.ptr = 0 /\ whole.pitches = f
  <2>1. whole = [ptr |-> 0, extents |-> r.extents, pitches |-> f, size |-> r.size]
    BY <1>4, <1>5, RootIsPlaced
  <2> QED
    BY <2>1
<1>8. ASSUME NEW idx \in Derived!IndicesOf(view.extents)
      PROVE  Derived!Ptr(view, idx) = Derived!Ptr(whole, Derived!Plus(at, idx))
  <2>1. PICK m : idx \in [1 .. n -> 0 .. m]
    BY <1>2 DEF Derived!IndicesOf
  <2>2. idx \in [1 .. n -> Nat]
    BY <2>1
  <2>3. /\ Derived!Sum(Derived!Times(at, p)) \in Nat /\ Derived!Sum(Derived!Times(idx, p)) \in Nat
        /\ Derived!Sum(Derived!Times(Derived!Plus(at, idx), p))
             = Derived!Sum(Derived!Times(at, p)) + Derived!Sum(Derived!Times(idx, p))
    <3>1. at \in [1 .. n -> Nat] /\ Multiples(p, n, s)
      BY <1>2, <1>3
    <3> QED
      BY <2>2, <3>1, Distances
  <2>4. Derived!Ptr(view, idx) = x + Derived!Sum(Derived!Times(idx, p))
    BY <1>3, <1>4 DEF Derived!Ptr
  <2>5. Derived!Ptr(whole, Derived!Plus(at, idx)) = 0 + Derived!Sum(Derived!Times(Derived!Plus(at, idx), p))
    BY <1>6, <1>7 DEF Derived!Ptr
  <2> QED
    BY <1>5, <2>3, <2>4, <2>5
<1>9. x % Derived!AlignmentOf(h) = 0
  <2>1. CASE h.align = Derived!Auto
    <3>1. Derived!AlignmentOf(h) = s
      BY <1>1, <1>6, <2>1 DEF Derived!AlignmentOf
    <3>2. Derived!Sum(Derived!Times(at, p)) % s = 0
      <4>1. at \in [1 .. n -> Nat] /\ Multiples(p, n, s)
        BY <1>2, <1>3
      <4> QED
        BY <4>1, Distances
    <3> QED
      BY <1>5, <3>1, <3>2
  <2>2. CASE h.align # Derived!Auto
    <3>1. Derived!AlignmentOf(h) = r.align /\ x = 0
      BY <1>5, <2>2 DEF Derived!AlignmentOf
    <3>2. r.align \in Nat \ {0}
      BY <1>5, <2>2 DEF Derived!LegalRoot
    <3>3. PICK a \in Nat \ {0} : a = r.align
      BY <3>2
    <3>4. 0 % a = 0
      OBVIOUS
    <3> QED
      BY <3>1, <3>3, <3>4
  <2> QED
    BY <2>1, <2>2
<1> QED
  BY <1>1, <1>2, <1>3, <1>4, <1>5, <1>6, <1>8, <1>9 DEF PartOfRoot

\* The object a program begins with is placed.
LEMMA OriginIsPlaced ==
    ASSUME NEW r, Derived!LegalRoot(r)
    PROVE  InPlace(r, Derived!RootView(r), Derived!Fill(r.extents, 0), r.align)
<1>1. PICK n \in Nat \ {0} : n = Len(r.extents)
  BY DEF Derived!LegalRoot
<1>2. DOMAIN r.extents = 1 .. n /\ r.extents \in [1 .. n -> Nat \ {0}] /\ r.size \in Nat \ {0}
  BY <1>1 DEF Derived!LegalRoot
<1>3. PICK view, p, at : view = Derived!RootView(r) /\ p = view.pitches /\ at = Derived!Fill(r.extents, 0)
  OBVIOUS
<1>4. view = [ptr |-> 0, extents |-> r.extents, pitches |-> p, size |-> r.size]
  BY <1>3, RootIsPlaced
<1>5. at = [d \in 1 .. n |-> 0] /\ at \in [1 .. n -> Nat]
  BY <1>2, <1>3 DEF Derived!Fill
<1>6. Derived!Sum(Derived!Times(at, p)) = 0
  <2>1. PICK u : u = Derived!Times(at, p)
    OBVIOUS
  <2>2. PICK q \in [1 .. n -> Nat] : p = [d \in 1 .. n |-> r.size * q[d]]
    <3>1. Derived!LegalRoot(r)
      OBVIOUS
    <3>2. \E q \in [DOMAIN r.extents -> Nat] :
             Derived!RootView(r).pitches = [d \in DOMAIN r.extents |-> r.size * q[d]]
      BY <3>1, RootIsPlaced
    <3>3. p = Derived!RootView(r).pitches /\ DOMAIN r.extents = 1 .. n
      BY <1>2, <1>3
    <3> QED
      BY <3>2, <3>3
  <2>3. ASSUME NEW d \in 1 .. n PROVE u[d] = 0 /\ 0 * q[d] = 0
    <3>1. PICK x \in Nat, s \in Nat : x = q[d] /\ s = r.size
      BY <1>2
    <3>2. u[d] = 0 * (s * x)
      BY <1>5, <2>1, <2>2, <3>1 DEF Derived!Times
    <3>3. 0 * (s * x) = 0 /\ 0 * x = 0
      OBVIOUS
    <3> QED
      BY <3>1, <3>2, <3>3
  <2>4. u = [d \in 1 .. n |-> u[d]]
    BY <1>5, <2>1 DEF Derived!Times
  <2>5. Scales(n, 0, q, u)
    BY <2>3, <2>4 DEF Scales
  <2>6. Derived!Sum(q) \in Nat /\ Derived!Sum(u) = 0 * Derived!Sum(q)
    BY <2>5, SumScales
  <2> QED
    BY <2>1, <2>6
<1>7. view.ptr = 0 /\ view.extents = r.extents /\ view.pitches = p
  BY <1>4
<1>8. \A d \in 1 .. n : at[d] + view.extents[d] <= r.extents[d]
  BY <1>2, <1>5, <1>7
<1>9. InPlace(r, view, at, r.align)
  BY <1>2, <1>3, <1>4, <1>5, <1>6, <1>7, <1>8 DEF InPlace
<1> QED
  BY <1>3, <1>9

\* A handle is in its place, and does not write to what it came from read only.
IsHandle(r, h) ==
    /\ h = [kind |-> h.kind, inner |-> h.inner, view |-> h.view, align |-> h.align,
            owns |-> h.owns, at |-> h.at, sealed |-> h.sealed]
    /\ h.inner \in BOOLEAN /\ h.owns \in BOOLEAN /\ h.sealed \in BOOLEAN
    /\ h.sealed => h.inner
    /\ InPlace(r, h.view, h.at, h.align)

\* g is made of h: what was read only stays so, and only owners make owners.
Yields(h, g) == IsHandle(root, g) /\ (g.owns => h.owns)

\* A handle of another kind, possibly to constant elements.
LEMMA BecomesYields ==
    ASSUME NEW h, IsHandle(root, h), NEW kind, NEW outer \in BOOLEAN
    PROVE  Yields(h, Derived!Becomes(h, kind, outer))
<1>1. PICK a, b, c : a = (h.inner \/ outer) /\ b = (h.sealed \/ outer) /\ c = (h.owns /\ kind = "buffer")
  OBVIOUS
<1>2. PICK g : g = [h EXCEPT !.kind = kind, !.inner = a, !.sealed = b, !.owns = c]
  OBVIOUS
<1>3. Derived!Becomes(h, kind, outer) = g
  BY <1>1, <1>2, Zenon DEF Derived!Becomes
<1>4. g = [kind |-> kind, inner |-> a, view |-> h.view, align |-> h.align,
           owns |-> c, at |-> h.at, sealed |-> b]
  BY <1>2 DEF IsHandle
<1>5. /\ a \in BOOLEAN /\ b \in BOOLEAN /\ c \in BOOLEAN /\ (b => a) /\ (c => h.owns)
  BY <1>1, Zenon DEF IsHandle
<1>6. Yields(h, g)
  BY <1>4, <1>5 DEF IsHandle, Yields
<1> QED
  BY <1>3, <1>6

\* The same handle to other elements.
LEMMA ElsewhereYields ==
    ASSUME NEW h, IsHandle(root, h), NEW view, NEW at, NEW align, NEW g,
           g = [h EXCEPT !.view = view, !.at = at, !.align = align],
           InPlace(root, view, at, align)
    PROVE  Yields(h, g)
<1>1. g = [kind |-> h.kind, inner |-> h.inner, view |-> view, align |-> align,
           owns |-> h.owns, at |-> at, sealed |-> h.sealed]
  BY DEF IsHandle
<1> QED
  BY <1>1 DEF IsHandle, Yields

\* The member functions that return handles to all elements.
LEMMA SpansYield ==
    ASSUME NEW h, IsHandle(root, h), NEW outer \in BOOLEAN
    PROVE  /\ Yields(h, Derived!MakeMdSpan(h, outer)) /\ Yields(h, Derived!MakeViewOf(h, outer))
           /\ Yields(h, Derived!GetConstMdSpan(h)) /\ Yields(h, Derived!GetMdSpan(h, outer))
           /\ Yields(h, Derived!GetConstView(h)) /\ Yields(h, Derived!GetView(h, outer))
           /\ Yields(h, Derived!GetConstSharedBuffer(h))
           /\ Yields(h, Derived!Begin(h, outer)) /\ Yields(h, Derived!ArrayBegin(h, outer))
<1>1. \A kind : \A o \in BOOLEAN : Yields(h, Derived!Becomes(h, kind, o))
  BY BecomesYields
<1>2. Yields(h, Derived!GetConstMdSpan(h))
  BY <1>1 DEF Derived!GetConstMdSpan
<1>3. PICK g : g = IF outer THEN Derived!GetConstMdSpan(h) ELSE h
  OBVIOUS
<1>4. Yields(h, g) /\ IsHandle(root, g)
  BY <1>2, <1>3 DEF Yields
<1>5. Yields(g, Derived!Becomes(g, "iter", outer))
  BY <1>4, BecomesYields
<1>6. Yields(h, Derived!Begin(h, outer)) /\ Yields(h, Derived!ArrayBegin(h, outer))
  <2>1. Derived!Begin(h, outer) = Derived!Becomes(g, "iter", outer)
        /\ Derived!ArrayBegin(h, outer) = Derived!Becomes(g, "iter", outer)
    BY <1>3 DEF Derived!Begin, Derived!ArrayBegin
  <2> QED
    BY <1>4, <1>5, <2>1 DEF Yields
<1>7. Yields(h, Derived!MakeMdSpan(h, outer)) /\ Yields(h, Derived!MakeViewOf(h, outer))
  BY <1>1 DEF Derived!MakeMdSpan, Derived!MakeViewOf
<1>8. Yields(h, Derived!GetConstView(h)) /\ Yields(h, Derived!GetConstSharedBuffer(h))
  BY <1>1 DEF Derived!GetConstView, Derived!GetConstSharedBuffer
<1>9. Yields(h, Derived!GetMdSpan(h, outer)) /\ Yields(h, Derived!GetView(h, outer))
  BY <1>1, <1>2, <1>8 DEF Derived!GetMdSpan, Derived!GetView
<1> QED
  BY <1>2, <1>6, <1>7, <1>8, <1>9

\* Parts fit.
LEMMA PartsFit ==
    ASSUME NEW h, IsHandle(root, h), NEW p \in Derived!Parts(h)
    PROVE  /\ p[1] \in [DOMAIN root.extents -> Nat] /\ p[2] \in [DOMAIN root.extents -> Nat]
           /\ \A d \in DOMAIN root.extents : p[1][d] + p[2][d] <= h.view.extents[d]
           /\ \A d \in DOMAIN root.extents : p[2][d] <= h.view.extents[d]
<1>1. PICK e : e = h.view.extents /\ e \in [DOMAIN root.extents -> Nat] /\ DOMAIN e = DOMAIN root.extents
  BY DEF IsHandle, InPlace
<1>2. /\ p[1] \in {Derived!Fill(e, 0), Derived!Fill(e, 1)}
      /\ p[2] \in {e, Derived!Minus(e, Derived!Fill(e, 1))}
      /\ \A d \in DOMAIN p[1] : e[d] >= 1 /\ p[1][d] + p[2][d] <= e[d]
  BY <1>1 DEF Derived!Parts
<1>3. /\ DOMAIN p[1] = DOMAIN root.extents
      /\ p[1] = [d \in DOMAIN root.extents |-> p[1][d]]
      /\ \A d \in DOMAIN root.extents : p[1][d] \in {0, 1}
  BY <1>1, <1>2 DEF Derived!Fill
<1>4. p[2] = [d \in DOMAIN root.extents |-> p[2][d]]
  BY <1>1, <1>2 DEF Derived!Fill, Derived!Minus
<1>5. ASSUME NEW d \in DOMAIN root.extents
      PROVE  p[2][d] \in Nat /\ p[1][d] + p[2][d] <= e[d] /\ p[2][d] <= e[d]
  <2>1. e[d] \in Nat /\ e[d] >= 1 /\ p[1][d] + p[2][d] <= e[d]
    BY <1>1, <1>2, <1>3
  <2>2. p[2][d] \in {e[d], e[d] - 1}
    BY <1>1, <1>2 DEF Derived!Fill, Derived!Minus
  <2>3. p[1][d] \in {0, 1}
    BY <1>3
  <2> QED
    BY <2>1, <2>2, <2>3
<1> QED
  BY <1>1, <1>3, <1>4, <1>5

\* The member functions that return handles to a part.
LEMMA PartsYield ==
    ASSUME NEW h, IsHandle(root, h), NEW outer \in BOOLEAN, NEW p \in Derived!Parts(h)
    PROVE  /\ Yields(h, Derived!SubByExtents(h, outer, p[2]))
           /\ Yields(h, Derived!SubBufferByExtents(h, outer, p[2]))
           /\ Yields(h, Derived!SubByOffset(h, outer, p[1], p[2]))
           /\ Yields(h, Derived!SubBufferByOffset(h, outer, p[1], p[2]))
<1>1. PICK offset, extents : offset = p[1] /\ extents = p[2]
  OBVIOUS
<1>2. /\ offset \in [DOMAIN root.extents -> Nat] /\ extents \in [DOMAIN root.extents -> Nat]
      /\ \A d \in DOMAIN root.extents : offset[d] + extents[d] <= h.view.extents[d]
      /\ \A d \in DOMAIN root.extents : extents[d] <= h.view.extents[d]
  BY <1>1, PartsFit
<1>3. ASSUME NEW g, Yields(h, g), g.view = h.view
      PROVE  Yields(h, Derived!Shrunk(g, extents)) /\ Yields(h, Derived!Shifted(g, offset, extents))
  <2>1. IsHandle(root, g)
    BY <1>3 DEF Yields
  <2>2. PICK u, v, w, at : /\ u = g.view /\ v = [u EXCEPT !.extents = extents]
                           /\ w = Derived!GetSubView(u, offset, extents)
                           /\ at = Derived!Plus(g.at, offset)
    OBVIOUS
  <2>3. /\ \A d \in DOMAIN root.extents : offset[d] + extents[d] <= u.extents[d]
        /\ \A d \in DOMAIN root.extents : extents[d] <= u.extents[d]
        /\ InPlace(root, u, g.at, g.align)
    BY <1>2, <1>3, <2>1, <2>2 DEF IsHandle
  <2>4. InPlace(root, v, g.at, g.align)
    BY <1>2, <2>2, <2>3, ShrinkIsPlaced
  <2>5. InPlace(root, w, at, Derived!Auto)
    BY <1>2, <2>2, <2>3, ShiftIsPlaced
  <2>6. Derived!Shrunk(g, extents) = [g EXCEPT !.view = v]
    BY <2>2 DEF Derived!Shrunk
  <2>7. [g EXCEPT !.view = v] = [g EXCEPT !.view = v, !.at = g.at, !.align = g.align]
    BY <2>1 DEF IsHandle
  <2>8. Yields(g, Derived!Shrunk(g, extents))
    <3>1. PICK f, a, b : f = [g EXCEPT !.view = v, !.at = a, !.align = b] /\ a = g.at /\ b = g.align
      OBVIOUS
    <3>2. Yields(g, f)
      BY <2>1, <2>4, <3>1, ElsewhereYields
    <3> QED
      BY <2>6, <2>7, <3>1, <3>2
  <2>9. Derived!Shifted(g, offset, extents) = [g EXCEPT !.view = w, !.at = at, !.align = Derived!Auto]
    BY <2>1, <2>2 DEF Derived!Shifted, IsHandle
  <2>10. Yields(g, Derived!Shifted(g, offset, extents))
    <3>1. PICK f : f = [g EXCEPT !.view = w, !.at = at, !.align = Derived!Auto]
      OBVIOUS
    <3>2. Yields(g, f)
      BY <2>1, <2>5, <3>1, ElsewhereYields
    <3> QED
      BY <2>9, <3>1, <3>2
  <2> QED
    BY <1>3, <2>8, <2>10 DEF Yields
<1>4. \A kind : \A o \in BOOLEAN : /\ Yields(h, Derived!Becomes(h, kind, o))
                                   /\ Derived!Becomes(h, kind, o).view = h.view
  <2> SUFFICES ASSUME NEW kind, NEW o \in BOOLEAN
               PROVE  Yields(h, Derived!Becomes(h, kind, o)) /\ Derived!Becomes(h, kind, o).view = h.view
    OBVIOUS
  <2>1. Yields(h, Derived!Becomes(h, kind, o))
    BY BecomesYields
  <2>2. PICK a, b, c : Derived!Becomes(h, kind, o) = [h EXCEPT !.kind = kind, !.inner = a, !.sealed = b, !.owns = c]
    BY Zenon DEF Derived!Becomes
  <2>3. [h EXCEPT !.kind = kind, !.inner = a, !.sealed = b, !.owns = c].view = h.view
    BY DEF IsHandle
  <2> QED
    BY <2>1, <2>2, <2>3
<1>5. /\ Yields(h, Derived!SubByExtents(h, outer, extents))
      /\ Yields(h, Derived!SubBufferByExtents(h, outer, extents))
  BY <1>3, <1>4 DEF Derived!SubByExtents, Derived!SubBufferByExtents
<1>6. /\ Yields(h, Derived!SubByOffset(h, outer, offset, extents))
      /\ Yields(h, Derived!SubBufferByOffset(h, outer, offset, extents))
  BY <1>3, <1>4 DEF Derived!SubByOffset, Derived!SubBufferByOffset
<1> QED
  BY <1>1, <1>5, <1>6

\* So does the one that returns the part in a direction.
LEMMA BoundaryYields ==
    ASSUME NEW h, IsHandle(root, h), \A d \in DOMAIN h.view.extents : h.view.extents[d] >= 2,
           NEW dir \in [DOMAIN h.view.extents -> {"LOWER", "MIDDLE", "UPPER"}]
    PROVE  Yields(h, Derived!SubByDirection(h, dir))
<1>1. PICK g : g = Derived!Becomes(h, "view", TRUE)
  OBVIOUS
<1>2. Yields(h, g) /\ IsHandle(root, g)
  <2>1. Yields(h, Derived!Becomes(h, "view", TRUE))
    BY BecomesYields
  <2> QED
    BY <1>1, <2>1 DEF Yields
<1>3. g.at = h.at
  <2>1. PICK a, b, c : g = [h EXCEPT !.kind = "view", !.inner = a, !.sealed = b, !.owns = c]
    BY <1>1, Zenon DEF Derived!Becomes
  <2> QED
    BY <2>1 DEF IsHandle
<1>4. PICK one, offset, part, at :
          /\ one = Derived!Fill(h.view.extents, 1)
          /\ offset = [d \in DOMAIN dir |-> CASE dir[d] = "LOWER"  -> 0
                                              [] dir[d] = "MIDDLE" -> 1
                                              [] dir[d] = "UPPER"  -> h.view.extents[d] - 1]
          /\ part = Derived!BoundaryView(h.view, dir, one, one)
          /\ at = Derived!Plus(h.at, offset)
  OBVIOUS
<1>5. InPlace(root, part, at, Derived!Auto)
  <2>1. PICK view : view = h.view
    OBVIOUS
  <2>2. InPlace(root, view, h.at, h.align)
    BY <2>1 DEF IsHandle
  <2> QED
    BY <1>4, <2>1, <2>2, BoundaryIsPlaced
<1>6. PICK f : f = [g EXCEPT !.view = part, !.at = at, !.align = Derived!Auto]
  OBVIOUS
<1>7. Derived!SubByDirection(h, dir) = f
  <2>1. Derived!SubByDirection(h, dir) = [g EXCEPT !.view = part, !.at = Derived!Plus(@, offset), !.align = Derived!Auto]
    BY <1>1, <1>4, Zenon DEF Derived!SubByDirection
  <2>2. [g EXCEPT !.view = part, !.at = Derived!Plus(@, offset), !.align = Derived!Auto]
          = [g EXCEPT !.view = part, !.at = Derived!Plus(g.at, offset), !.align = Derived!Auto]
    BY <1>2 DEF IsHandle
  <2> QED
    BY <1>3, <1>4, <1>6, <2>1, <2>2
<1>8. Yields(g, f)
  BY <1>2, <1>5, <1>6, ElsewhereYields
<1> QED
  BY <1>2, <1>7, <1>8 DEF Yields

\* Memory is freed when no owner is left, after the actions registered before.
HandlesInv ==
    /\ slots = [s \in HandleSlots |-> slots[s]]
    /\ \A s \in HandleSlots : slots[s] # None => IsHandle(root, slots[s])
    /\ freed \in BOOLEAN
    /\ actions = [added |-> actions.added, run |-> actions.run]
    /\ actions.added \in Seq(Nat) /\ \A k \in 1 .. Len(actions.added) : actions.added[k] = k
    /\ root.kind = "buffer" =>
          /\ freed <=> Derived!Owners(slots) = {}
          /\ freed => actions.run = actions.added

\* What an operation makes of the slots: handles, and no owner without one before.
Kept(hs) ==
    /\ hs = [s \in HandleSlots |-> hs[s]]
    /\ \A s \in HandleSlots : hs[s] # None => IsHandle(root, hs[s])
    /\ Derived!Owners(slots) = {} => Derived!Owners(hs) = {}

\* Such an operation, with the deleter run if the last owner has gone, keeps the invariant.
LEMMA KeptIsEnough ==
    ASSUME HandlesInv, NEW hs, Kept(hs), Derived!Step(hs)
    PROVE  HandlesInv'
<1>1. slots' = hs /\ root' = root
  BY DEF Derived!Step
<1>2. /\ slots' = [s \in HandleSlots |-> slots'[s]]
      /\ \A s \in HandleSlots : slots'[s] # None => IsHandle(root, slots'[s])
  BY <1>1, Zenon DEF Kept
<1>3. CASE root.kind = "buffer" /\ Derived!Owners(hs) = {} /\ ~freed
  <2>1. freed' = TRUE /\ actions' = [actions EXCEPT !.run = actions.added]
    BY <1>3 DEF Derived!Step, Derived!Released
  <2>2. actions' = [added |-> actions.added, run |-> actions.added]
    BY <2>1 DEF HandlesInv
  <2> QED
    BY <1>1, <1>2, <1>3, <2>1, <2>2 DEF HandlesInv
<1>4. CASE ~ (root.kind = "buffer" /\ Derived!Owners(hs) = {} /\ ~freed)
  <2>1. freed' = freed /\ actions' = actions
    BY <1>4 DEF Derived!Step, Derived!Released
  <2>2. root.kind = "buffer" => (freed <=> Derived!Owners(hs) = {})
    BY <1>4 DEF Kept, HandlesInv
  <2> QED
    BY <1>1, <1>2, <2>1, <2>2 DEF HandlesInv
<1> QED
  BY <1>3, <1>4

\* A slot takes a handle that is made of another one.
LEMMA OneSlot ==
    ASSUME HandlesInv, NEW s \in HandleSlots, slots[s] # None,
           NEW t \in HandleSlots, NEW g, Yields(slots[s], g),
           NEW hs, hs = [slots EXCEPT ![t] = g]
    PROVE  Kept(hs)
<1>1. hs = [u \in HandleSlots |-> IF u = t THEN g ELSE slots[u]]
  BY DEF HandlesInv
<1>2. /\ hs = [u \in HandleSlots |-> hs[u]] /\ DOMAIN hs = HandleSlots /\ DOMAIN slots = HandleSlots
      /\ \A u \in HandleSlots : hs[u] = IF u = t THEN g ELSE slots[u]
  BY <1>1 DEF HandlesInv
<1>3. \A u \in HandleSlots : hs[u] # None => IsHandle(root, hs[u])
  BY <1>2 DEF HandlesInv, Yields
<1>4. Derived!Owners(slots) = {} => Derived!Owners(hs) = {}
  BY <1>2 DEF Yields, Derived!Owners
<1> QED
  BY <1>2, <1>3, <1>4 DEF Kept

\* A slot takes the handle of another one, which lets go of the memory.
LEMMA TwoSlots ==
    ASSUME HandlesInv, NEW s \in HandleSlots, slots[s] # None,
           NEW t \in HandleSlots, s # t, NEW g, Yields(slots[s], g),
           NEW hs, hs = [slots EXCEPT ![t] = g, ![s].owns = FALSE]
    PROVE  Kept(hs)
<1>1. PICK f : f = [slots[s] EXCEPT !.owns = FALSE]
  OBVIOUS
<1>2. IsHandle(root, f) /\ ~f.owns
  <2>1. IsHandle(root, slots[s])
    BY DEF HandlesInv
  <2>2. PICK h : h = slots[s]
    OBVIOUS
  <2>3. f = [kind |-> h.kind, inner |-> h.inner, view |-> h.view, align |-> h.align,
             owns |-> FALSE, at |-> h.at, sealed |-> h.sealed]
    BY <1>1, <2>1, <2>2 DEF IsHandle
  <2> QED
    BY <2>1, <2>2, <2>3 DEF IsHandle
<1>3. hs = [u \in HandleSlots |-> IF u = t THEN g ELSE IF u = s THEN f ELSE slots[u]]
  <2>1. DOMAIN slots = HandleSlots
    BY DEF HandlesInv
  <2> QED
    BY <1>1, <2>1
<1>4. /\ hs = [u \in HandleSlots |-> hs[u]] /\ DOMAIN hs = HandleSlots /\ DOMAIN slots = HandleSlots
      /\ \A u \in HandleSlots : hs[u] = IF u = t THEN g ELSE IF u = s THEN f ELSE slots[u]
  BY <1>3 DEF HandlesInv
<1>5. \A u \in HandleSlots : hs[u] # None => IsHandle(root, hs[u])
  BY <1>2, <1>4 DEF HandlesInv, Yields
<1>6. Derived!Owners(slots) = {} => Derived!Owners(hs) = {}
  BY <1>2, <1>4 DEF Yields, Derived!Owners
<1> QED
  BY <1>4, <1>5, <1>6 DEF Kept

\* Copies may make elements constant, never mutable.
LEMMA CopyYields ==
    ASSUME NEW h, IsHandle(root, h), NEW c \in BOOLEAN, Derived!InnerTypeAllowedCast(c, h.inner)
    PROVE  Yields(h, [h EXCEPT !.inner = c, !.sealed = @ \/ c])
<1>1. PICK b : b = (h.sealed \/ c)
  OBVIOUS
<1>2. PICK g : g = [h EXCEPT !.inner = c, !.sealed = b]
  OBVIOUS
<1>3. [h EXCEPT !.inner = c, !.sealed = @ \/ c] = g
  BY <1>1, <1>2, Zenon
<1>4. b \in BOOLEAN /\ (b => c)
  BY <1>1, Zenon DEF Derived!InnerTypeAllowedCast, IsHandle
<1>5. g = [kind |-> h.kind, inner |-> c, view |-> h.view, align |-> h.align,
           owns |-> h.owns, at |-> h.at, sealed |-> b]
  BY <1>2 DEF IsHandle
<1>6. Yields(h, g)
  BY <1>4, <1>5 DEF IsHandle, Yields
<1> QED
  BY <1>3, <1>6

\* A new handle keeps the invariant.
LEMMA NewKeeps ==
    ASSUME HandlesInv, NEW s \in HandleSlots, slots[s] # None, NEW t \in HandleSlots,
           NEW g, Yields(slots[s], g), Derived!New(t, g)
    PROVE  HandlesInv'
<1>1. PICK hs : hs = [slots EXCEPT ![t] = g]
  OBVIOUS
<1>2. Kept(hs)
  BY <1>1, OneSlot
<1>3. Derived!Step(hs)
  BY <1>1 DEF Derived!New
<1> QED
  BY <1>2, <1>3, KeptIsEnough

\* Copies, moves and assignments keep it.
LEMMA CopiesKeep ==
    ASSUME HandlesInv, NEW s \in HandleSlots, NEW t \in HandleSlots, NEW c \in BOOLEAN,
           \/ Derived!CopyHandle(s, t, c) \/ Derived!MoveHandle(s, t, c)
           \/ Derived!AssignHandle(s, t) \/ Derived!MoveAssign(s, t) \/ Derived!AssignArray(s, t, c)
    PROVE  HandlesInv'
<1>1. slots[s] # None /\ IsHandle(root, slots[s])
  BY DEF HandlesInv, Derived!CopyHandle, Derived!MoveHandle, Derived!AssignHandle, Derived!MoveAssign,
         Derived!AssignArray, Derived!IsA, Derived!Live
<1>2. PICK h : h = slots[s]
  OBVIOUS
<1>3. PICK g : g = [h EXCEPT !.inner = c, !.sealed = @ \/ c]
  OBVIOUS
<1>4. CASE Derived!CopyHandle(s, t, c)
  <2>1. Derived!InnerTypeAllowedCast(c, h.inner) /\ Derived!New(t, g)
    BY <1>2, <1>3, <1>4 DEF Derived!CopyHandle
  <2>2. Yields(slots[s], g)
    BY <1>1, <1>2, <1>3, <2>1, CopyYields
  <2> QED
    BY <1>1, <2>1, <2>2, NewKeeps
<1>5. CASE Derived!MoveHandle(s, t, c)
  <2>1. PICK hs : hs = [slots EXCEPT ![t] = g, ![s].owns = FALSE]
    OBVIOUS
  <2>2. /\ Derived!InnerTypeAllowedCast(c, h.inner) /\ Derived!Step(hs) /\ slots[t] = None
    BY <1>2, <1>3, <1>5, <2>1 DEF Derived!MoveHandle, Derived!Live
  <2>3. Yields(slots[s], g) /\ s # t
    BY <1>1, <1>2, <1>3, <2>2, CopyYields
  <2>4. Kept(hs)
    BY <1>1, <2>1, <2>3, TwoSlots
  <2> QED
    BY <2>2, <2>4, KeptIsEnough
<1>6. ASSUME s # t, Derived!Live(t), Derived!InnerTypeAllowedCast(slots[t].inner, h.inner)
      PROVE  Yields(h, Derived!Assigned(slots[s], slots[t]))
  <2>1. slots[t].inner \in BOOLEAN
    BY <1>6 DEF HandlesInv, IsHandle, Derived!Live
  <2>2. PICK b \in BOOLEAN : b = slots[t].inner
    BY <2>1
  <2>3. Yields(h, [h EXCEPT !.inner = b, !.sealed = @ \/ b])
    BY <1>1, <1>2, <1>6, <2>2, CopyYields
  <2> QED
    BY <1>2, <2>2, <2>3 DEF Derived!Assigned
<1>7. CASE Derived!AssignHandle(s, t) \/ Derived!AssignArray(s, t, c)
  <2>1. PICK f, hs : f = Derived!Assigned(slots[s], slots[t]) /\ hs = [slots EXCEPT ![t] = f]
    OBVIOUS
  <2>2. s # t /\ Derived!Live(t) /\ Derived!Step(hs)
    BY <1>7, <2>1 DEF Derived!AssignHandle, Derived!AssignArray
  <2>3. Derived!InnerTypeAllowedCast(slots[t].inner, h.inner)
    BY <1>2, <1>7 DEF Derived!AssignHandle, Derived!AssignArray, Derived!InnerTypeAllowedCast
  <2>4. Yields(slots[s], f)
    BY <1>2, <1>6, <2>1, <2>2, <2>3
  <2>5. Kept(hs)
    BY <1>1, <2>1, <2>4, OneSlot
  <2> QED
    BY <2>2, <2>5, KeptIsEnough
<1>8. CASE Derived!MoveAssign(s, t)
  <2>1. PICK f, hs : f = Derived!Assigned(slots[s], slots[t]) /\ hs = [slots EXCEPT ![t] = f, ![s].owns = FALSE]
    OBVIOUS
  <2>2. s # t /\ Derived!Live(t) /\ Derived!Step(hs) /\ Derived!InnerTypeAllowedCast(slots[t].inner, h.inner)
    BY <1>2, <1>8, <2>1 DEF Derived!MoveAssign
  <2>3. Yields(slots[s], f)
    BY <1>2, <1>6, <2>1, <2>2
  <2>4. Kept(hs)
    BY <1>1, <2>1, <2>2, <2>3, TwoSlots
  <2> QED
    BY <2>2, <2>4, KeptIsEnough
<1> QED
  BY <1>4, <1>5, <1>7, <1>8

\* Handles to all elements keep it.
LEMMA ViewsKeep ==
    ASSUME HandlesInv, NEW s \in HandleSlots, NEW t \in HandleSlots, NEW c \in BOOLEAN,
           \/ Derived!MakeSpan(s, t, c) \/ Derived!MakeAView(s, t, c)
           \/ Derived!TakeConstSpan(s, t) \/ Derived!TakeSpan(s, t, c)
           \/ Derived!TakeConstView(s, t) \/ Derived!TakeView(s, t, c) \/ Derived!TakeConstBuffer(s, t)
           \/ Derived!TakeIterator(s, t, c) \/ Derived!TakeArrayIterator(s, t, c)
    PROVE  HandlesInv'
<1>1. slots[s] # None /\ IsHandle(root, slots[s])
  BY DEF HandlesInv, Derived!MakeSpan, Derived!MakeAView, Derived!TakeConstSpan, Derived!TakeSpan,
         Derived!TakeConstView, Derived!TakeView, Derived!TakeConstBuffer, Derived!TakeIterator,
         Derived!TakeArrayIterator, Derived!IsA, Derived!Live
<1>2. PICK h : h = slots[s] /\ IsHandle(root, h)
  BY <1>1
<1>3. \E g : Yields(h, g) /\ Derived!New(t, g)
  BY <1>2, SpansYield
    DEF Derived!MakeSpan, Derived!MakeAView, Derived!TakeConstSpan, Derived!TakeSpan,
        Derived!TakeConstView, Derived!TakeView, Derived!TakeConstBuffer, Derived!TakeIterator,
        Derived!TakeArrayIterator
<1> QED
  BY <1>1, <1>2, <1>3, NewKeeps

\* Handles to parts keep it.
LEMMA PartsKeep ==
    ASSUME HandlesInv, NEW s \in HandleSlots, NEW t \in HandleSlots, NEW c \in BOOLEAN,
           \/ Derived!TakePartOfOrigin(s, t, c) \/ Derived!TakePart(s, t, c) \/ Derived!TakeBoundary(s, t)
           \/ Derived!TakeBufferOfOrigin(s, t, c) \/ Derived!TakeBufferOfPart(s, t, c)
    PROVE  HandlesInv'
<1>1. slots[s] # None /\ IsHandle(root, slots[s])
  BY DEF HandlesInv, Derived!TakePartOfOrigin, Derived!TakePart, Derived!TakeBoundary,
         Derived!TakeBufferOfOrigin, Derived!TakeBufferOfPart, Derived!IsA, Derived!Live
<1>2. PICK h : h = slots[s] /\ IsHandle(root, h)
  BY <1>1
<1>3. \E g : Yields(h, g) /\ Derived!New(t, g)
  <2>1. \A p \in Derived!Parts(h) :
          /\ Yields(h, Derived!SubByExtents(h, c, p[2]))
          /\ Yields(h, Derived!SubBufferByExtents(h, c, p[2]))
          /\ Yields(h, Derived!SubByOffset(h, c, p[1], p[2]))
          /\ Yields(h, Derived!SubBufferByOffset(h, c, p[1], p[2]))
    BY <1>2, PartsYield
  <2>2. CASE Derived!TakeBoundary(s, t)
    <3>1. PICK dir \in [DOMAIN h.view.extents -> {"LOWER", "MIDDLE", "UPPER"}] :
              Derived!New(t, Derived!SubByDirection(h, dir)) /\ \A d \in DOMAIN h.view.extents : h.view.extents[d] >= 2
      BY <1>2, <2>2 DEF Derived!TakeBoundary
    <3>2. Yields(h, Derived!SubByDirection(h, dir))
      BY <1>2, <3>1, BoundaryYields
    <3> QED
      BY <3>1, <3>2
  <2>3. \A p \in Derived!Origins(h) : p \in Derived!Parts(h)
    BY DEF Derived!Origins
  <2> QED
    BY <1>2, <2>1, <2>2, <2>3 DEF Derived!TakePartOfOrigin, Derived!TakePart,
                                  Derived!TakeBufferOfOrigin, Derived!TakeBufferOfPart
<1> QED
  BY <1>1, <1>2, <1>3, NewKeeps

\* Actions are registered by an owner, so the memory is not freed yet.
LEMMA ActionsKeep ==
    ASSUME HandlesInv, NEW s \in HandleSlots, Derived!AddDestructorAction(s)
    PROVE  HandlesInv'
<1>1. /\ slots[s] # None /\ slots[s].owns /\ root' = root /\ slots' = slots /\ freed' = freed
      /\ actions' = [actions EXCEPT !.added = Append(@, Len(@) + 1)]
  BY DEF Derived!AddDestructorAction, Derived!IsA, Derived!Live
<1>2. s \in Derived!Owners(slots)
  BY <1>1 DEF HandlesInv, Derived!Owners
<1>3. PICK a, b : a = actions.added /\ b = Append(a, Len(a) + 1)
  OBVIOUS
<1>4. actions' = [added |-> b, run |-> actions.run]
  BY <1>1, <1>3 DEF HandlesInv
<1>5. b \in Seq(Nat) /\ \A k \in 1 .. Len(b) : b[k] = k
  BY <1>3 DEF HandlesInv
<1>6. root.kind = "buffer" => ~freed
  BY <1>2 DEF HandlesInv
<1>7. actions' = [added |-> actions'.added, run |-> actions'.run] /\ actions'.added = b
  BY <1>4
<1> QED
  BY <1>1, <1>5, <1>6, <1>7 DEF HandlesInv

\* The destructor of a handle keeps it.
LEMMA DestroyKeeps ==
    ASSUME HandlesInv, NEW s \in HandleSlots, Derived!Destroy(s)
    PROVE  HandlesInv'
<1>1. PICK hs : hs = [slots EXCEPT ![s] = None]
  OBVIOUS
<1>2. Derived!Step(hs)
  BY <1>1 DEF Derived!Destroy
<1>3. hs = [u \in HandleSlots |-> IF u = s THEN None ELSE slots[u]]
  BY <1>1 DEF HandlesInv
<1>4. /\ hs = [u \in HandleSlots |-> hs[u]] /\ DOMAIN hs = HandleSlots /\ DOMAIN slots = HandleSlots
      /\ \A u \in HandleSlots : hs[u] = IF u = s THEN None ELSE slots[u]
  BY <1>3 DEF HandlesInv
<1>5. Kept(hs)
  BY <1>4 DEF Kept, HandlesInv, Derived!Owners
<1> QED
  BY <1>2, <1>5, KeptIsEnough

\* The first object owns its memory if it is a buffer.
LEMMA HandlesBegin ==
    ASSUME Derived!Init
    PROVE  HandlesInv
<1>1. PICK h : h = Derived!RootHandle(root)
  OBVIOUS
<1>2. /\ root \in HandleRoots /\ root.inner \in BOOLEAN /\ h # None /\ 1 \in HandleSlots
      /\ slots = [s \in HandleSlots |-> IF s = 1 THEN h ELSE None]
      /\ freed = FALSE /\ actions = [added |-> <<>>, run |-> <<>>]
  BY <1>1, RootsAssumption DEF Derived!Init, Derived!LegalRoot
<1>3. PICK b \in BOOLEAN : b = (root.kind = "buffer")
  OBVIOUS
<1>9. PICK v, at : h = [kind |-> root.kind, inner |-> root.inner, view |-> v, align |-> root.align,
                        owns |-> b, at |-> at, sealed |-> root.inner]
  BY <1>1, <1>3, Zenon DEF Derived!RootHandle
<1>14. InPlace(root, h.view, h.at, h.align)
  <2>1. Derived!LegalRoot(root)
    BY <1>2, RootsAssumption
  <2>2. h.view = Derived!RootView(root) /\ h.at = Derived!Fill(root.extents, 0) /\ h.align = root.align
    BY <1>1, Zenon DEF Derived!RootHandle
  <2> QED
    BY <2>1, <2>2, OriginIsPlaced
<1>4. IsHandle(root, h) /\ h.owns = b
  BY <1>2, <1>9, <1>14 DEF IsHandle
<1>5. root.kind = "buffer" => Derived!Owners(slots) # {}
  <2>1. 1 \in DOMAIN slots /\ slots[1] = h
    BY <1>2
  <2> QED
    BY <1>2, <1>3, <1>4, <2>1 DEF Derived!Owners
<1>6. <<>> \in Seq(Nat) /\ Len(<<>>) = 0
  OBVIOUS
<1>7. \A s \in HandleSlots : slots[s] # None => IsHandle(root, slots[s])
  BY <1>2, <1>4
<1>8. slots = [s \in HandleSlots |-> slots[s]]
  BY <1>2
<1>10. /\ actions.added = <<>> /\ actions.run = <<>>
       /\ actions = [added |-> actions.added, run |-> actions.run]
  BY <1>2
<1>11. actions.added \in Seq(Nat) /\ \A k \in 1 .. Len(actions.added) : actions.added[k] = k
  BY <1>6, <1>10
<1>12. /\ freed <=> FALSE
       /\ root.kind = "buffer" => ((freed <=> Derived!Owners(slots) = {}) /\ (freed => actions.run = actions.added))
  BY <1>2, <1>5
<1>13. actions = [added |-> actions.added, run |-> actions.run] /\ freed \in BOOLEAN
  BY <1>2, <1>10
<1> QED
  BY <1>7, <1>8, <1>11, <1>12, <1>13, Zenon DEF HandlesInv

\* Every operation keeps the invariant.
LEMMA HandlesStep ==
    ASSUME HandlesInv, Derived!Next
    PROVE  HandlesInv'
  BY CopiesKeep, ViewsKeep, PartsKeep, ActionsKeep, DestroyKeeps DEF Derived!Next

\* Whatever chain of copies, moves, assignments, views, spans, iterators and parts a
\* program goes through, with any number of handles and dimensions: a handle's elements
\* are those of its root from where it begins on and as aligned as its type claims
\* (mem/View.hpp:195, onHost/mem/SharedBuffer.hpp:182), elements that were read only on
\* the way are never writable (mem/concepts/detail/InnerTypeAllowedCast.hpp), memory
\* lives exactly as long as a valid buffer owns it, and is freed after all registered actions, in their order.
THEOREM HandlesStaySound ==
    MCSpec => []HandlesAreSound
<1> DEFINE I == root # None => HandlesInv
<1>1. MCInit => I
  <2>1. HandlesIdle => root = None
    BY DEF HandlesIdle
  <2> QED
    BY <2>1, HandlesBegin DEF MCInit
<1>2. I /\ [MCNext]_<<vars, memVars, handleVars>> => I'
  <2> SUFFICES ASSUME I, [MCNext]_<<vars, memVars, handleVars>> PROVE I'
    OBVIOUS
  <2>1. CASE UNCHANGED handleVars
    BY <2>1 DEF handleVars, HandlesInv, Derived!Owners
  <2>2. CASE root # None /\ Derived!Next
    BY <2>2, HandlesStep
  <2> QED
    BY <2>1, <2>2 DEF MCNext
<1>3. HandlesInv => Derived!ReadOnlyStaysReadOnly
  BY DEF HandlesInv, IsHandle, Derived!ReadOnlyStaysReadOnly, Derived!Live
<1>4. HandlesInv => Derived!OwnersKeepMemory
  <2> SUFFICES ASSUME HandlesInv, root.kind = "buffer"
               PROVE  /\ freed <=> Derived!UseCount = 0
                      /\ \A s \in HandleSlots : Derived!IsA(s, {"buffer"}) /\ Derived!IsValid(slots[s]) => ~freed
                      /\ freed => actions.run = [k \in 1 .. Len(actions.added) |-> k]
    BY DEF Derived!OwnersKeepMemory
  <2>1. DOMAIN slots = HandleSlots
    BY DEF HandlesInv
  <2>2. IsFiniteSet(Derived!Owners(slots))
    BY <2>1, RootsAssumption, FS_Subset DEF Derived!Owners
  <2>3. freed <=> Derived!UseCount = 0
    <3>1. PICK S : S = Derived!Owners(slots)
      OBVIOUS
    <3>2. IsFiniteSet(S) /\ (freed <=> S = {})
      BY <2>2, <3>1 DEF HandlesInv
    <3>3. Cardinality(S) = 0 <=> S = {}
      BY <3>2, FS_EmptySet
    <3>4. Derived!UseCount = Cardinality(S)
      BY <3>1, Zenon DEF Derived!UseCount, Derived!Cardinality, Cardinality
    <3> QED
      BY <3>2, <3>3, <3>4
  <2>4. ASSUME NEW s \in HandleSlots, Derived!IsA(s, {"buffer"}), Derived!IsValid(slots[s])
        PROVE  ~freed
    <3>1. s \in Derived!Owners(slots)
      BY <2>1, <2>4 DEF Derived!IsA, Derived!IsValid, Derived!Live, Derived!Owners
    <3> QED
      BY <3>1 DEF HandlesInv
  <2>5. freed => actions.run = [k \in 1 .. Len(actions.added) |-> k]
    <3>1. actions.added = [k \in 1 .. Len(actions.added) |-> k]
      BY DEF HandlesInv
    <3> QED
      BY <3>1 DEF HandlesInv
  <2> QED
    BY <2>3, <2>4, <2>5
<1>5. HandlesInv => Derived!ElementsAreInPlace
  <2> SUFFICES ASSUME HandlesInv, NEW s \in HandleSlots, slots[s] # None, NEW h, h = slots[s]
               PROVE  PartOfRoot(root, h)
    BY DEF Derived!ElementsAreInPlace, Derived!Live, PartOfRoot
  <2>1. InPlace(root, h.view, h.at, h.align)
    BY DEF HandlesInv, IsHandle
  <2> QED
    BY <2>1, ElementsOfTheRoot
<1>6. I => HandlesAreSound
  BY <1>3, <1>4, <1>5 DEF HandlesAreSound, Derived!HandlesAreSound
<1> QED
  BY <1>1, <1>2, <1>6, PTL DEF MCSpec
=============================================================================
