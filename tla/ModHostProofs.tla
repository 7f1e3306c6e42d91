--------------------------- MODULE ModHostProofs ---------------------------
(***************************************************************************)
(* Proofs about loading mods, for any catalog of mods, any grants, either  *)
(* entry policy and any host, one that loads and runs code while a module  *)
(* is being evaluated included.  The history variable overlapped tells the *)
(* entries that were open meanwhile from those that had the runtime to     *)
(* themselves.                                                             *)
(***************************************************************************)
EXTENDS ModHost, TLAPS

Evaluating == {"evaluating", "awaiting", "harvesting"}

(* exportOwner names a mod only while that mod's module is being evaluated, and names it
   all that while unless the entry is overlapped. *)
Owned ==
    /\ owner # Host => phase[owner] \in Evaluating
    /\ \A m \in Mods \ overlapped : phase[m] \in Evaluating => owner = m

(* What a module registered before its first await is in its bucket. *)
Started ==
    \A m \in Mods : phase[m] \in Evaluating =>
        Catalog[m].format = "module" /\ \A n \in Catalog[m].scripts[1] : buckets[m][n] # None

(* Code that registers belongs to the host or to a mod that was evaluated, and a
   mod is evaluated only after it declared its exports. *)
Declaring ==
    /\ evaluated \subseteq declared
    /\ \A m \in Mods : phase[m] \in Evaluating => m \in evaluated
    /\ \A o \in Owners, n \in Names : buckets[o][n] \in evaluated \cup {Host, None}

(* A hook fill belongs to a mod that loaded. *)
Filled == \A f \in Range(hookFills) : f \in HookFill /\ f.mod \in Range(loadedMods)

AuditInv == TypeOK /\ Filled /\ AuditedOnce
SpaceInv == Owned /\ Started /\ NamespacesHold
GateInv  == AuditInv /\ SpaceInv /\ Declaring /\ GateHolds

-----------------------------------------------------------------------------
(* A registration changes one bucket, and there only what is registered. *)
LEMMA Registers ==
    ASSUME NEW b \in [Owners -> [Names -> Owners \cup {None}]], NEW o \in Owners, NEW by \in Owners,
           NEW names
    PROVE  /\ Register(b, o, by, names) \in [Owners -> [Names -> Owners \cup {None}]]
           /\ \A x \in Owners, n \in Names :
                 \/ Register(b, o, by, names)[x][n] = b[x][n]
                 \/ x = o /\ Register(b, o, by, names)[x][n] = by
           /\ \A n \in Names \cap names : Register(b, o, by, names)[o][n] = by
  BY DEF Register

(* The harvest is a registration. *)
LEMMA Harvests ==
    ASSUME NEW b \in [Owners -> [Names -> Owners \cup {None}]], NEW o \in Owners, NEW by \in Owners,
           NEW names
    PROVE  /\ Harvest(b, o, by, names) \in [Owners -> [Names -> Owners \cup {None}]]
           /\ \A x \in Owners, n \in Names :
                 \/ Harvest(b, o, by, names)[x][n] = b[x][n]
                 \/ x = o /\ Harvest(b, o, by, names)[x][n] = by
           /\ by # None => \A n \in Names \cap names : Harvest(b, o, by, names)[o][n] # None
  BY Registers DEF Harvest, Register

(* What the end of a load does to the registries: nothing, or the mod is listed as
   loaded and its fills are registered as its own. *)
LEMMA Concludes ==
    ASSUME TypeOK, NEW m \in Mods, NEW failure, Conclude(m, failure)
    PROVE  /\ hookFills' \in Seq(HookFill) /\ loadedMods' \in Seq(Mods)
           /\ phase' \in [Mods -> Phases] /\ phase'[m] \in {"registered", "failed"}
           /\ \A x \in Mods : x # m => phase'[x] = phase[x]
           /\ Range(loadedMods) \subseteq Range(loadedMods')
           /\ Range(loadedMods') \subseteq Range(loadedMods) \cup {m}
           /\ failure \notin {"none", "error"} => loadedMods' = loadedMods
           /\ \A f \in Range(hookFills') :
                 f \in Range(hookFills) \/ (f \in HookFill /\ f.mod = m /\ m \in Range(loadedMods'))
<1>1. CASE UNCHANGED <<hookFills, loadedMods>> /\ phase' = [phase EXCEPT ![m] = "failed"]
  BY <1>1 DEF TypeOK, Phases
<1>2. CASE ~UNCHANGED <<hookFills, loadedMods>> \/ phase' # [phase EXCEPT ![m] = "failed"]
  <2> DEFINE fill(i) == [hook |-> Catalog[m].fills[i].hook, handler |-> Catalog[m].fills[i].handler, mod |-> m]
             added == [i \in 1..Len(Catalog[m].fills) |-> fill(i)]
  <2>1. /\ phase' = [phase EXCEPT ![m] = "registered"]
        /\ hookFills' = hookFills \o added
        /\ loadedMods' = Append(loadedMods, m)
    BY <1>2 DEF Conclude
  <2>2. Catalog[m].fills \in Seq([hook : Hooks, handler : Names])
    BY ModHostAssumption DEF Manifest
  <2>3. \A i \in 1..Len(Catalog[m].fills) : fill(i) \in HookFill
    <3>1. ASSUME NEW S, NEW fs \in Seq(S), NEW i \in 1..Len(fs) PROVE fs[i] \in S
      OBVIOUS
    <3>2. \A i \in 1..Len(Catalog[m].fills) : Catalog[m].fills[i] \in [hook : Hooks, handler : Names]
      BY <2>2, <3>1, Zenon
    <3> QED
      BY <3>2 DEF HookFill
  <2>4. added \in Seq(HookFill) /\ Len(added) = Len(Catalog[m].fills)
    BY <2>2, <2>3
  <2>5. hookFills \in Seq(HookFill) /\ loadedMods \in Seq(Mods)
    BY DEF TypeOK
  <2>6. hookFills' \in Seq(HookFill) /\ loadedMods' \in Seq(Mods)
    BY <2>1, <2>4, <2>5
  <2>7. /\ Len(loadedMods') = Len(loadedMods) + 1 /\ loadedMods'[Len(loadedMods) + 1] = m
        /\ \A i \in 1..Len(loadedMods) : loadedMods'[i] = loadedMods[i]
        /\ DOMAIN loadedMods' = 1..Len(loadedMods') /\ DOMAIN loadedMods = 1..Len(loadedMods)
        /\ Len(loadedMods) \in Nat
    BY <2>1, <2>5, <2>6
  <2>8. /\ m \in Range(loadedMods') /\ Range(loadedMods) \subseteq Range(loadedMods')
        /\ Range(loadedMods') \subseteq Range(loadedMods) \cup {m}
    BY <2>7 DEF Range
  <2>10. failure \in {"none", "error"}
    BY <1>2 DEF Conclude
  <2>9. ASSUME NEW f \in Range(hookFills')
        PROVE  f \in Range(hookFills) \/ (f \in HookFill /\ f.mod = m)
    <3>1. PICK i \in 1..Len(hookFills') : f = hookFills'[i]
      BY <2>6 DEF Range
    <3>2. CASE i <= Len(hookFills)
      <4>1. i \in DOMAIN hookFills /\ f = hookFills[i]
        BY <2>1, <2>4, <2>5, <3>1, <3>2
      <4> QED
        BY <4>1 DEF Range
    <3>3. CASE i > Len(hookFills)
      <4>1. i - Len(hookFills) \in 1..Len(added) /\ f = added[i - Len(hookFills)]
        BY <2>1, <2>4, <2>5, <3>1, <3>3, SMTT(30)
      <4>2. f = fill(i - Len(hookFills))
        BY <2>4, <4>1
      <4> QED
        BY <2>3, <2>4, <4>1, <4>2
    <3> QED
      BY <2>5, <2>6, <3>1, <3>2, <3>3
  <2> QED
    BY <2>1, <2>6, <2>8, <2>9, <2>10 DEF TypeOK, Phases
<1> QED
  BY <1>1, <1>2

-----------------------------------------------------------------------------
(* What an invocation runs is a function of the bucket it went to. *)
LEMMA Dispatches ==
    ASSUME TypeOK, NEW n \in Names, NEW o \in Owners \cup {None}, NEW r \in Dispatch(n, o)
    PROVE  /\ r \in [by : Owners, name : Names, as : Owners]
           /\ r.name = n /\ r.by = buckets[r.as][n]
           /\ o # None => r.as = o
<1>1. PICK x \in Owners : buckets[x][n] # None /\ r = [by |-> buckets[x][n], name |-> n, as |-> x]
                          /\ (o # None => x = o)
  BY DEF Dispatch, OwnersOf
<1>2. buckets[x][n] \in Owners
  BY <1>1 DEF TypeOK
<1> QED
  BY <1>1, <1>2

(* A function that mod m's bucket holds may be run when m's gate lets it. *)
LEMMA OwnGate ==
    ASSUME TypeOK, Declaring, BucketIsPrivate, NEW n \in Names, NEW m \in Mods, ~Denied(m, n),
           NEW r \in Dispatch(n, m), r.by \in Mods, r.name \in DOMAIN Catalog[r.by].declares
    PROVE  \/ r.as # r.by /\ r.as \in overlapped
           \/ Catalog[r.by].declares[r.name] \in Granted \cup {None}
<1>1. m \in Owners /\ m # None
  BY ModHostAssumption DEF Owners
<1>2. r.name = n /\ r.by = buckets[m][n] /\ r.as = m
  BY <1>1, Dispatches
<1>3. r.by \in declared
  BY <1>1, <1>2, ModHostAssumption DEF Declaring
<1>4. CASE r.by = m
  BY <1>2, <1>3, <1>4 DEF Denied
<1>5. CASE r.by # m
  BY <1>2, <1>5, ModHostAssumption DEF BucketIsPrivate
<1> QED
  BY <1>4, <1>5

(* A function that any bucket holds may be run by name when the one mod that
   declared the name, or no mod, lets it. *)
LEMMA NameGate ==
    ASSUME TypeOK, Declaring, BucketIsPrivate, NEW n \in Names, NEW o \in GateExport(n),
           NEW r \in Dispatch(n, o), r.by \in Mods, r.name \in DOMAIN Catalog[r.by].declares
    PROVE  \/ r.as # r.by /\ r.as \in overlapped
           \/ Catalog[r.by].declares[r.name] \in Granted \cup {None}
<1>1. o \in DeclaredOwners(n) \cup {None}
  BY DEF GateExport
<1>2. o \in Owners \cup {None}
  BY <1>1 DEF DeclaredOwners, Owners, TypeOK
<1>3. r.name = n /\ r.by = buckets[r.as][n] /\ r.as \in Owners
  BY <1>2, Dispatches
<1>4. r.by \in declared
  BY <1>3, ModHostAssumption DEF Declaring
<1>5. r.by \in DeclaredOwners(n)
  BY <1>3, <1>4 DEF DeclaredOwners
<1>6. o \in DeclaredOwners(n) /\ ~Denied(o, n)
  BY <1>1, <1>5, ModHostAssumption DEF GateExport, DeclaredOwners, TypeOK
<1> QED
  BY <1>6, OwnGate DEF DeclaredOwners, TypeOK

-----------------------------------------------------------------------------
(* Every operation keeps the state well typed and the audit honest. *)
LEMMA AuditStep == AuditInv /\ [Next]_vars => AuditInv'
<1> SUFFICES ASSUME AuditInv, [Next]_vars PROVE AuditInv'
  OBVIOUS
<1> USE DEF AuditInv
<1>o. \A by : Overlaps(by) \subseteq Mods
  BY DEF Overlaps, Open, TypeOK
<1>1. ASSUME NEW m \in Mods, MissingEntryScript(m) PROVE AuditInv'
  <2>1. Conclude(m, "error")
    BY <1>1 DEF MissingEntryScript
  <2>2. TypeOK'
    BY <1>1, <2>1, Concludes DEF MissingEntryScript, Declared, Diagnosed, TypeOK
  <2>3. Filled' /\ AuditedOnce'
    BY <1>1, <2>1, Concludes DEF MissingEntryScript, Filled, AuditedOnce
  <2> QED
    BY <2>2, <2>3
<1>2. ASSUME NEW m \in Mods, LoadScripts(m) PROVE AuditInv'
  <2>1. PICK k \in 0..Len(Catalog[m].scripts), failure \in {"none", "error", "propagates"} :
           /\ \E extra : buckets' = Register(buckets, m, m, After(m, k, extra))
           /\ declared' = Declared(m, failure)
           /\ diagnostics' = IF failure = "error" THEN Diagnosed(m, "entry-failed") ELSE diagnostics
           /\ Conclude(m, failure)
    BY <1>2 DEF LoadScripts
  <2>2. m \in Owners /\ Host \in Owners
    BY DEF Owners
  <2>3. buckets' \in [Owners -> [Names -> Owners \cup {None}]]
    BY <2>1, <2>2, Registers DEF TypeOK
  <2>4. TypeOK'
    BY <1>o, <1>2, <2>1, <2>2, <2>3, Concludes DEF LoadScripts, Declared, Diagnosed, TypeOK
  <2>5. Filled' /\ AuditedOnce'
    BY <1>2, <2>1, Concludes DEF LoadScripts, Filled, AuditedOnce
  <2> QED
    BY <2>4, <2>5
<1>3. ASSUME NEW m \in Mods, LoadModuleSync(m) PROVE AuditInv'
  BY <1>3 DEF LoadModuleSync, TypeOK, Phases, Filled, AuditedOnce
<1>4. ASSUME NEW m \in Mods, StartModule(m) PROVE AuditInv'
  <2>1. m \in Owners /\ Host \in Owners
    BY DEF Owners
  <2>2. ASSUME NEW failure \in {"error", "propagates"}, owner' = Host, Conclude(m, failure), UNCHANGED <<buckets, evaluated>>,
               diagnostics' = IF failure = "error" THEN Diagnosed(m, "entry-failed") ELSE diagnostics
        PROVE  AuditInv'
    <3>1. TypeOK'
      BY <1>o, <1>4, <2>1, <2>2, Concludes DEF StartModule, Declared, Diagnosed, TypeOK
    <3>2. Filled' /\ AuditedOnce'
      BY <1>4, <2>2, Concludes DEF StartModule, Filled, AuditedOnce
    <3> QED
      BY <3>1, <3>2
  <2>3. CASE /\ owner' = m /\ buckets' = Register(buckets, m, m, Catalog[m].scripts[1])
             /\ phase' = [phase EXCEPT ![m] = "evaluating"]
             /\ evaluated' = evaluated \cup {m}
             /\ UNCHANGED <<hookFills, loadedMods, diagnostics>>
    <3>1. /\ UNCHANGED <<reported, audits, late, fires>> /\ overlapped' = Overlaps(m)
          /\ declared' = declared \cup {m} /\ ran' = {}
      BY <1>4 DEF StartModule, Declared
    <3>2. buckets' \in [Owners -> [Names -> Owners \cup {None}]]
      BY <2>1, <2>3, Registers DEF TypeOK
    <3>3. TypeOK'
      BY <1>o, <2>1, <2>3, <3>1, <3>2 DEF TypeOK, Phases
    <3> QED
      BY <2>3, <3>1, <3>3 DEF Filled, AuditedOnce
  <2> QED
    BY <1>4, <2>2, <2>3 DEF StartModule
<1>5. ASSUME NEW m \in Mods, DrainModule(m) PROVE AuditInv'
  BY <1>5 DEF DrainModule, TypeOK, Phases, Filled, AuditedOnce
<1>6. ASSUME NEW m \in Mods, ResumeModule(m) PROVE AuditInv'
  <2>1. m \in Owners
    BY DEF Owners
  <2>2. buckets' \in [Owners -> [Names -> Owners \cup {None}]]
    BY <1>6, <2>1, Registers DEF ResumeModule, TypeOK
  <2> QED
    BY <1>o, <1>6, <2>2 DEF ResumeModule, TypeOK, Phases, Filled, AuditedOnce
<1>7. ASSUME NEW m \in Mods, FinishModule(m) PROVE AuditInv'
  <2>1. m \in Owners /\ Host \in Owners
    BY DEF Owners
  <2>2. PICK failure \in {"none", "error", "propagates"} :
           /\ buckets' = IF failure = "none" THEN Harvest(buckets, owner, m, Catalog[m].exports) ELSE buckets
           /\ diagnostics' = IF failure = "error" THEN Diagnosed(m, "entry-failed") ELSE diagnostics
           /\ Conclude(m, failure)
    BY <1>7 DEF FinishModule
  <2>3. buckets' \in [Owners -> [Names -> Owners \cup {None}]]
    BY <2>1, <2>2, Harvests DEF TypeOK
  <2>4. TypeOK'
    BY <1>o, <1>7, <2>1, <2>2, <2>3, Concludes DEF FinishModule, Diagnosed, TypeOK
  <2>5. Filled' /\ AuditedOnce'
    BY <1>7, <2>2, Concludes DEF FinishModule, Filled, AuditedOnce
  <2> QED
    BY <2>4, <2>5
<1>8. CASE LateRegister
  <2>1. PICK by \in evaluated \cup {Host}, n \in Names : buckets' = Register(buckets, owner, by, {n})
    BY <1>8 DEF LateRegister
  <2>2. by \in Owners
    BY <2>1 DEF Owners, TypeOK
  <2>3. buckets' \in [Owners -> [Names -> Owners \cup {None}]]
    BY <2>1, <2>2, Registers DEF TypeOK
  <2>4. late' \in 0..MaxLate
    BY <1>8, ModHostAssumption DEF LateRegister, TypeOK
  <2> QED
    BY <1>o, <1>8, <2>3, <2>4 DEF LateRegister, TypeOK, Filled, AuditedOnce
<1>9. ASSUME NEW n \in Names, InvokeExport(n) PROVE AuditInv'
  <2>1. PICK o \in GateExport(n) : ran' = Dispatch(n, o)
    BY <1>9 DEF InvokeExport
  <2>2. o \in Owners \cup {None}
    BY DEF GateExport, DeclaredOwners, Owners, TypeOK
  <2>3. ran' \subseteq [by : Owners, name : Names, as : Owners]
    BY <2>1, <2>2, Dispatches
  <2> QED
    BY <1>9, <2>3 DEF InvokeExport, TypeOK, Filled, AuditedOnce
<1>10. ASSUME NEW n \in Names, NEW m \in Mods, InvokeModExport(m, n) PROVE AuditInv'
  <2>1. ran' \subseteq [by : Owners, name : Names, as : Owners]
    BY <1>10, Dispatches DEF InvokeModExport, Owners
  <2> QED
    BY <1>10, <2>1 DEF InvokeModExport, TypeOK, Filled, AuditedOnce
<1>11. ASSUME NEW h \in Hooks, FireHook(h) PROVE AuditInv'
  <2> DEFINE due == {f \in Range(hookFills) : f.hook = h}
             refused == {f \in due : Denied(f.mod, f.handler)}
             news == {f \in refused : ~AlreadyReported(f)}
  <2>1. /\ ran' = UNION {Dispatch(f.handler, f.mod) : f \in due \ refused}
        /\ reported' = reported \cup refused
        /\ audits' = [f \in HookFill |-> IF f \in news THEN audits[f] + 1 ELSE audits[f]]
        /\ fires' = fires + 1 /\ fires < MaxFires
        /\ UNCHANGED <<phase, owner, buckets, declared, hookFills, loadedMods, diagnostics, evaluated, overlapped, late>>
    BY <1>11 DEF FireHook
  <2>2. \A f \in due : f \in HookFill /\ f.mod \in Mods /\ f.handler \in Names /\ f.mod \in Range(loadedMods)
    BY DEF Filled, HookFill
  <2>3. ran' \subseteq [by : Owners, name : Names, as : Owners]
    <3>1. \A f \in due : Dispatch(f.handler, f.mod) \subseteq [by : Owners, name : Names, as : Owners]
      BY <2>2, Dispatches DEF Owners
    <3> QED
      BY <2>1, <3>1
  <2>4. reported' \subseteq HookFill /\ audits' \in [HookFill -> Nat] /\ fires' \in 0..MaxFires
    BY <2>1, <2>2, ModHostAssumption DEF TypeOK
  <2>5. TypeOK'
    BY <2>1, <2>3, <2>4 DEF TypeOK
  <2>6. Filled'
    BY <2>1 DEF Filled
  <2>7. AuditedOnce'
    BY <2>1, <2>2 DEF AuditedOnce, AlreadyReported
  <2> QED
    BY <2>5, <2>6, <2>7
<1>12. CASE UNCHANGED vars
  BY <1>12 DEF vars, TypeOK, Filled, AuditedOnce
<1> QED
  BY <1>1, <1>2, <1>3, <1>4, <1>5, <1>6, <1>7, <1>8, <1>9, <1>10, <1>11, <1>12 DEF Next

-----------------------------------------------------------------------------
(* What a step may write into a bucket. *)
Writes(o, by) ==
    \A x \in Owners, n \in Names : buckets'[x][n] = buckets[x][n] \/ (x = o /\ buckets'[x][n] = by)

(* What an entry registers and exports are export names. *)
LEMMA NamesOfEntry ==
    ASSUME NEW m \in Mods
    PROVE  /\ EntryNames(m) \subseteq Names
           /\ Catalog[m].format = "module" => Catalog[m].scripts[1] \subseteq Names
           /\ \A i \in 1..Len(Catalog[m].scripts) : Catalog[m].scripts[i] \subseteq Names
<1>1. Catalog[m].scripts \in Seq(SUBSET Names) /\ Catalog[m].exports \subseteq Names
  BY ModHostAssumption DEF Manifest
<1>2. ASSUME NEW S, NEW q \in Seq(S), NEW i \in 1..Len(q) PROVE q[i] \in S
  OBVIOUS
<1>3. \A i \in 1..Len(Catalog[m].scripts) : Catalog[m].scripts[i] \in SUBSET Names
  BY <1>1, <1>2, Zenon
<1>4. Catalog[m].format = "module" => Catalog[m].scripts[1] \subseteq Names
  <2> HAVE Catalog[m].format = "module"
  <2>1. Len(Catalog[m].scripts) = 1
    BY ModHostAssumption
  <2>2. 1 \in 1..Len(Catalog[m].scripts)
    BY <2>1
  <2> QED
    BY <1>3, <2>2
<1> QED
  BY <1>1, <1>3, <1>4 DEF EntryNames, After

(* A diagnostic names the mod it is about. *)
LEMMA Diagnoses ==
    ASSUME NEW m, NEW code
    PROVE  diagnostics \subseteq Diagnosed(m, code) /\ \E d \in Diagnosed(m, code) : d.mod = m
<1>1. [mod |-> m, code |-> code] \in Diagnosed(m, code) /\ [mod |-> m, code |-> code].mod = m
  BY DEF Diagnosed
<1> QED
  BY <1>1 DEF Diagnosed

(* A write leaves no name empty that was not. *)
LEMMA NamesKept ==
    ASSUME NEW o, NEW by \in Owners, Writes(o, by)
    PROVE  \A x \in Owners, n \in Names : buckets[x][n] # None => buckets'[x][n] # None
  BY ModHostAssumption DEF Writes, Owners

(* A write of by's into its own bucket, the host's, or the one exportOwner names: a mod
   that exportOwner names is being evaluated, so its entry is overlapped by it. *)
LEMMA StaysPrivate ==
    ASSUME TypeOK, Owned, BucketIsPrivate, NEW o \in {owner, Host}, NEW by \in Owners,
           Writes(o, by) \/ Writes(by, by), overlapped' = Overlaps(by)
    PROVE  BucketIsPrivate'
<1> SUFFICES ASSUME NEW m \in Mods, m \notin overlapped', NEW n \in Names PROVE buckets'[m][n] \in {m, None}
  BY DEF BucketIsPrivate
<1>1. m \in Owners /\ m # Host /\ m \notin overlapped /\ buckets[m][n] \in {m, None}
  BY ModHostAssumption DEF Owners, Overlaps, BucketIsPrivate
<1>2. CASE buckets'[m][n] = buckets[m][n]
  BY <1>1, <1>2
<1>3. CASE m = by /\ buckets'[m][n] = by
  BY <1>3
<1>4. CASE m = o /\ buckets'[m][n] = by /\ m # by
  <2>1. phase[m] \in Evaluating
    BY <1>1, <1>4 DEF Owned
  <2> QED
    BY <1>4, <2>1 DEF Overlaps, Open, Evaluating
<1> QED
  BY <1>1, <1>2, <1>3, <1>4 DEF Writes

(* What loaded entries registered stays found, when the mod that now loads has its own. *)
LEMMA StaysHome ==
    ASSUME EntryAtHome, overlapped \subseteq overlapped', diagnostics \subseteq diagnostics',
           \A x \in Owners, n \in Names : buckets[x][n] # None => buckets'[x][n] # None,
           NEW m \in Mods, Range(loadedMods') \subseteq Range(loadedMods) \cup {m},
           m \notin overlapped' /\ LoadedWhole(m)' /\ m \notin Range(loadedMods)
               => \A n \in EntryNames(m) : buckets'[m][n] # None
    PROVE  EntryAtHome'
<1> SUFFICES ASSUME NEW x \in Mods, x \notin overlapped', LoadedWhole(x)', NEW n \in EntryNames(x)
             PROVE  buckets'[x][n] # None
  BY DEF EntryAtHome, EntryNames, After
<1>1. CASE x \in Range(loadedMods)
  <2>1. LoadedWhole(x) /\ x \notin overlapped
    BY <1>1 DEF LoadedWhole
  <2> QED
    BY <2>1, NamesOfEntry DEF EntryAtHome, Owners
<1>2. CASE x \notin Range(loadedMods)
  BY <1>2 DEF LoadedWhole
<1> QED
  BY <1>1, <1>2

(* Steps that register nothing, load nothing and change no phase keep all but the gate. *)
LEMMA SpaceSame ==
    ASSUME SpaceInv, Declaring, phase' = phase, owner' = owner, buckets' = buckets, overlapped' = overlapped,
           declared' = declared, evaluated' = evaluated, loadedMods' = loadedMods, diagnostics' = diagnostics
    PROVE  SpaceInv' /\ Declaring'
  BY DEF SpaceInv, Owned, Started, NamespacesHold, BucketIsPrivate, EntryAtHome, LoadedWhole, EntryNames, After, Declaring

(* A load that ends: its entry is open no more. *)
LEMMA LoadEnds ==
    ASSUME GateInv, NEW m \in Mods, NEW failure, Conclude(m, failure), overlapped' = Overlaps(m), owner' = Host,
           Writes(m, m) \/ Writes(owner, m), diagnostics \subseteq diagnostics',
           failure = "error" => \E d \in diagnostics' : d.mod = m,
           failure = "none" /\ m \notin overlapped' => \A n \in EntryNames(m) : buckets'[m][n] # None,
           declared \cup evaluated' \subseteq declared', evaluated \subseteq evaluated',
           \A x \in Owners, n \in Names : buckets'[x][n] \in {buckets[x][n]} \cup evaluated',
           ran' = {}
    PROVE  SpaceInv' /\ Declaring' /\ GateHolds'
<1> USE DEF GateInv, AuditInv, SpaceInv
<1>1. m \in Owners /\ m # Host /\ owner \in Owners /\ overlapped \subseteq overlapped'
  BY ModHostAssumption DEF Owners, Overlaps, TypeOK
<1>2. /\ \A x \in Mods : phase'[x] \in Evaluating => x # m /\ phase[x] \in Evaluating
      /\ Range(loadedMods') \subseteq Range(loadedMods) \cup {m}
      /\ failure \notin {"none", "error"} => loadedMods' = loadedMods
  BY Concludes DEF Evaluating
<1>3. \A x \in Owners, n \in Names : buckets[x][n] # None => buckets'[x][n] # None
  BY <1>1, NamesKept
<1>4. Owned'
  <2>1. \A x \in Mods : phase'[x] \in Evaluating => x \in overlapped'
    BY <1>2 DEF Overlaps, Open, Evaluating
  <2> QED
    BY <2>1 DEF Owned
<1>5. Started'
  <2> SUFFICES ASSUME NEW x \in Mods, phase'[x] \in Evaluating, NEW n \in Catalog[x].scripts[1]
               PROVE  buckets'[x][n] # None
    BY <1>2 DEF Started
  <2>1. phase[x] \in Evaluating /\ x \in Owners
    BY <1>2 DEF Owners
  <2>2. buckets[x][n] # None
    BY <2>1 DEF Started
  <2>3. n \in Names
    BY <2>1, NamesOfEntry DEF Started
  <2> QED
    BY <1>3, <2>1, <2>2, <2>3
<1>6. BucketIsPrivate'
  BY <1>1, StaysPrivate DEF NamespacesHold
<1>7. EntryAtHome'
  <2>1. m \notin overlapped' /\ LoadedWhole(m)' /\ m \notin Range(loadedMods)
           => \A n \in EntryNames(m) : buckets'[m][n] # None
    BY <1>2 DEF LoadedWhole
  <2> QED
    BY <1>1, <1>2, <1>3, <2>1, StaysHome DEF NamespacesHold
<1>8. Declaring'
  <2>1. \A x \in Mods : phase'[x] \in Evaluating => x \in evaluated'
    BY <1>2 DEF Declaring
  <2>2. \A o \in Owners, n \in Names : buckets'[o][n] \in evaluated' \cup {Host, None}
    BY DEF Declaring
  <2> QED
    BY <2>1, <2>2 DEF Declaring
<1> QED
  BY <1>4, <1>5, <1>6, <1>7, <1>8 DEF NamespacesHold, GateHolds

(* Every operation keeps the namespaces apart and the gates shut. *)
LEMMA GateStep == GateInv /\ [Next]_vars => GateInv'
<1> SUFFICES ASSUME GateInv, [Next]_vars PROVE GateInv'
  OBVIOUS
<1> USE DEF GateInv, AuditInv
<1>a. AuditInv'
  BY AuditStep
<1>b. Host \in Owners /\ \A m \in Mods : m \in Owners /\ m # Host /\ m # None
  BY ModHostAssumption DEF Owners
<1>c. buckets \in [Owners -> [Names -> Owners \cup {None}]] /\ owner \in Owners
  BY DEF TypeOK
<1> SUFFICES SpaceInv' /\ Declaring' /\ GateHolds'
  BY <1>a
<1>1. ASSUME NEW m \in Mods, MissingEntryScript(m) PROVE SpaceInv' /\ Declaring' /\ GateHolds'
  <2>1. /\ Conclude(m, "error") /\ owner' = owner /\ buckets' = buckets /\ evaluated' = evaluated
        /\ declared' = declared \cup {m} /\ ran' = {} /\ overlapped' = overlapped
        /\ diagnostics' = Diagnosed(m, "missing-entry-script") /\ phase[m] = "idle"
    BY <1>1 DEF MissingEntryScript, Declared
  <2>2. /\ \A x \in Mods : phase'[x] \in Evaluating <=> phase[x] \in Evaluating
        /\ Range(loadedMods') \subseteq Range(loadedMods) \cup {m}
    BY <2>1, Concludes DEF Evaluating
  <2>3. Owned' /\ Started'
    <3>1. owner # Host => owner \in Mods
      BY <1>c DEF Owners
    <3> QED
      BY <2>1, <2>2, <3>1 DEF SpaceInv, Owned, Started
  <2>4. ~LoadedWhole(m)' /\ diagnostics \subseteq diagnostics'
    BY <2>1, Diagnoses DEF LoadedWhole
  <2>5. BucketIsPrivate' /\ EntryAtHome'
    BY <2>1, <2>2, <2>4, StaysHome DEF SpaceInv, NamespacesHold, BucketIsPrivate
  <2> QED
    BY <2>1, <2>2, <2>3, <2>5 DEF SpaceInv, NamespacesHold, Declaring, GateHolds
<1>2. ASSUME NEW m \in Mods, LoadScripts(m) PROVE SpaceInv' /\ Declaring' /\ GateHolds'
  <2>0. PICK k \in 0..Len(Catalog[m].scripts), failure \in {"none", "error", "propagates"} :
           /\ (k = Len(Catalog[m].scripts)) <=> (failure = "none")
           /\ \E extra : buckets' = Register(buckets, m, m, After(m, k, extra))
           /\ diagnostics' = IF failure = "error" THEN Diagnosed(m, "entry-failed") ELSE diagnostics
           /\ Conclude(m, failure)
    BY <1>2 DEF LoadScripts
  <2>1. PICK extra : /\ (k = Len(Catalog[m].scripts)) <=> (failure = "none")
                     /\ buckets' = Register(buckets, m, m, After(m, k, extra))
                     /\ diagnostics' = IF failure = "error" THEN Diagnosed(m, "entry-failed") ELSE diagnostics
                     /\ Conclude(m, failure)
    BY <2>0
  <2>2. /\ owner' = Host /\ evaluated' = evaluated \cup {m} /\ declared' = declared \cup {m} /\ ran' = {}
        /\ overlapped' = Overlaps(m) /\ Catalog[m].format = "script"
    BY <1>2 DEF LoadScripts, Declared
  <2>3. Writes(m, m) /\ \A n \in Names \cap After(m, k, extra) : buckets'[m][n] = m
    BY <1>b, <1>c, <2>1, Registers DEF Writes
  <2>4. diagnostics \subseteq diagnostics' /\ (failure = "error" => \E d \in diagnostics' : d.mod = m)
    BY <2>1, Diagnoses
  <2>5. failure = "none" => \A n \in EntryNames(m) : buckets'[m][n] # None
    <3> HAVE failure = "none"
    <3>1. EntryNames(m) \subseteq Names \cap After(m, k, extra)
      BY <2>1, <2>2, NamesOfEntry DEF EntryNames, After
    <3> QED
      BY <1>b, <2>3, <3>1
  <2>6. declared \cup evaluated' \subseteq declared' /\ evaluated \subseteq evaluated'
    BY <2>2 DEF Declaring
  <2>7. \A x \in Owners, n \in Names : buckets'[x][n] \in {buckets[x][n]} \cup evaluated'
    BY <2>2, <2>3 DEF Writes
  <2> QED
    BY <2>1, <2>2, <2>3, <2>4, <2>5, <2>6, <2>7, LoadEnds
<1>3. ASSUME NEW m \in Mods, LoadModuleSync(m) PROVE SpaceInv' /\ Declaring' /\ GateHolds'
  <2>1. /\ phase[m] = "idle" /\ phase' = [phase EXCEPT ![m] = "failed"] /\ ran' = {}
        /\ UNCHANGED <<owner, buckets, declared, loadedMods, diagnostics, evaluated, overlapped>>
    BY <1>3 DEF LoadModuleSync
  <2>2. \A x \in Mods : phase'[x] \in Evaluating <=> phase[x] \in Evaluating
    BY <2>1 DEF TypeOK, Evaluating
  <2>3. owner # Host => owner \in Mods
    BY <1>c DEF Owners
  <2> QED
    BY <2>1, <2>2, <2>3 DEF SpaceInv, Owned, Started, NamespacesHold, BucketIsPrivate, EntryAtHome,
                            LoadedWhole, EntryNames, After, Declaring, GateHolds
<1>4. ASSUME NEW m \in Mods, StartModule(m) PROVE SpaceInv' /\ Declaring' /\ GateHolds'
  <2>1. /\ declared' = declared \cup {m} /\ ran' = {} /\ overlapped' = Overlaps(m)
        /\ phase[m] = "idle" /\ Catalog[m].format = "module"
    BY <1>4 DEF StartModule, Declared
  <2>2. CASE /\ owner' = m /\ buckets' = Register(buckets, m, m, Catalog[m].scripts[1])
             /\ phase' = [phase EXCEPT ![m] = "evaluating"]
             /\ evaluated' = evaluated \cup {m}
             /\ UNCHANGED <<hookFills, loadedMods, diagnostics>>
    <3>1. Writes(m, m) /\ \A n \in Names \cap Catalog[m].scripts[1] : buckets'[m][n] = m
      BY <1>b, <1>c, <2>2, Registers DEF Writes
    <3>2. \A x \in Mods : phase'[x] \in Evaluating <=> x = m \/ phase[x] \in Evaluating
      BY <2>2 DEF TypeOK, Evaluating
    <3>3. \A x \in Owners, n \in Names : buckets[x][n] # None => buckets'[x][n] # None
      BY <1>b, <3>1, NamesKept
    <3>4. Owned'
      <4>1. \A x \in Mods : phase'[x] \in Evaluating => x = m \/ x \in overlapped'
        BY <2>1, <3>2 DEF Overlaps, Open, Evaluating
      <4> QED
        BY <2>2, <3>2, <4>1 DEF Owned
    <3>5. Started'
      <4> SUFFICES ASSUME NEW x \in Mods, phase'[x] \in Evaluating
                   PROVE  Catalog[x].format = "module" /\ \A n \in Catalog[x].scripts[1] : buckets'[x][n] # None
        BY DEF Started
      <4>1. CASE x = m
        BY <1>b, <2>1, <3>1, <4>1, NamesOfEntry
      <4>2. CASE phase[x] \in Evaluating
        BY <1>b, <3>3, <4>2, NamesOfEntry DEF SpaceInv, Started
      <4> QED
        BY <3>2, <4>1, <4>2
    <3>6. BucketIsPrivate'
      BY <1>b, <2>1, <3>1, StaysPrivate DEF SpaceInv, NamespacesHold
    <3>7. EntryAtHome'
      BY <2>1, <2>2, <3>3, StaysHome DEF SpaceInv, NamespacesHold, Overlaps, LoadedWhole
    <3>8. Declaring'
      <4>1. \A x \in Mods : phase'[x] \in Evaluating => x \in evaluated'
        BY <2>2, <3>2 DEF Declaring
      <4>2. \A o \in Owners, n \in Names : buckets'[o][n] \in evaluated' \cup {Host, None}
        BY <2>2, <3>1 DEF Declaring, Writes
      <4> QED
        BY <2>1, <2>2, <4>1, <4>2 DEF Declaring
    <3> QED
      BY <2>1, <3>4, <3>5, <3>6, <3>7, <3>8 DEF SpaceInv, NamespacesHold, GateHolds
  <2>3. ASSUME NEW failure \in {"error", "propagates"}, owner' = Host, Conclude(m, failure), UNCHANGED <<buckets, evaluated>>,
               diagnostics' = IF failure = "error" THEN Diagnosed(m, "entry-failed") ELSE diagnostics
        PROVE  SpaceInv' /\ Declaring' /\ GateHolds'
    <3>1. diagnostics \subseteq diagnostics' /\ (failure = "error" => \E d \in diagnostics' : d.mod = m) /\ failure # "none"
      BY <2>3, Diagnoses
    <3>2. Writes(m, m) /\ \A x \in Owners, n \in Names : buckets'[x][n] \in {buckets[x][n]} \cup evaluated'
      BY <2>3 DEF Writes
    <3>3. declared \cup evaluated' \subseteq declared' /\ evaluated \subseteq evaluated'
      BY <2>1, <2>3 DEF Declaring
    <3> QED
      BY <2>1, <2>3, <3>1, <3>2, <3>3, LoadEnds
  <2> QED
    BY <1>4, <2>2, <2>3 DEF StartModule
<1>5. ASSUME NEW m \in Mods, DrainModule(m) PROVE SpaceInv' /\ Declaring' /\ GateHolds'
  <2>1. /\ phase[m] = "evaluating" /\ ran' = {}
        /\ UNCHANGED <<owner, buckets, declared, loadedMods, diagnostics, evaluated, overlapped>>
    BY <1>5 DEF DrainModule
  <2>2. \A x \in Mods : phase'[x] \in Evaluating <=> phase[x] \in Evaluating
    BY <1>5 DEF DrainModule, TypeOK, Evaluating
  <2>3. owner # Host => owner \in Mods
    BY <1>c DEF Owners
  <2> QED
    BY <2>1, <2>2, <2>3 DEF SpaceInv, Owned, Started, NamespacesHold, BucketIsPrivate, EntryAtHome,
                            LoadedWhole, EntryNames, After, Declaring, GateHolds
<1>6. ASSUME NEW m \in Mods, ResumeModule(m) PROVE SpaceInv' /\ Declaring' /\ GateHolds'
  <2>1. /\ phase[m] = "awaiting" /\ ran' = {} /\ overlapped' = Overlaps(m)
        /\ UNCHANGED <<owner, declared, loadedMods, diagnostics, evaluated>>
    BY <1>6 DEF ResumeModule
  <2>2. PICK names : buckets' = Register(buckets, owner, m, names)
    BY <1>6 DEF ResumeModule
  <2>3. Writes(owner, m)
    BY <1>b, <1>c, <2>2, Registers DEF Writes
  <2>4. \A x \in Mods : phase'[x] \in Evaluating <=> phase[x] \in Evaluating
    BY <1>6 DEF ResumeModule, Evaluating, TypeOK
  <2>5. m \in evaluated
    BY <2>1 DEF Declaring, Evaluating
  <2>6. \A x \in Owners, n \in Names : buckets[x][n] # None => buckets'[x][n] # None
    BY <1>b, <2>3, NamesKept
  <2>7. Owned'
    <3>1. owner # Host => owner \in Mods
      BY <1>c DEF Owners
    <3> QED
      BY <2>1, <2>4, <3>1 DEF SpaceInv, Owned, Overlaps
  <2>8. Started'
    <3> SUFFICES ASSUME NEW x \in Mods, phase'[x] \in Evaluating
                 PROVE  Catalog[x].format = "module" /\ \A n \in Catalog[x].scripts[1] : buckets'[x][n] # None
      BY DEF Started
    <3> QED
      BY <1>b, <2>4, <2>6, NamesOfEntry DEF SpaceInv, Started
  <2>9. BucketIsPrivate'
    BY <1>b, <2>1, <2>3, StaysPrivate DEF SpaceInv, NamespacesHold
  <2>10. EntryAtHome'
    BY <2>1, <2>6, StaysHome DEF SpaceInv, NamespacesHold, Overlaps, LoadedWhole
  <2>11. Declaring'
    <3>1. \A o \in Owners, n \in Names : buckets'[o][n] \in evaluated' \cup {Host, None}
      BY <2>1, <2>3, <2>5 DEF Declaring, Writes
    <3> QED
      BY <2>1, <2>4, <3>1 DEF Declaring
  <2> QED
    BY <2>1, <2>7, <2>8, <2>9, <2>10, <2>11 DEF SpaceInv, NamespacesHold, GateHolds
<1>7. ASSUME NEW m \in Mods, FinishModule(m) PROVE SpaceInv' /\ Declaring' /\ GateHolds'
  <2>1. PICK failure \in {"none", "error", "propagates"} :
           /\ buckets' = IF failure = "none" THEN Harvest(buckets, owner, m, Catalog[m].exports) ELSE buckets
           /\ diagnostics' = IF failure = "error" THEN Diagnosed(m, "entry-failed") ELSE diagnostics
           /\ Conclude(m, failure)
    BY <1>7 DEF FinishModule
  <2>2. /\ phase[m] \in Evaluating /\ owner' = Host /\ ran' = {} /\ overlapped' = Overlaps(m)
        /\ declared' = declared /\ evaluated' = evaluated
    BY <1>7 DEF FinishModule, Evaluating
  <2>3. Writes(owner, m) /\ (failure = "none" => \A n \in Names \cap Catalog[m].exports : buckets'[owner][n] # None)
    <3>1. CASE failure = "none"
      <4>1. buckets' = Harvest(buckets, owner, m, Catalog[m].exports)
        BY <2>1, <3>1
      <4> QED
        BY <1>b, <1>c, <4>1, Harvests DEF Writes
    <3>2. CASE failure # "none"
      BY <2>1, <3>2 DEF Writes
    <3> QED
      BY <3>1, <3>2
  <2>4. diagnostics \subseteq diagnostics' /\ (failure = "error" => \E d \in diagnostics' : d.mod = m)
    BY <2>1, Diagnoses
  <2>5. failure = "none" /\ m \notin overlapped' => \A n \in EntryNames(m) : buckets'[m][n] # None
    <3> SUFFICES ASSUME failure = "none", m \notin overlapped', NEW n \in EntryNames(m) PROVE buckets'[m][n] # None
      OBVIOUS
    <3>1. owner = m /\ Catalog[m].format = "module" /\ n \in Names
      BY <2>2, NamesOfEntry DEF SpaceInv, Owned, Started, Overlaps
    <3>2. CASE n \in Catalog[m].exports
      BY <2>3, <3>1, <3>2
    <3>3. CASE n \in Catalog[m].scripts[1]
      BY <1>b, <2>2, <2>3, <3>1, <3>3, NamesKept DEF SpaceInv, Started
    <3> QED
      BY <3>1, <3>2, <3>3 DEF EntryNames
  <2>6. m \in evaluated
    BY <2>2 DEF Declaring
  <2>7. declared \cup evaluated' \subseteq declared' /\ evaluated \subseteq evaluated'
    BY <2>2 DEF Declaring
  <2>8. \A x \in Owners, n \in Names : buckets'[x][n] \in {buckets[x][n]} \cup evaluated'
    BY <2>2, <2>3, <2>6 DEF Writes
  <2> QED
    BY <2>1, <2>2, <2>3, <2>4, <2>5, <2>7, <2>8, LoadEnds
<1>8. CASE LateRegister
  <2>1. PICK by \in evaluated \cup {Host}, n \in Names : buckets' = Register(buckets, owner, by, {n}) /\ overlapped' = Overlaps(by)
    BY <1>8 DEF LateRegister
  <2>2. /\ by \in Owners /\ ran' = {}
        /\ UNCHANGED <<phase, owner, declared, loadedMods, diagnostics, evaluated>>
    BY <1>8, <2>1 DEF LateRegister, Owners, TypeOK
  <2>3. Writes(owner, by)
    BY <1>c, <2>1, <2>2, Registers DEF Writes
  <2>4. \A x \in Owners, k \in Names : buckets[x][k] # None => buckets'[x][k] # None
    BY <2>2, <2>3, NamesKept
  <2>5. Owned'
    BY <2>1, <2>2 DEF SpaceInv, Owned, Overlaps
  <2>6. Started'
    <3> SUFFICES ASSUME NEW x \in Mods, phase[x] \in Evaluating
                 PROVE  Catalog[x].format = "module" /\ \A k \in Catalog[x].scripts[1] : buckets'[x][k] # None
      BY <2>2 DEF Started
    <3> QED
      BY <1>b, <2>4, NamesOfEntry DEF SpaceInv, Started
  <2>7. BucketIsPrivate'
    BY <2>1, <2>2, <2>3, StaysPrivate DEF SpaceInv, NamespacesHold
  <2>8. EntryAtHome'
    <3>1. CASE Mods = {}
      BY <3>1 DEF EntryAtHome
    <3>2. ASSUME NEW m \in Mods PROVE EntryAtHome'
      BY <2>1, <2>2, <2>4, StaysHome DEF SpaceInv, NamespacesHold, Overlaps, LoadedWhole
    <3> QED
      BY <3>1, <3>2
  <2>9. Declaring'
    BY <2>1, <2>2, <2>3 DEF Declaring, Writes
  <2> QED
    BY <2>2, <2>5, <2>6, <2>7, <2>8, <2>9 DEF SpaceInv, NamespacesHold, GateHolds
<1>9. ASSUME NEW n \in Names, InvokeExport(n) PROVE SpaceInv' /\ Declaring' /\ GateHolds'
  <2>1. PICK o \in GateExport(n) : ran' = Dispatch(n, o)
    BY <1>9 DEF InvokeExport
  <2>2. overlapped' = overlapped
    BY <1>9 DEF InvokeExport
  <2>3. GateHolds'
    BY <2>1, <2>2, NameGate DEF GateHolds, SpaceInv, NamespacesHold
  <2> QED
    BY <1>9, <2>3, SpaceSame DEF InvokeExport
<1>10. ASSUME NEW n \in Names, NEW m \in Mods, InvokeModExport(m, n)
       PROVE  SpaceInv' /\ Declaring' /\ GateHolds'
  <2>1. GateHolds'
    BY <1>10, OwnGate DEF InvokeModExport, GateHolds, SpaceInv, NamespacesHold
  <2> QED
    BY <1>10, <2>1, SpaceSame DEF InvokeModExport
<1>11. ASSUME NEW h \in Hooks, FireHook(h) PROVE SpaceInv' /\ Declaring' /\ GateHolds'
  <2>1. ran' = UNION {Dispatch(f.handler, f.mod) :
                      f \in {g \in Range(hookFills) : g.hook = h}
                            \ {g \in {g \in Range(hookFills) : g.hook = h} : Denied(g.mod, g.handler)}}
        /\ overlapped' = overlapped
    BY <1>11 DEF FireHook
  <2>2. GateHolds'
    <3> SUFFICES ASSUME NEW r \in ran', r.by \in Mods, r.name \in DOMAIN Catalog[r.by].declares
                 PROVE  \/ r.as # r.by /\ r.as \in overlapped'
                        \/ Catalog[r.by].declares[r.name] \in Granted \cup {None}
      BY DEF GateHolds
    <3>1. PICK f \in Range(hookFills) : ~Denied(f.mod, f.handler) /\ r \in Dispatch(f.handler, f.mod)
      BY <2>1
    <3>2. f.mod \in Mods /\ f.handler \in Names
      BY DEF Filled, HookFill
    <3> QED
      BY <2>1, <3>1, <3>2, OwnGate DEF SpaceInv, NamespacesHold
  <2> QED
    BY <1>11, <2>2, SpaceSame DEF FireHook
<1>12. CASE UNCHANGED vars
  BY <1>12, SpaceSame DEF vars, GateHolds
<1> QED
  BY <1>1, <1>2, <1>3, <1>4, <1>5, <1>6, <1>7, <1>8, <1>9, <1>10, <1>11, <1>12 DEF Next

(* A runtime that has loaded nothing. *)
LEMMA InitInv == Init => GateInv
<1> SUFFICES ASSUME Init PROVE GateInv
  OBVIOUS
<1>1. TypeOK
  <2>1. hookFills \in Seq(HookFill) /\ loadedMods \in Seq(Mods)
    BY DEF Init
  <2> QED
    BY <2>1, ModHostAssumption DEF Init, TypeOK, Owners, Phases
<1>2. Filled /\ AuditedOnce
  BY DEF Init, Filled, AuditedOnce, Range
<1>3. Owned /\ Started /\ Declaring /\ BucketIsPrivate /\ GateHolds
  BY DEF Init, Owned, Started, Declaring, BucketIsPrivate, GateHolds, Evaluating, Owners
<1>4. EntryAtHome
  BY DEF Init, EntryAtHome, LoadedWhole, Range
<1> QED
  BY <1>1, <1>2, <1>3, <1>4 DEF GateInv, AuditInv, SpaceInv, NamespacesHold

(* However loads overlap, the audit sink hears of a refused hook fill once, and only
   of a fill whose mod loaded: reportedHookFillDenials and hookFillRegistry agree. *)
THEOREM Audited == Spec => []AuditedOnce
<1>1. Init => AuditInv
  BY InitInv DEF GateInv
<1>2. AuditInv => AuditedOnce
  BY DEF AuditInv
<1> QED
  BY <1>1, <1>2, AuditStep, PTL DEF Spec

(* For every catalog and every host, a mod whose entry no other registration or load
   overlapped has its own functions in its export namespace, all of them and no others:
   exportOwner names a mod only while that mod's entry is open. *)
THEOREM Private == Spec => []NamespacesHold
<1>1. GateInv => NamespacesHold
  BY DEF GateInv, SpaceInv
<1> QED
  BY <1>1, InitInv, GateStep, PTL DEF Spec

(* For every catalog and every host, no operation runs a function whose own mod declared
   a capability for it that was not granted, by name, by command or by hook fill, what
   failed loads left behind included, unless an overlapped entry took it into another
   mod's namespace; and each refused fill is audited once. *)
THEOREM Gated == Spec => []CapabilitiesHold
<1>1. GateInv => CapabilitiesHold
  BY DEF GateInv, AuditInv, CapabilitiesHold
<1> QED
  BY <1>1, InitInv, GateStep, PTL DEF Spec
=============================================================================
