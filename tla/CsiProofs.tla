------------------------------ MODULE CsiProofs ------------------------------
(***************************************************************************)
(* The two services of the CSI driver, each for every value of its         *)
(* constants: first the controller, then, from the second banner on, the   *)
(* node.                                                                   *)
(***************************************************************************)
EXTENDS CsiController, CsiNode, SequenceTheorems, TLAPS

(***************************************************************************)
(* The controller.                                                         *)
(*                                                                         *)
(* For every set of claims, their names, and every number of calls at a    *)
(* time: claims share no volume unless the driver cannot tell their names  *)
(* apart, and a bound claim keeps the one volume of its name.              *)
(*                                                                         *)
(* A deletion that ends late is harmless because ids are never used again: *)
(* while its tenant is there, the claim is still the released one it was   *)
(* called for. This, and the one name a tenant id has ever had for anyone  *)
(* who holds it, are what the properties need to be inductive.             *)
(***************************************************************************)

Labels == {"idle", "lookup", "insert", "base", "answer", "delete", "deleted",
           "snapget", "snapcreate"}
ClaimStates == {"none", "wanted", "bound", "released"}

ControllerTypes ==
    /\ params \in Requests
    /\ tname \in [TenantIds -> Seq(Words)]
    /\ nextTenant \in Nat \ {0}
    /\ base \in [TenantIds -> {"none", "there"}]
    /\ current \in [TenantIds -> BOOLEAN]
    /\ snap \in [TenantIds -> BOOLEAN]
    /\ pc \in [Workers -> Labels]
    /\ for \in [Workers -> Claims \cup {None}]
    /\ vol \in [Workers -> TenantIds \cup {NoTenant}]
    /\ claim \in [Claims -> ClaimStates]
    /\ bound \in [Claims -> TenantIds \cup {NoTenant}]
    /\ waiting \in [Claims -> Workers \cup {None}]
    /\ round \in Nat
    /\ faults \in Nat

\* No other claim can be taken for this one.
Clear(c) == \A d \in Claims \ {c} : ~Ambiguous(c, d)

\* Whoever holds the id, the row of the table, a claim or a call, means one name.
OneName(t) ==
    \E n \in Seq(Words) :
        /\ t \in Live => tname[t] = n
        /\ \A c \in Claims : bound[c] = t => TenantName(c) = n
        /\ \A w \in Workers : vol[w] = t => for[w] \in Claims /\ TenantName(for[w]) = n

\* The ids still to be given have no row.
TenantOK(t) ==
    /\ t >= nextTenant => t \notin Live
    /\ OneName(t)

NamesUnique == \A t, u \in Live : tname[t] = tname[u] => t = u

\* While the tenant of a deletion is there, its claim is still released.
WorkerOK(w) ==
    /\ pc[w] = "idle" <=> for[w] = None
    /\ vol[w] < nextTenant
    /\ pc[w] = "deleted" => vol[w] \notin Live
    /\ pc[w] = "delete" /\ vol[w] \in Live /\ Clear(for[w]) =>
          claim[for[w]] = "released" /\ bound[for[w]] = vol[w]

\* The call a claim waits for is one for it, and for what the claim is about.
WaitsRight(c) ==
    waiting[c] # None =>
        /\ for[waiting[c]] = c
        /\ \/ claim[c] = "wanted" /\ pc[waiting[c]] \in {"lookup", "insert", "base", "answer"}
           \/ claim[c] = "bound" /\ pc[waiting[c]] \in {"snapget", "snapcreate", "answer"}
           \/ /\ claim[c] = "released" /\ pc[waiting[c]] \in {"delete", "deleted"}
              /\ vol[waiting[c]] = bound[c]

\* The volume of a clear claim is there, and the one it is about to be told too.
ClaimOK(c) ==
    /\ bound[c] < nextTenant
    /\ bound[c] = NoTenant <=> claim[c] \in {"none", "wanted"}
    /\ WaitsRight(c)
    /\ Clear(c) /\ claim[c] = "bound" => bound[c] \in Live
    /\ /\ Clear(c) /\ claim[c] = "wanted" /\ waiting[c] # None
       /\ pc[waiting[c]] = "answer" /\ vol[waiting[c]] # NoTenant
       => vol[waiting[c]] \in Live

ControllerInv ==
    /\ ControllerTypes
    /\ NamesUnique
    /\ \A t \in TenantIds : TenantOK(t)
    /\ \A w \in Workers : WorkerOK(w)
    /\ \A c \in Claims : ClaimOK(c)
-----------------------------------------------------------------------------
(* Names                                                                   *)

LEMMA OneWord ==
    ASSUME NEW S, NEW x \in S
    PROVE  <<x>> \in Seq(S) /\ Len(<<x>>) = 1 /\ <<x>>[1] = x
  OBVIOUS

LEMMA NameFacts ==
    ASSUME NEW info \in PvcNames
    PROVE  /\ FormatTenantName(info) \in Seq(Words)
           /\ Len(FormatTenantName(info)) = Len(info.ns) + 1 + Len(info.pvc)
           /\ Len(info.ns) \in Nat /\ Len(info.pvc) \in Nat
           /\ \A i \in 1..Len(info.ns) : FormatTenantName(info)[i] = info.ns[i]
           /\ FormatTenantName(info)[Len(info.ns) + 1] = ""
           /\ \A i \in 1..Len(info.pvc) :
                 FormatTenantName(info)[Len(info.ns) + 1 + i] = info.pvc[i]
  <1>1. PICK n \in Seq(Words) : n = info.ns
    BY DEF PvcNames
  <1>2. PICK p \in Seq(Words) : p = info.pvc
    BY DEF PvcNames
  <1>3. PICK e \in Seq(Words) : e = <<"">> /\ Len(e) = 1 /\ e[1] = ""
    <2>1. "" \in Words
      BY ControllerAssumption
    <2> QED
      BY <2>1, OneWord
  <1>4. PICK l \in Nat : l = Len(n)
    BY LenProperties
  <1>5. PICK k \in Nat : k = Len(p)
    BY LenProperties
  <1>6. PICK m : m = n \o e
    OBVIOUS
  <1>7. /\ n \o e \in Seq(Words) /\ Len(n \o e) = Len(n) + Len(e)
        /\ \A i \in 1..Len(n) + Len(e) : (n \o e)[i] = IF i <= Len(n) THEN n[i] ELSE e[i - Len(n)]
    BY ConcatProperties
  <1>8. /\ m \in Seq(Words) /\ Len(m) = l + 1
        /\ \A i \in 1..l : m[i] = n[i]
        /\ m[l + 1] = ""
    <2>1. /\ m \in Seq(Words) /\ Len(m) = l + 1
          /\ \A i \in 1..(l + 1) : m[i] = IF i <= l THEN n[i] ELSE e[i - l]
      BY <1>3, <1>4, <1>6, <1>7, Zenon
    <2>2. l + 1 \in 1..(l + 1) /\ ~(l + 1 <= l) /\ l + 1 - l = 1
      OBVIOUS
    <2>3. m[l + 1] = ""
      <3>1. PICK j \in 1..(l + 1) : j = l + 1 /\ ~(j <= l) /\ j - l = 1
        BY <2>2
      <3>2. m[j] = e[j - l]
        BY <2>1, <3>1, Zenon
      <3> QED
        BY <1>3, <3>1, <3>2
    <2>4. ASSUME NEW i \in 1..l
          PROVE  m[i] = n[i]
      <3>1. i \in 1..(l + 1) /\ i <= l
        OBVIOUS
      <3> QED
        BY <2>1, <3>1, Zenon
    <2> QED
      BY <2>1, <2>3, <2>4
  <1>9. PICK r : r = m \o p
    OBVIOUS
  <1>10. /\ m \o p \in Seq(Words) /\ Len(m \o p) = Len(m) + Len(p)
         /\ \A i \in 1..Len(m) + Len(p) : (m \o p)[i] = IF i <= Len(m) THEN m[i] ELSE p[i - Len(m)]
    BY <1>8, ConcatProperties
  <1>11. /\ r \in Seq(Words) /\ Len(r) = l + 1 + k
         /\ \A i \in 1..(l + 1 + k) : r[i] = IF i <= l + 1 THEN m[i] ELSE p[i - (l + 1)]
    BY <1>5, <1>8, <1>9, <1>10
  <1>12. /\ \A i \in 1..l : r[i] = n[i]
         /\ r[l + 1] = ""
         /\ \A i \in 1..k : r[l + 1 + i] = p[i]
    <2>1. ASSUME NEW i \in 1..(l + 1)
          PROVE  r[i] = m[i]
      <3>1. i \in 1..(l + 1 + k) /\ i <= l + 1
        OBVIOUS
      <3> QED
        BY <1>11, <3>1, Zenon
    <2>2. ASSUME NEW i \in 1..k
          PROVE  r[l + 1 + i] = p[i]
      <3>1. l + 1 + i \in 1..(l + 1 + k) /\ ~(l + 1 + i <= l + 1) /\ l + 1 + i - (l + 1) = i
        OBVIOUS
      <3> QED
        <4>1. PICK j \in 1..(l + 1 + k) : j = l + 1 + i /\ ~(j <= l + 1) /\ j - (l + 1) = i
          BY <3>1
        <4>2. r[j] = p[j - (l + 1)]
          BY <1>11, <4>1, Zenon
        <4> QED
          BY <4>1, <4>2
    <2>3. l + 1 \in 1..(l + 1) /\ \A i \in 1..l : i \in 1..(l + 1)
      OBVIOUS
    <2> QED
      BY <1>8, <2>1, <2>2, <2>3, Zenon
  <1>13. FormatTenantName(info) = r
    BY <1>1, <1>2, <1>3, <1>6, <1>9, Zenon DEF FormatTenantName
  <1> QED
    BY <1>1, <1>2, <1>4, <1>5, <1>11, <1>12, <1>13

\* The name ends the namespace at its first separator, unless the namespace has
\* one of its own: format_tenant_name can then be read back in one way.
LEMMA NameDetermines ==
    ASSUME NEW a \in PvcNames, NEW b \in PvcNames,
           ~HasSeparator(a.ns), ~HasSeparator(b.ns),
           FormatTenantName(a) = FormatTenantName(b)
    PROVE  a = b
  <1>1. /\ a.ns \in Seq(Words) /\ b.ns \in Seq(Words)
        /\ a.pvc \in Seq(Words) /\ b.pvc \in Seq(Words)
        /\ a = [ns |-> a.ns, pvc |-> a.pvc] /\ b = [ns |-> b.ns, pvc |-> b.pvc]
    BY DEF PvcNames
  <1>2. ASSUME NEW x \in PvcNames, NEW i \in 1..Len(x.ns), ~HasSeparator(x.ns)
        PROVE  x.ns[i] # ""
    <2>1. x.ns \in Seq(Words) /\ DOMAIN x.ns = 1..Len(x.ns)
      BY LenProperties DEF PvcNames
    <2> QED
      BY <1>2, <2>1 DEF HasSeparator, Range
  <1>3. ASSUME NEW x \in PvcNames, NEW y \in PvcNames, ~HasSeparator(y.ns),
               FormatTenantName(x) = FormatTenantName(y)
        PROVE  ~(Len(x.ns) < Len(y.ns))
    <2> SUFFICES ASSUME Len(x.ns) < Len(y.ns) PROVE FALSE
      OBVIOUS
    <2>1. Len(x.ns) + 1 \in 1..Len(y.ns)
      <3>1. Len(x.ns) \in Nat /\ Len(y.ns) \in Nat
        BY NameFacts
      <3> QED
        BY <3>1
    <2>2. FormatTenantName(x)[Len(x.ns) + 1] = ""
      BY NameFacts
    <2>3. FormatTenantName(y)[Len(x.ns) + 1] = y.ns[Len(x.ns) + 1]
      BY <2>1, NameFacts
    <2> QED
      BY <1>2, <1>3, <2>1, <2>2, <2>3
  <1>4. /\ Len(a.ns) \in Nat /\ Len(b.ns) \in Nat /\ Len(a.pvc) \in Nat /\ Len(b.pvc) \in Nat
        /\ Len(a.ns) + 1 + Len(a.pvc) = Len(b.ns) + 1 + Len(b.pvc)
    BY NameFacts
  <1>5. Len(a.ns) = Len(b.ns) /\ Len(a.pvc) = Len(b.pvc)
    <2>1. ~(Len(a.ns) < Len(b.ns)) /\ ~(Len(b.ns) < Len(a.ns))
      BY <1>3
    <2>2. PICK i \in Nat, j \in Nat, k \in Nat, l \in Nat :
             i = Len(a.ns) /\ j = Len(b.ns) /\ k = Len(a.pvc) /\ l = Len(b.pvc)
      BY <1>4
    <2>3. i + 1 + k = j + 1 + l /\ ~(i < j) /\ ~(j < i)
      BY <1>4, <2>1, <2>2, Zenon
    <2>4. i = j /\ k = l
      BY <2>3
    <2> QED
      BY <2>2, <2>4
  <1>6. \A i \in 1..Len(a.ns) : a.ns[i] = b.ns[i]
    <2>1. \A i \in 1..Len(a.ns) : FormatTenantName(a)[i] = a.ns[i]
      BY NameFacts
    <2>2. \A i \in 1..Len(b.ns) : FormatTenantName(b)[i] = b.ns[i]
      BY NameFacts
    <2> QED
      BY <1>5, <2>1, <2>2, Zenon
  <1>7. \A i \in 1..Len(a.pvc) : a.pvc[i] = b.pvc[i]
    <2>1. \A i \in 1..Len(a.pvc) : FormatTenantName(a)[Len(a.ns) + 1 + i] = a.pvc[i]
      BY NameFacts
    <2>2. \A i \in 1..Len(b.pvc) : FormatTenantName(b)[Len(b.ns) + 1 + i] = b.pvc[i]
      BY NameFacts
    <2> QED
      BY <1>5, <2>1, <2>2, Zenon
  <1>8. a.ns = b.ns
    BY <1>1, <1>5, <1>6, SeqEqual
  <1>9. a.pvc = b.pvc
    BY <1>1, <1>5, <1>7, SeqEqual
  <1> QED
    BY <1>1, <1>8, <1>9

LEMMA TenantNames ==
    ASSUME ControllerTypes, NEW c \in Claims
    PROVE  /\ PvcInfo(params[c]) \in PvcNames
           /\ TenantName(c) \in Seq(Words) /\ TenantName(c) # <<>>
  <1>1. params[c] \in PvcParams
    <2>1. Requests \subseteq [Claims -> PvcParams] /\ params \in Requests
      BY ControllerAssumption DEF ControllerTypes
    <2>2. params \in [Claims -> PvcParams]
      BY <2>1, Zenon
    <2> QED
      BY <2>2
  <1>2. <<"default">> \in Seq(Words) /\ <<"unknown">> \in Seq(Words)
    <2>1. "default" \in Words /\ "unknown" \in Words
      BY ControllerAssumption
    <2> QED
      BY <2>1, OneWord
  <1>3. PICK info \in PvcNames : info = PvcInfo(params[c])
    <2>1. PICK n, p : /\ n = IF params[c].ns = None THEN <<"default">> ELSE params[c].ns
                      /\ p = IF params[c].pvc = None THEN <<"unknown">> ELSE params[c].pvc
      OBVIOUS
    <2>2. n \in Seq(Words) /\ p \in Seq(Words)
      BY <1>1, <1>2, <2>1 DEF PvcParams
    <2>3. PvcInfo(params[c]) = [ns |-> n, pvc |-> p]
      BY <2>1, Zenon DEF PvcInfo
    <2> QED
      BY <2>2, <2>3 DEF PvcNames
  <1>4. TenantName(c) = FormatTenantName(info)
    BY <1>3 DEF TenantName
  <1>5. Len(FormatTenantName(info)) # 0 /\ FormatTenantName(info) \in Seq(Words)
    <2>1. /\ Len(FormatTenantName(info)) = Len(info.ns) + 1 + Len(info.pvc)
          /\ Len(info.ns) \in Nat /\ Len(info.pvc) \in Nat
          /\ FormatTenantName(info) \in Seq(Words)
      BY NameFacts
    <2>2. PICK i \in Nat, k \in Nat : i = Len(info.ns) /\ k = Len(info.pvc)
      BY <2>1
    <2>3. i + 1 + k # 0
      OBVIOUS
    <2> QED
      BY <2>1, <2>2, <2>3, Zenon
  <1> QED
    BY <1>3, <1>4, <1>5, EmptySeq

LEMMA SameNameSameClaim ==
    ASSUME ControllerTypes, NEW c \in Claims, NEW d \in Claims,
           TenantName(c) = TenantName(d), c # d
    PROVE  Ambiguous(c, d)
  <1> SUFFICES ASSUME ~Unnamed(params[c]), ~Unnamed(params[d]),
                      ~HasSeparator(PvcInfo(params[c]).ns), ~HasSeparator(PvcInfo(params[d]).ns)
               PROVE  FALSE
    BY DEF Ambiguous
  <1>1. PvcInfo(params[c]) = params[c] /\ PvcInfo(params[d]) = params[d]
    <2>1. ASSUME NEW p \in PvcParams, ~Unnamed(p) PROVE PvcInfo(p) = p
      BY <2>1 DEF PvcInfo, Unnamed, PvcParams
    <2>2. params \in [Claims -> PvcParams]
      BY ControllerAssumption, Zenon DEF ControllerTypes
    <2> QED
      BY <2>1, <2>2
  <1>2. params[c] \in PvcNames /\ params[d] \in PvcNames
    BY <1>1, TenantNames
  <1>3. FormatTenantName(params[c]) = FormatTenantName(params[d])
    BY <1>1 DEF TenantName
  <1>4. params[c] = params[d]
    BY <1>1, <1>2, <1>3, NameDetermines
  <1> QED
    BY <1>4, ControllerAssumption DEF ControllerTypes

\* The claims keep their names.
LEMMA NamesKept ==
    ASSUME UNCHANGED params
    PROVE  \A c : TenantName(c)' = TenantName(c) /\ (Clear(c)' <=> Clear(c))
  BY DEF TenantName, Clear, Ambiguous
\* Whoever comes to hold an id takes it from someone who means the same name.
LEMMA OneNameKept ==
    ASSUME UNCHANGED params, NEW t \in TenantIds, OneName(t),
           t \in Live' => t \in Live /\ tname'[t] = tname[t],
           \A c \in Claims : bound'[c] = t =>
              bound[c] = t \/ \E w \in Workers : vol[w] = t /\ for[w] = c,
           \A w \in Workers : vol'[w] = t =>
              \/ vol[w] = t /\ for'[w] = for[w]
              \/ for'[w] \in Claims /\ bound[for'[w]] = t
              \/ for'[w] \in Claims /\ t \in Live /\ tname[t] = TenantName(for'[w])
    PROVE  OneName(t)'
  <1>1. PICK n \in Seq(Words) :
           /\ t \in Live => tname[t] = n
           /\ \A c \in Claims : bound[c] = t => TenantName(c) = n
           /\ \A w \in Workers : vol[w] = t => for[w] \in Claims /\ TenantName(for[w]) = n
    BY DEF OneName
  <1>2. \A c : TenantName(c)' = TenantName(c)
    BY NamesKept
  <1>3. t \in Live' => tname'[t] = n
    BY <1>1
  <1>4. \A c \in Claims : bound'[c] = t => TenantName(c)' = n
    BY <1>1, <1>2
  <1>5. ASSUME NEW w \in Workers, vol'[w] = t
        PROVE  for'[w] \in Claims /\ TenantName(for[w])' = n
    <2>1. for'[w] \in Claims /\ TenantName(for'[w]) = n
      BY <1>1, <1>5
    <2>2. TenantName(for[w])' = TenantName(for'[w])
      BY DEF TenantName
    <2> QED
      BY <2>1, <2>2
  <1> QED
    BY <1>3, <1>4, <1>5 DEF OneName

LEMMA IdsAreNumbers ==
    /\ TenantIds \subseteq Int /\ NoTenant \in Int /\ NoTenant \notin TenantIds
    /\ \A t \in TenantIds : t > 0
  <1>1. MaxTenants \in Nat
    BY ControllerAssumption, Zenon
  <1> QED
    BY <1>1 DEF TenantIds, NoTenant

LEMMA TenantsKept ==
    ASSUME ControllerInv, UNCHANGED <<params, tables>>, \A t \in TenantIds : OneName(t)'
    PROVE  NamesUnique' /\ \A t \in TenantIds : TenantOK(t)'
  <1>1. UNCHANGED <<tname, nextTenant, base, current, snap>> /\ Live' = Live
    BY DEF tables, Live
  <1>2. NamesUnique'
    BY <1>1 DEF ControllerInv, NamesUnique
  <1>3. ASSUME NEW t \in TenantIds
        PROVE  TenantOK(t)'
    <2>1. TenantOK(t) /\ OneName(t)'
      BY DEF ControllerInv
    <2> QED
      BY <1>1, <2>1 DEF TenantOK
  <1> QED
    BY <1>2, <1>3

\* The holder of an id that is there means the name in the table.
LEMMA HeldName ==
    ASSUME ControllerInv, NEW t \in Live
    PROVE  /\ \A c \in Claims : bound[c] = t => TenantName(c) = tname[t]
           /\ \A w \in Workers : vol[w] = t => for[w] \in Claims /\ TenantName(for[w]) = tname[t]
  <1>1. t \in TenantIds /\ OneName(t)
    BY DEF ControllerInv, TenantOK, Live
  <1> QED
    BY <1>1 DEF OneName

-----------------------------------------------------------------------------
(* The driver's statements                                                 *)

LEMMA GotoFacts ==
    ASSUME ControllerTypes, NEW w \in Workers, NEW label \in Labels,
           NEW t \in TenantIds \cup {NoTenant}, Goto(w, label, t)
    PROVE  /\ pc' \in [Workers -> Labels] /\ vol' \in [Workers -> TenantIds \cup {NoTenant}]
           /\ for' = for /\ pc'[w] = label /\ vol'[w] = t
           /\ \A x \in Workers \ {w} : pc'[x] = pc[x] /\ vol'[x] = vol[x]
  BY DEF Goto, ControllerTypes

\* What one statement of a call does to the tenants, seen from the outside.
Statement(w) ==
    /\ UNCHANGED <<params, co, for, faults>>
    /\ \A x \in Workers \ {w} : pc'[x] = pc[x] /\ vol'[x] = vol[x]
    /\ nextTenant' >= nextTenant
    /\ \A t \in Live' : t < nextTenant =>
          t \in Live /\ tname'[t] = tname[t]

LEMMA StatementKeepsWorkers ==
    ASSUME ControllerInv, NEW w \in Workers, Statement(w), ControllerTypes', WorkerOK(w)'
    PROVE  \A x \in Workers : WorkerOK(x)'
  <1> SUFFICES ASSUME NEW x \in Workers \ {w}
               PROVE  WorkerOK(x)'
    OBVIOUS
  <1>1. WorkerOK(x) /\ vol[x] \in TenantIds \cup {NoTenant}
    BY DEF ControllerInv, ControllerTypes
  <1>2. /\ pc'[x] = pc[x] /\ vol'[x] = vol[x] /\ for'[x] = for[x]
        /\ claim' = claim /\ bound' = bound /\ (Clear(for[x])' <=> Clear(for'[x]))
    BY DEF Statement, co, Clear, Ambiguous, TenantName
  <1>3. vol[x] \in Int /\ nextTenant \in Int /\ nextTenant' \in Int
    <2>1. nextTenant \in Nat \ {0} /\ nextTenant' \in Nat \ {0}
      BY Zenon DEF ControllerInv, ControllerTypes
    <2>2. vol[x] \in Int
      BY <1>1, IdsAreNumbers, Zenon
    <2>3. nextTenant \in Int /\ nextTenant' \in Int
      BY <2>1
    <2> QED
      BY <2>2, <2>3
  <1>4. vol[x] < nextTenant /\ vol'[x] < nextTenant'
    BY <1>1, <1>2, <1>3 DEF WorkerOK, Statement
  <1>5. vol[x] \in Live' => vol[x] \in Live
    BY <1>4 DEF Statement
  <1> QED
    BY <1>1, <1>2, <1>4, <1>5 DEF WorkerOK

LEMMA StatementKeepsClaims ==
    ASSUME ControllerInv, NEW w \in Workers, Statement(w), ControllerTypes',
           \/ pc[w] \in {"lookup", "insert", "base"} /\ pc'[w] \in {"insert", "base", "answer"}
           \/ pc[w] \in {"snapget", "snapcreate"} /\ pc'[w] \in {"snapcreate", "answer"}
           \/ pc[w] = "delete" /\ pc'[w] = "deleted" /\ vol'[w] = vol[w],
           pc'[w] = "answer" /\ vol'[w] # NoTenant => vol'[w] \in Live',
           \A c \in Claims : Clear(c) /\ claim[c] # "released" =>
              \A t \in Live : tname[t] = TenantName(c) => t \in Live'
    PROVE  \A c \in Claims : ClaimOK(c)'
  <1> SUFFICES ASSUME NEW c \in Claims
               PROVE  ClaimOK(c)'
    OBVIOUS
  <1>1. ClaimOK(c) /\ WaitsRight(c)
    BY DEF ControllerInv, ClaimOK
  <1>2. /\ claim' = claim /\ bound' = bound /\ waiting' = waiting /\ for' = for
        /\ (Clear(c)' <=> Clear(c))
    BY NamesKept DEF Statement, co
  <1>3. bound'[c] < nextTenant'
    <2>1. bound[c] \in Int /\ nextTenant \in Int /\ nextTenant' \in Int
      <3>1. nextTenant \in Nat \ {0} /\ nextTenant' \in Nat \ {0}
        BY Zenon DEF ControllerInv, ControllerTypes
      <3>2. bound[c] \in TenantIds \cup {NoTenant}
        BY DEF ControllerInv, ControllerTypes
      <3>3. bound[c] \in Int
        BY <3>2, IdsAreNumbers, Zenon
      <3>4. nextTenant \in Int /\ nextTenant' \in Int
        BY <3>1
      <3> QED
        BY <3>3, <3>4
    <2> QED
      BY <1>1, <1>2, <2>1 DEF ClaimOK, Statement
  <1>4. waiting[c] \in Workers \cup {None}
    BY DEF ControllerInv, ControllerTypes
  <1>5. WaitsRight(c)'
    BY <1>1, <1>2, <1>4 DEF WaitsRight, Statement
  <1>6. ASSUME Clear(c), claim[c] = "bound"
        PROVE  bound[c] \in Live'
    <2>1. bound[c] \in Live
      BY <1>1, <1>6 DEF ClaimOK
    <2>2. tname[bound[c]] = TenantName(c)
      BY <2>1, HeldName
    <2> QED
      BY <1>6, <2>1, <2>2
  <1>7. ASSUME Clear(c), claim[c] = "wanted", waiting[c] # None,
               pc'[waiting[c]] = "answer", vol'[waiting[c]] # NoTenant
        PROVE  vol'[waiting[c]] \in Live'
    <2>1. CASE waiting[c] = w
      BY <1>7, <2>1
    <2>2. CASE waiting[c] # w
      <3>1. PICK x \in Workers : x = waiting[c] /\ x # w
        BY <1>4, <1>7, <2>2
      <3>2. pc[x] = "answer" /\ vol[x] # NoTenant /\ vol'[x] = vol[x] /\ for[x] = c
        BY <1>1, <1>7, <3>1 DEF Statement, WaitsRight
      <3>3. vol[x] \in Live
        BY <1>1, <1>7, <3>1, <3>2 DEF ClaimOK
      <3>4. tname[vol[x]] = TenantName(c)
        BY <3>2, <3>3, HeldName
      <3> QED
        BY <1>7, <3>1, <3>2, <3>3, <3>4
    <2> QED
      BY <2>1, <2>2
  <1> QED
    BY <1>1, <1>2, <1>3, <1>5, <1>6, <1>7 DEF ClaimOK
\* A call that is answered with an error.
LEMMA FailKeeps ==
    ASSUME ControllerInv, NEW w \in Workers, UNCHANGED <<params, tables, co, faults>>,
           pc[w] \in {"lookup", "insert", "base", "snapget", "snapcreate"},
           Goto(w, "answer", NoTenant)
    PROVE  ControllerInv'
  <1>1. ControllerTypes /\ WorkerOK(w)
    BY DEF ControllerInv
  <1>2. /\ pc' \in [Workers -> Labels] /\ vol' \in [Workers -> TenantIds \cup {NoTenant}]
        /\ for' = for /\ pc'[w] = "answer" /\ vol'[w] = NoTenant
        /\ \A x \in Workers \ {w} : pc'[x] = pc[x] /\ vol'[x] = vol[x]
    <2>1. "answer" \in Labels /\ NoTenant \in TenantIds \cup {NoTenant}
      BY DEF Labels
    <2> QED
      BY <1>1, <2>1, GotoFacts
  <1>3. Live' = Live /\ nextTenant \in Int
    BY <1>1 DEF Live, tables, ControllerTypes
  <1>4. ControllerTypes'
    BY <1>1, <1>2 DEF ControllerTypes, tables, co
  <1>5. Statement(w)
    BY <1>2, <1>3 DEF Statement, tables, co
  <1>6. ASSUME NEW x \in TenantIds
        PROVE  OneName(x)'
    <2>1. OneName(x) /\ bound' = bound /\ tname' = tname /\ params' = params
      BY DEF ControllerInv, TenantOK, co, tables
    <2>2. \A y \in Workers : vol'[y] = x => vol[y] = x /\ for'[y] = for[y]
      BY <1>2, IdsAreNumbers
    <2> QED
      BY <1>3, <2>1, <2>2, OneNameKept
  <1>7. NamesUnique' /\ \A x \in TenantIds : TenantOK(x)'
    BY <1>6, TenantsKept
  <1>8. WorkerOK(w)'
    <2>1. nextTenant' \in Nat \ {0} /\ NoTenant < nextTenant'
      BY <1>4 DEF ControllerTypes, NoTenant
    <2>2. for[w] # None
      BY <1>1 DEF WorkerOK
    <2> QED
      BY <1>2, <2>1, <2>2 DEF WorkerOK
  <1>9. \A x \in Workers : WorkerOK(x)'
    BY <1>4, <1>5, <1>8, StatementKeepsWorkers
  <1>10. \A c \in Claims : ClaimOK(c)'
    BY <1>2, <1>3, <1>4, <1>5, StatementKeepsClaims
  <1> QED
    BY <1>4, <1>7, <1>9, <1>10 DEF ControllerInv

LEMMA LookupKeeps ==
    ASSUME ControllerInv, NEW w \in Workers, LookupTenant(w)
    PROVE  ControllerInv'
  <1>1. /\ ControllerTypes /\ WorkerOK(w) /\ pc[w] = "lookup"
        /\ UNCHANGED <<params, tables, co, faults>>
    BY DEF ControllerInv, LookupTenant
  <1>2. for[w] \in Claims
    BY <1>1 DEF WorkerOK, ControllerTypes
  <1>3. PICK label \in {"insert", "answer"}, t \in TenantIds \cup {NoTenant} :
           /\ Goto(w, label, t)
           /\ t # NoTenant => t \in Live /\ tname[t] = TenantName(for[w])
    BY DEF LookupTenant, Ok, NamedTenants, Live
  <1>4. /\ pc' \in [Workers -> Labels] /\ vol' \in [Workers -> TenantIds \cup {NoTenant}]
        /\ for' = for /\ pc'[w] = label /\ vol'[w] = t
        /\ \A x \in Workers \ {w} : pc'[x] = pc[x] /\ vol'[x] = vol[x]
    <2>1. label \in Labels
      BY DEF Labels
    <2> QED
      BY <1>1, <1>3, <2>1, GotoFacts
  <1>5. Live' = Live /\ nextTenant \in Int
    BY <1>1 DEF Live, tables, ControllerTypes
  <1>6. ControllerTypes'
    BY <1>1, <1>4 DEF ControllerTypes, tables, co
  <1>7. Statement(w)
    BY <1>1, <1>4, <1>5 DEF Statement, tables, co
  <1>8. \A x \in TenantIds : OneName(x)'
    <2> SUFFICES ASSUME NEW x \in TenantIds
                 PROVE  OneName(x)'
      OBVIOUS
    <2>1. OneName(x) /\ bound' = bound /\ tname' = tname /\ params' = params
      BY <1>1 DEF ControllerInv, TenantOK, co, tables
    <2>2. \A y \in Workers : vol'[y] = x => \/ vol[y] = x /\ for'[y] = for[y]
                                            \/ for'[y] \in Claims /\ x \in Live /\ tname[x] = TenantName(for'[y])
      BY <1>2, <1>3, <1>4, IdsAreNumbers
    <2> QED
      BY <1>5, <2>1, <2>2, OneNameKept
  <1>9. NamesUnique' /\ \A x \in TenantIds : TenantOK(x)'
    BY <1>1, <1>8, TenantsKept
  <1>10. WorkerOK(w)'
    <2>1. t < nextTenant
      <3>1. CASE t = NoTenant
        BY <3>1, <1>1 DEF NoTenant, ControllerTypes
      <3>2. CASE t # NoTenant
        <4>1. t \in TenantIds /\ t \in Live /\ ~(t >= nextTenant) /\ t \in Int
          BY <1>3, <3>2, IdsAreNumbers DEF ControllerInv, TenantOK
        <4> QED
          BY <1>5, <4>1
      <3> QED
        BY <3>1, <3>2
    <2> QED
      BY <1>1, <1>2, <1>4, <2>1, ControllerAssumption DEF WorkerOK, tables
  <1>11. \A x \in Workers : WorkerOK(x)'
    BY <1>6, <1>7, <1>10, StatementKeepsWorkers
  <1>12. \A c \in Claims : ClaimOK(c)'
    BY <1>1, <1>3, <1>4, <1>5, <1>6, <1>7, StatementKeepsClaims
  <1> QED
    BY <1>6, <1>9, <1>11, <1>12 DEF ControllerInv

LEMMA InsertTenantKeeps ==
    ASSUME ControllerInv, NEW w \in Workers, InsertTenant(w)
    PROVE  ControllerInv'
  <1>1. /\ ControllerTypes /\ WorkerOK(w) /\ pc[w] = "insert" /\ nextTenant \in TenantIds
        /\ UNCHANGED <<params, base, current, snap, co, faults>>
    BY DEF ControllerInv, InsertTenant
  <1>2. for[w] \in Claims /\ nextTenant \in Int
    BY <1>1 DEF WorkerOK, ControllerTypes
  <1>3. CASE NamedTenants(TenantName(for[w])) = {}
    <2>1. /\ tname' = [tname EXCEPT ![nextTenant] = TenantName(for[w])]
          /\ nextTenant' = nextTenant + 1
          /\ Goto(w, "base", nextTenant)
      BY <1>3 DEF InsertTenant
    <2>2. /\ pc' \in [Workers -> Labels] /\ vol' \in [Workers -> TenantIds \cup {NoTenant}]
          /\ for' = for /\ pc'[w] = "base" /\ vol'[w] = nextTenant
          /\ \A x \in Workers \ {w} : pc'[x] = pc[x] /\ vol'[x] = vol[x]
      <3>1. "base" \in Labels /\ nextTenant \in TenantIds \cup {NoTenant}
        BY <1>1 DEF Labels
      <3> QED
        BY <1>1, <2>1, <3>1, GotoFacts
    <2>3. TenantName(for[w]) \in Seq(Words) /\ TenantName(for[w]) # <<>>
      BY <1>1, <1>2, TenantNames
    <2>4. /\ tname'[nextTenant] = TenantName(for[w])
          /\ \A t \in TenantIds \ {nextTenant} : tname'[t] = tname[t]
          /\ tname' \in [TenantIds -> Seq(Words)]
      BY <1>1, <2>1, <2>3 DEF ControllerTypes
    <2>5. Live' = Live \cup {nextTenant} /\ nextTenant \notin Live
      <3>1. nextTenant \notin Live
        BY <1>1, <1>2 DEF ControllerInv, TenantOK
      <3> QED
        BY <1>1, <2>3, <2>4, <3>1 DEF Live
    <2>6. ControllerTypes'
      BY <1>1, <1>2, <2>1, <2>2, <2>4 DEF ControllerTypes, co
    <2>7. Statement(w)
      BY <1>1, <1>2, <2>1, <2>2, <2>4, <2>5 DEF Statement, co, Live
    <2>8. NamesUnique'
      <3> SUFFICES ASSUME NEW t \in Live', NEW u \in Live', tname'[t] = tname'[u]
                   PROVE  t = u
        BY DEF NamesUnique
      <3>1. \A x \in Live : tname'[x] = tname[x] /\ tname[x] # TenantName(for[w])
        BY <1>3, <2>4, <2>5 DEF NamedTenants, Live
      <3> QED
        BY <2>4, <2>5, <3>1 DEF ControllerInv, NamesUnique
    <2>9. ASSUME NEW x \in TenantIds
          PROVE  OneName(x)'
      <3>1. OneName(x) /\ bound' = bound /\ params' = params
        BY <1>1 DEF ControllerInv, TenantOK, co
      <3>2. CASE x = nextTenant
        <4>1. \A c \in Claims : bound[c] # x
          BY <1>2, <3>2 DEF ControllerInv, ClaimOK
        <4>2. \A y \in Workers : vol[y] # x
          BY <1>2, <3>2 DEF ControllerInv, WorkerOK
        <4>3. \A c : TenantName(c)' = TenantName(c)
          BY <3>1, NamesKept
        <4>4. \A y \in Workers : vol'[y] = x => for'[y] \in Claims /\ TenantName(for[y])' = TenantName(for[w])
          <5> SUFFICES ASSUME NEW y \in Workers, vol'[y] = x
                       PROVE  for'[y] \in Claims /\ TenantName(for[y])' = TenantName(for[w])
            OBVIOUS
          <5>1. y = w
            BY <2>2, <4>2
          <5> QED
            BY <1>2, <2>2, <3>1, <5>1 DEF TenantName
        <4> QED
          BY <2>3, <2>4, <3>1, <3>2, <4>1, <4>4 DEF OneName
      <3>3. CASE x # nextTenant
        <4>1. \A y \in Workers : vol'[y] = x => vol[y] = x /\ for'[y] = for[y]
          BY <2>2, <3>3
        <4>2. x \in Live' => x \in Live /\ tname'[x] = tname[x]
          BY <2>4, <2>5, <3>3
        <4> QED
          BY <3>1, <4>1, <4>2, OneNameKept
      <3> QED
        BY <3>2, <3>3
    <2>10. ASSUME NEW x \in TenantIds
           PROVE  TenantOK(x)'
      <3>1. TenantOK(x) /\ OneName(x)' /\ x \in Int
        BY <2>9, IdsAreNumbers DEF ControllerInv
      <3>2. x \in Live' => x \in Live \/ x = nextTenant
        BY <2>5
      <3>3. x >= nextTenant' => x >= nextTenant /\ x # nextTenant
        BY <1>2, <2>1, <3>1
      <3> QED
        BY <3>1, <3>2, <3>3 DEF TenantOK
    <2>11. WorkerOK(w)'
      <3>1. nextTenant < nextTenant'
        BY <1>2, <2>1
      <3>2. for[w] # None
        BY <1>1 DEF WorkerOK
      <3> QED
        BY <2>2, <3>1, <3>2 DEF WorkerOK
    <2>12. \A x \in Workers : WorkerOK(x)'
      BY <2>6, <2>7, <2>11, StatementKeepsWorkers
    <2>13. \A c \in Claims : ClaimOK(c)'
      BY <1>1, <2>2, <2>5, <2>6, <2>7, StatementKeepsClaims
    <2> QED
      BY <2>6, <2>8, <2>10, <2>12, <2>13 DEF ControllerInv
  <1>4. CASE NamedTenants(TenantName(for[w])) # {}
    <2>1. Goto(w, "answer", NoTenant) /\ UNCHANGED <<tname, nextTenant>>
      BY <1>4 DEF InsertTenant, Fail
    <2> QED
      BY <1>1, <2>1, FailKeeps DEF tables
  <1> QED
    BY <1>3, <1>4
LEMMA InsertBaseKeeps ==
    ASSUME ControllerInv, NEW w \in Workers, InsertBase(w)
    PROVE  ControllerInv'
  <1>1. /\ ControllerTypes /\ WorkerOK(w) /\ pc[w] = "base"
        /\ UNCHANGED <<params, tname, nextTenant, current, snap, co, faults>>
    BY DEF ControllerInv, InsertBase
  <1>2. CASE BaseAllowed(vol[w])
    <2>1. /\ vol[w] \in Live /\ base[vol[w]] = "none" /\ vol[w] \in TenantIds
          /\ base' = [base EXCEPT ![vol[w]] = "there"]
          /\ Goto(w, "answer", vol[w])
      BY <1>2 DEF InsertBase, BaseAllowed, Ok, Live
    <2>2. PICK t \in TenantIds : t = vol[w] /\ t \in Live
      BY <2>1
    <2>3. /\ pc' \in [Workers -> Labels] /\ vol' \in [Workers -> TenantIds \cup {NoTenant}]
          /\ for' = for /\ pc'[w] = "answer" /\ vol'[w] = t
          /\ \A x \in Workers \ {w} : pc'[x] = pc[x] /\ vol'[x] = vol[x]
      <3>1. "answer" \in Labels /\ t \in TenantIds \cup {NoTenant} /\ Goto(w, "answer", t)
        BY <2>1, <2>2 DEF Labels
      <3> QED
        BY <1>1, <3>1, GotoFacts
    <2>4. base' \in [TenantIds -> {"none", "there"}]
      BY <1>1, <2>1, <2>2 DEF ControllerTypes
    <2>5. Live' = Live /\ nextTenant \in Int
      BY <1>1 DEF Live, ControllerTypes
    <2>6. ControllerTypes'
      BY <1>1, <2>3, <2>4 DEF ControllerTypes, co
    <2>7. Statement(w)
      BY <1>1, <2>3, <2>5 DEF Statement, co
    <2>8. ASSUME NEW x \in TenantIds
          PROVE  OneName(x)'
      <3>1. OneName(x) /\ bound' = bound /\ tname' = tname /\ params' = params
        BY <1>1 DEF ControllerInv, TenantOK, co
      <3>2. \A y \in Workers : vol'[y] = x => vol[y] = x /\ for'[y] = for[y]
        BY <2>2, <2>3
      <3> QED
        BY <2>5, <3>1, <3>2, OneNameKept
    <2>9. ASSUME NEW x \in TenantIds
          PROVE  TenantOK(x)'
      <3>1. TenantOK(x) /\ OneName(x)'
        BY <2>8 DEF ControllerInv
      <3> QED
        BY <1>1, <2>5, <3>1 DEF TenantOK
    <2>10. NamesUnique'
      BY <1>1, <2>5 DEF ControllerInv, NamesUnique
    <2>11. WorkerOK(w)'
      BY <1>1, <2>2, <2>3 DEF WorkerOK
    <2>12. \A x \in Workers : WorkerOK(x)'
      BY <2>6, <2>7, <2>11, StatementKeepsWorkers
    <2>13. \A c \in Claims : ClaimOK(c)'
      BY <1>1, <2>2, <2>3, <2>5, <2>6, <2>7, StatementKeepsClaims
    <2> QED
      BY <2>6, <2>9, <2>10, <2>12, <2>13 DEF ControllerInv
  <1>3. CASE ~BaseAllowed(vol[w])
    <2>1. Goto(w, "answer", NoTenant) /\ UNCHANGED base
      BY <1>3 DEF InsertBase, Fail
    <2> QED
      BY <1>1, <2>1, FailKeeps DEF tables
  <1> QED
    BY <1>2, <1>3

LEMMA DeleteKeeps ==
    ASSUME ControllerInv, NEW w \in Workers, DeleteTenant(w)
    PROVE  ControllerInv'
  <1> DEFINE gone == Deleted(w)
  <1>1. /\ ControllerTypes /\ WorkerOK(w) /\ pc[w] = "delete"
        /\ UNCHANGED <<params, nextTenant, co, faults>>
        /\ Goto(w, "deleted", vol[w])
    BY DEF ControllerInv, DeleteTenant
  <1>2. /\ tname' = [t \in TenantIds |-> IF t \in gone THEN <<>> ELSE tname[t]]
        /\ base' = [t \in TenantIds |-> IF t \in gone THEN "none" ELSE base[t]]
        /\ current' = [t \in TenantIds |-> t \notin gone /\ current[t]]
        /\ snap' = [t \in TenantIds |-> t \notin gone /\ snap[t]]
    BY DEF DeleteTenant
  <1>3. gone = {vol[w]} \cap Live
    BY DEF Deleted
  <1>4. for[w] \in Claims /\ for[w] # None /\ vol[w] \in TenantIds \cup {NoTenant}
    BY <1>1 DEF WorkerOK, ControllerTypes
  <1>5. /\ pc' \in [Workers -> Labels] /\ vol' \in [Workers -> TenantIds \cup {NoTenant}]
        /\ for' = for /\ pc'[w] = "deleted" /\ vol'[w] = vol[w]
        /\ \A x \in Workers \ {w} : pc'[x] = pc[x] /\ vol'[x] = vol[x]
    <2>1. "deleted" \in Labels
      BY DEF Labels
    <2> QED
      BY <1>1, <1>4, <2>1, GotoFacts
  <1> HIDE DEF gone
  <1>6. /\ \A t \in TenantIds \ gone : /\ tname'[t] = tname[t] /\ base'[t] = base[t]
                                       /\ (current'[t] <=> current[t]) /\ (snap'[t] <=> snap[t])
        /\ \A t \in gone : tname'[t] = <<>> /\ base'[t] = "none" /\ ~current'[t] /\ ~snap'[t]
    BY <1>2, <1>3 DEF Live
  <1>7. Live' = Live \ {vol[w]}
    BY <1>3, <1>6 DEF Live
  <1>8. ControllerTypes'
    <2>1. tname' \in [TenantIds -> Seq(Words)]
      BY <1>1, <1>2, EmptySeq DEF ControllerTypes
    <2>2. base' \in [TenantIds -> {"none", "there"}]
      BY <1>1, <1>2 DEF ControllerTypes
    <2>3. current' \in [TenantIds -> BOOLEAN] /\ snap' \in [TenantIds -> BOOLEAN]
      BY <1>2, Zenon
    <2> QED
      BY <1>1, <1>5, <2>1, <2>2, <2>3 DEF ControllerTypes, co
  <1>9. \A t \in Live' : t \in Live /\ t \in TenantIds \ gone
    BY <1>3, <1>7 DEF Live
  <1>10. Statement(w)
    <2>1. nextTenant' >= nextTenant
      BY <1>1 DEF ControllerTypes
    <2> QED
      BY <1>1, <1>5, <1>6, <1>9, <2>1 DEF Statement
  <1>11. ASSUME NEW x \in TenantIds
         PROVE  OneName(x)'
    <2>1. OneName(x) /\ bound' = bound /\ params' = params
      BY <1>1 DEF ControllerInv, TenantOK, co
    <2>2. \A y \in Workers : vol'[y] = x => vol[y] = x /\ for'[y] = for[y]
      BY <1>5
    <2>3. x \in Live' => x \in Live /\ tname'[x] = tname[x]
      BY <1>6, <1>9
    <2> QED
      BY <2>1, <2>2, <2>3, OneNameKept
  <1>12. ASSUME NEW x \in TenantIds
         PROVE  TenantOK(x)'
    <2>1. TenantOK(x) /\ OneName(x)' /\ nextTenant' = nextTenant
      BY <1>1, <1>11 DEF ControllerInv
    <2>2. CASE x \in gone
      BY <1>6, <1>9, <2>1, <2>2 DEF TenantOK
    <2>3. CASE x \notin gone
      <3>1. x \in Live' <=> x \in Live
        BY <1>3, <1>7, <2>3
      <3> QED
        BY <1>6, <2>1, <2>3, <3>1 DEF TenantOK
    <2> QED
      BY <2>2, <2>3
  <1>13. NamesUnique'
    <2> SUFFICES ASSUME NEW t \in Live', NEW u \in Live', tname'[t] = tname'[u]
                 PROVE  t = u
      BY DEF NamesUnique
    <2> QED
      BY <1>6, <1>9 DEF ControllerInv, NamesUnique
  <1>14. WorkerOK(w)'
    BY <1>1, <1>4, <1>5, <1>7 DEF WorkerOK
  <1>15. \A x \in Workers : WorkerOK(x)'
    BY <1>8, <1>10, <1>14, StatementKeepsWorkers
  <1>16. ASSUME NEW c \in Claims, Clear(c), claim[c] # "released",
                NEW t \in Live, tname[t] = TenantName(c)
         PROVE  t \in Live'
    <2> SUFFICES ASSUME t = vol[w] PROVE FALSE
      BY <1>7
    <2>1. TenantName(for[w]) = TenantName(c)
      BY <1>16, HeldName
    <2>2. for[w] = c
      BY <1>1, <1>4, <1>16, <2>1, SameNameSameClaim DEF Clear
    <2> QED
      BY <1>1, <1>16, <2>2 DEF WorkerOK
  <1>17. \A c \in Claims : ClaimOK(c)'
    BY <1>1, <1>5, <1>8, <1>10, <1>16, StatementKeepsClaims
  <1> QED
    BY <1>8, <1>12, <1>13, <1>15, <1>17 DEF ControllerInv

LEMMA SnapshotGetKeeps ==
    ASSUME ControllerInv, NEW w \in Workers, SnapshotGet(w)
    PROVE  ControllerInv'
  <1>1. /\ ControllerTypes /\ WorkerOK(w) /\ pc[w] = "snapget"
        /\ UNCHANGED <<params, tables, co, faults>>
    BY DEF ControllerInv, SnapshotGet
  <1>2. CASE vol[w] \in Live /\ current[vol[w]]
    <2>1. Goto(w, "snapcreate", vol[w])
      BY <1>2 DEF SnapshotGet
    <2>2. PICK t \in TenantIds : t = vol[w]
      BY <1>2 DEF Live
    <2>3. /\ pc' \in [Workers -> Labels] /\ vol' \in [Workers -> TenantIds \cup {NoTenant}]
          /\ for' = for /\ pc'[w] = "snapcreate" /\ vol'[w] = t
          /\ \A x \in Workers \ {w} : pc'[x] = pc[x] /\ vol'[x] = vol[x]
      <3>1. "snapcreate" \in Labels /\ t \in TenantIds \cup {NoTenant} /\ Goto(w, "snapcreate", t)
        BY <2>1, <2>2 DEF Labels
      <3> QED
        BY <1>1, <3>1, GotoFacts
    <2>4. Live' = Live /\ nextTenant \in Int
      BY <1>1 DEF Live, tables, ControllerTypes
    <2>5. ControllerTypes'
      BY <1>1, <2>3 DEF ControllerTypes, tables, co
    <2>6. Statement(w)
      BY <1>1, <2>3, <2>4 DEF Statement, tables, co
    <2>7. ASSUME NEW x \in TenantIds
          PROVE  OneName(x)'
      <3>1. OneName(x) /\ bound' = bound /\ tname' = tname /\ params' = params
        BY <1>1 DEF ControllerInv, TenantOK, co, tables
      <3>2. \A y \in Workers : vol'[y] = x => vol[y] = x /\ for'[y] = for[y]
        BY <2>2, <2>3
      <3> QED
        BY <2>4, <3>1, <3>2, OneNameKept
    <2>8. NamesUnique' /\ \A x \in TenantIds : TenantOK(x)'
      BY <1>1, <2>7, TenantsKept
    <2>9. WorkerOK(w)'
      BY <1>1, <1>2, <2>2, <2>3 DEF WorkerOK, tables
    <2>10. \A x \in Workers : WorkerOK(x)'
      BY <2>5, <2>6, <2>9, StatementKeepsWorkers
    <2>11. \A c \in Claims : ClaimOK(c)'
      BY <1>1, <2>3, <2>4, <2>5, <2>6, StatementKeepsClaims
    <2> QED
      BY <2>5, <2>8, <2>10, <2>11 DEF ControllerInv
  <1>3. CASE ~(vol[w] \in Live /\ current[vol[w]])
    <2>1. Goto(w, "answer", NoTenant)
      BY <1>3 DEF SnapshotGet, Fail
    <2> QED
      BY <1>1, <2>1, FailKeeps
  <1> QED
    BY <1>2, <1>3

LEMMA SnapshotCreateKeeps ==
    ASSUME ControllerInv, NEW w \in Workers, SnapshotCreate(w)
    PROVE  ControllerInv'
  <1>1. /\ ControllerTypes /\ WorkerOK(w) /\ pc[w] = "snapcreate"
        /\ UNCHANGED <<params, tname, nextTenant, base, current, co, faults>>
    BY DEF ControllerInv, SnapshotCreate
  <1>2. CASE vol[w] \in Live /\ ~snap[vol[w]]
    <2>1. Goto(w, "answer", vol[w]) /\ snap' = [snap EXCEPT ![vol[w]] = TRUE]
      BY <1>2 DEF SnapshotCreate, Ok
    <2>2. PICK t \in TenantIds : t = vol[w] /\ t \in Live
      BY <1>2 DEF Live
    <2>3. /\ pc' \in [Workers -> Labels] /\ vol' \in [Workers -> TenantIds \cup {NoTenant}]
          /\ for' = for /\ pc'[w] = "answer" /\ vol'[w] = t
          /\ \A x \in Workers \ {w} : pc'[x] = pc[x] /\ vol'[x] = vol[x]
      <3>1. "answer" \in Labels /\ t \in TenantIds \cup {NoTenant} /\ Goto(w, "answer", t)
        BY <2>1, <2>2 DEF Labels
      <3> QED
        BY <1>1, <3>1, GotoFacts
    <2>4. snap' \in [TenantIds -> BOOLEAN]
      <3>1. snap \in [TenantIds -> BOOLEAN] /\ snap' = [snap EXCEPT ![t] = TRUE]
        BY <1>1, <2>1, <2>2 DEF ControllerTypes
      <3> QED
        BY <3>1, Zenon
    <2>5. Live' = Live /\ nextTenant \in Int
      BY <1>1 DEF Live, ControllerTypes
    <2>6. ControllerTypes'
      BY <1>1, <2>3, <2>4 DEF ControllerTypes, co
    <2>7. Statement(w)
      BY <1>1, <2>3, <2>5 DEF Statement, co
    <2>8. ASSUME NEW x \in TenantIds
          PROVE  OneName(x)'
      <3>1. OneName(x) /\ bound' = bound /\ tname' = tname /\ params' = params
        BY <1>1 DEF ControllerInv, TenantOK, co
      <3>2. \A y \in Workers : vol'[y] = x => vol[y] = x /\ for'[y] = for[y]
        BY <2>2, <2>3
      <3> QED
        BY <2>5, <3>1, <3>2, OneNameKept
    <2>9. ASSUME NEW x \in TenantIds
          PROVE  TenantOK(x)'
      <3>1. TenantOK(x) /\ OneName(x)'
        BY <2>8 DEF ControllerInv
      <3> QED
        BY <1>1, <2>5, <3>1 DEF TenantOK
    <2>10. NamesUnique'
      BY <1>1, <2>5 DEF ControllerInv, NamesUnique
    <2>11. WorkerOK(w)'
      BY <1>1, <2>2, <2>3 DEF WorkerOK
    <2>12. \A x \in Workers : WorkerOK(x)'
      BY <2>6, <2>7, <2>11, StatementKeepsWorkers
    <2>13. \A c \in Claims : ClaimOK(c)'
      BY <1>1, <2>2, <2>3, <2>5, <2>6, <2>7, StatementKeepsClaims
    <2> QED
      BY <2>6, <2>9, <2>10, <2>12, <2>13 DEF ControllerInv
  <1>3. CASE ~(vol[w] \in Live /\ ~snap[vol[w]])
    <2>1. Goto(w, "answer", NoTenant) /\ UNCHANGED snap
      BY <1>3 DEF SnapshotCreate, Fail
    <2> QED
      BY <1>1, <2>1, FailKeeps DEF tables
  <1> QED
    BY <1>2, <1>3
LEMMA OpenKeeps ==
    ASSUME ControllerInv, NEW t \in TenantIds, Open(t)
    PROVE  ControllerInv'
  <1>1. PICK done \in BOOLEAN : current' = [current EXCEPT ![t] = done]
    BY DEF Open
  <1>2. /\ ControllerTypes
        /\ base' = [base EXCEPT ![t] = "there"]
        /\ UNCHANGED <<params, tname, nextTenant, snap, calls, co, faults>>
    BY DEF ControllerInv, Open
  <1>3. base' \in [TenantIds -> {"none", "there"}]
    BY <1>2 DEF ControllerTypes
  <1>4. current' \in [TenantIds -> BOOLEAN]
    <2>1. current \in [TenantIds -> BOOLEAN]
      BY <1>2 DEF ControllerTypes
    <2> QED
      BY <1>1, <2>1, Zenon
  <1>5. Live' = Live
    BY <1>2 DEF Live
  <1>6. ControllerTypes'
    BY <1>2, <1>3, <1>4 DEF ControllerTypes, co, calls
  <1>7. ASSUME NEW x \in TenantIds
        PROVE  TenantOK(x)'
    <2>1. TenantOK(x) /\ OneName(x)
      BY DEF ControllerInv, TenantOK
    <2>2. bound' = bound /\ tname' = tname /\ params' = params /\ vol' = vol /\ for' = for
      BY <1>2 DEF co, calls
    <2>3. OneName(x)'
      BY <1>5, <2>1, <2>2, OneNameKept
    <2> QED
      BY <1>2, <1>5, <2>1, <2>3 DEF TenantOK
  <1>8. NamesUnique'
    BY <1>2, <1>5 DEF ControllerInv, NamesUnique
  <1>9. ASSUME NEW x \in Workers
        PROVE  WorkerOK(x)'
    <2>1. WorkerOK(x) /\ (Clear(for[x])' <=> Clear(for[x]))
      BY <1>2, NamesKept DEF ControllerInv, calls, Clear, Ambiguous, TenantName
    <2> QED
      BY <1>2, <1>5, <2>1 DEF WorkerOK, calls, co
  <1>10. ASSUME NEW c \in Claims
         PROVE  ClaimOK(c)'
    <2>1. ClaimOK(c) /\ (Clear(c)' <=> Clear(c))
      BY <1>2, NamesKept DEF ControllerInv
    <2> QED
      BY <1>2, <1>5, <2>1 DEF ClaimOK, WaitsRight, calls, co
  <1> QED
    BY <1>6, <1>7, <1>8, <1>9, <1>10 DEF ControllerInv

-----------------------------------------------------------------------------
(* The orchestrator: the tables stay as they are                           *)

\* A claim whose volume is there stays released once it is.
ReleasedKept ==
    /\ UNCHANGED <<params, tables>>
    /\ \A c \in Claims : claim[c] = "released" /\ bound[c] \in Live =>
          claim'[c] = "released" /\ bound'[c] = bound[c]

LEMMA WorkerKept ==
    ASSUME ControllerInv, ReleasedKept, NEW x \in Workers,
           pc'[x] = pc[x], for'[x] = for[x], vol'[x] = vol[x]
    PROVE  WorkerOK(x)'
  <1>1. /\ WorkerOK(x) /\ for[x] \in Claims \cup {None} /\ vol[x] \in TenantIds \cup {NoTenant}
        /\ pc[x] # "idle" => for[x] \in Claims
    BY DEF ControllerInv, ControllerTypes, WorkerOK
  <1>2. /\ Live' = Live /\ nextTenant' = nextTenant /\ current' = current
        /\ (Clear(for[x])' <=> Clear(for[x]))
    BY DEF ReleasedKept, tables, Live, Clear, Ambiguous, TenantName
  <1>3. ASSUME pc[x] = "delete", vol[x] \in Live, Clear(for[x])
        PROVE  claim'[for[x]] = "released" /\ bound'[for[x]] = vol[x]
    BY <1>1, <1>3 DEF WorkerOK, ReleasedKept
  <1> QED
    BY <1>1, <1>2, <1>3 DEF WorkerOK

LEMMA WorkerIdle ==
    ASSUME ControllerInv, UNCHANGED tables, NEW x \in Workers,
           pc'[x] = "idle", for'[x] = None, vol'[x] = NoTenant
    PROVE  WorkerOK(x)'
  <1>1. NoTenant < nextTenant'
    BY DEF ControllerInv, ControllerTypes, tables, NoTenant
  <1> QED
    BY <1>1 DEF WorkerOK

LEMMA ClaimKept ==
    ASSUME ControllerInv, UNCHANGED <<params, tables>>, NEW c \in Claims,
           claim'[c] = claim[c], bound'[c] = bound[c],
           \/ waiting'[c] = None
           \/ /\ waiting'[c] = waiting[c]
              /\ \A w \in Workers : w = waiting[c] =>
                    pc'[w] = pc[w] /\ for'[w] = for[w] /\ vol'[w] = vol[w]
    PROVE  ClaimOK(c)'
  <1>1. ClaimOK(c) /\ (Clear(c)' <=> Clear(c)) /\ waiting[c] \in Workers \cup {None}
    BY NamesKept DEF ControllerInv, ControllerTypes
  <1>2. Live' = Live /\ nextTenant' = nextTenant
    BY DEF tables, Live
  <1>3. CASE waiting'[c] = None
    BY <1>1, <1>2, <1>3 DEF ClaimOK, WaitsRight
  <1>4. CASE /\ waiting'[c] = waiting[c] /\ waiting[c] # None
             /\ \A w \in Workers : w = waiting[c] =>
                   pc'[w] = pc[w] /\ for'[w] = for[w] /\ vol'[w] = vol[w]
    <2>1. PICK w \in Workers : w = waiting[c]
      BY <1>1, <1>4
    <2>2. pc'[w] = pc[w] /\ for'[w] = for[w] /\ vol'[w] = vol[w] /\ waiting'[c] = w
      BY <1>4, <2>1
    <2> QED
      BY <1>1, <1>2, <1>4, <2>1, <2>2 DEF ClaimOK, WaitsRight
  <1> QED
    BY <1>3, <1>4

\* Nobody else waits for the call a claim waits for, and nobody for an idle worker.
LEMMA WaitsAlone ==
    ASSUME ControllerInv, NEW c \in Claims, NEW w \in Workers, waiting[c] = w
    PROVE  for[w] = c /\ pc[w] # "idle"
  <1>1. WaitsRight(c) /\ w # None
    BY ControllerAssumption DEF ControllerInv, ClaimOK
  <1> QED
    BY <1>1 DEF WaitsRight

\* Claims that change without their calls.
LEMMA WantReleaseKeep ==
    ASSUME ControllerInv, NEW c \in Claims, Want(c) \/ Release(c)
    PROVE  ControllerInv'
  <1>1. PICK s \in {"wanted", "released"} :
           /\ claim' = [claim EXCEPT ![c] = s]
           /\ claim[c] = IF s = "wanted" THEN "none" ELSE "bound"
    BY DEF Want, Release
  <1>2. /\ ControllerTypes /\ UNCHANGED <<params, tables, calls, bound, waiting, faults>>
        /\ round' \in Nat /\ ClaimOK(c)
    BY DEF ControllerInv, ControllerTypes, Want, Release
  <1>3. /\ claim' \in [Claims -> ClaimStates] /\ claim'[c] = s
        /\ \A d \in Claims \ {c} : claim'[d] = claim[d]
    BY <1>1, <1>2 DEF ControllerTypes, ClaimStates
  <1>4. ControllerTypes'
    BY <1>2, <1>3 DEF ControllerTypes, tables, calls
  <1>5. ASSUME NEW x \in TenantIds
        PROVE  OneName(x)'
    <2>1. OneName(x) /\ Live' = Live
      BY <1>2 DEF ControllerInv, TenantOK, tables, Live
    <2> QED
      BY <1>2, <2>1, OneNameKept DEF tables, calls
  <1>6. NamesUnique' /\ \A x \in TenantIds : TenantOK(x)'
    BY <1>2, <1>5, TenantsKept
  <1>7. ReleasedKept
    BY <1>1, <1>2, <1>3 DEF ReleasedKept
  <1>8. \A x \in Workers : WorkerOK(x)'
    BY <1>2, <1>7, WorkerKept DEF calls
  <1>9. \A d \in Claims \ {c} : ClaimOK(d)'
    BY <1>2, <1>3, ClaimKept DEF calls
  <1>10. ClaimOK(c)'
    <2>1. waiting[c] = None
      BY <1>1, <1>2 DEF ClaimOK, WaitsRight, Want, Release
    <2>2. Live' = Live /\ nextTenant' = nextTenant /\ bound'[c] = bound[c] /\ waiting'[c] = None
      BY <1>2, <2>1 DEF tables, Live
    <2> QED
      BY <1>1, <1>2, <1>3, <2>2 DEF ClaimOK, WaitsRight
  <1> QED
    BY <1>4, <1>6, <1>8, <1>9, <1>10 DEF ControllerInv

LEMMA CallKeeps ==
    ASSUME ControllerInv, NEW c \in Claims, NEW w \in Workers,
           NEW s, NEW label, Call(c, w, s, label),
           <<s, label>> \in {<<"wanted", "lookup">>, <<"released", "delete">>, <<"bound", "snapget">>}
    PROVE  ControllerInv'
  <1>1. /\ ControllerTypes /\ claim[c] = s /\ waiting[c] = None /\ pc[w] = "idle"
        /\ pc' = [pc EXCEPT ![w] = label]
        /\ for' = [for EXCEPT ![w] = c]
        /\ vol' = [vol EXCEPT ![w] = bound[c]]
        /\ waiting' = [waiting EXCEPT ![c] = w]
        /\ UNCHANGED <<params, tables, claim, bound, round, faults>>
    BY DEF ControllerInv, Call
  <1>2. \/ s = "wanted" /\ label = "lookup"
        \/ s = "released" /\ label = "delete"
        \/ s = "bound" /\ label = "snapget"
    OBVIOUS
  <1>3. /\ pc' \in [Workers -> Labels] /\ for' \in [Workers -> Claims \cup {None}]
        /\ vol' \in [Workers -> TenantIds \cup {NoTenant}]
        /\ waiting' \in [Claims -> Workers \cup {None}]
    BY <1>1, <1>2 DEF ControllerTypes, Labels
  <1>4. /\ pc'[w] = label /\ for'[w] = c /\ vol'[w] = bound[c] /\ waiting'[c] = w
        /\ \A x \in Workers \ {w} : pc'[x] = pc[x] /\ for'[x] = for[x] /\ vol'[x] = vol[x]
        /\ \A d \in Claims \ {c} : waiting'[d] = waiting[d]
    BY <1>1 DEF ControllerTypes
  <1>5. ControllerTypes'
    BY <1>1, <1>3 DEF ControllerTypes, tables
  <1>6. Live' = Live /\ nextTenant' = nextTenant /\ c # None
    BY <1>1, ControllerAssumption DEF tables, Live
  <1>7. ASSUME NEW x \in TenantIds
        PROVE  OneName(x)'
    <2>1. OneName(x) /\ tname' = tname /\ bound' = bound /\ params' = params
      BY <1>1 DEF ControllerInv, TenantOK, tables
    <2>2. \A y \in Workers : vol'[y] = x =>
              \/ vol[y] = x /\ for'[y] = for[y]
              \/ for'[y] \in Claims /\ bound[for'[y]] = x
      BY <1>4
    <2> QED
      BY <1>6, <2>1, <2>2, OneNameKept
  <1>8. NamesUnique' /\ \A x \in TenantIds : TenantOK(x)'
    BY <1>1, <1>7, TenantsKept
  <1>9. ReleasedKept
    BY <1>1 DEF ReleasedKept
  <1>10. \A x \in Workers \ {w} : WorkerOK(x)'
    BY <1>4, <1>9, WorkerKept
  <1>11. ClaimOK(c)
    BY DEF ControllerInv
  <1>12. WorkerOK(w)'
    <2>1. bound[c] < nextTenant
      BY <1>11 DEF ClaimOK
    <2> QED
      BY <1>1, <1>2, <1>4, <1>6, <2>1 DEF WorkerOK
  <1>13. \A d \in Claims \ {c} : ClaimOK(d)'
    <2> SUFFICES ASSUME NEW d \in Claims \ {c}
                 PROVE  ClaimOK(d)'
      OBVIOUS
    <2>1. waiting[d] # w
      BY <1>1, WaitsAlone
    <2> QED
      BY <1>1, <1>4, <2>1, ClaimKept
  <1>14. ClaimOK(c)'
    <2>1. Clear(c)' <=> Clear(c)
      BY <1>1, NamesKept
    <2>2. w # None /\ claim'[c] = s /\ claim[c] = s /\ bound'[c] = bound[c]
      BY <1>1, ControllerAssumption
    <2> QED
      BY <1>2, <1>4, <1>6, <1>11, <2>1, <2>2 DEF ClaimOK, WaitsRight
  <1> QED
    BY <1>5, <1>8, <1>10, <1>12, <1>13, <1>14 DEF ControllerInv
LEMMA AnswerKeeps ==
    ASSUME ControllerInv, NEW w \in Workers, Answer(w)
    PROVE  ControllerInv'
  <1>1. /\ ControllerTypes /\ WorkerOK(w) /\ pc[w] \in {"answer", "deleted"}
        /\ pc' = [pc EXCEPT ![w] = "idle"]
        /\ for' = [for EXCEPT ![w] = None]
        /\ vol' = [vol EXCEPT ![w] = NoTenant]
        /\ UNCHANGED <<params, tables, round, faults>>
    BY DEF ControllerInv, Answer
  <1>2. PICK c \in Claims : c = for[w]
    BY <1>1 DEF WorkerOK, ControllerTypes
  <1>3. /\ pc' \in [Workers -> Labels] /\ for' \in [Workers -> Claims \cup {None}]
        /\ vol' \in [Workers -> TenantIds \cup {NoTenant}]
        /\ pc'[w] = "idle" /\ for'[w] = None /\ vol'[w] = NoTenant
        /\ \A x \in Workers \ {w} : pc'[x] = pc[x] /\ for'[x] = for[x] /\ vol'[x] = vol[x]
    BY <1>1 DEF ControllerTypes, Labels
  <1>4. \A d \in Claims \ {c} : waiting[d] # w
    BY <1>2, WaitsAlone
  <1>5. Live' = Live /\ nextTenant' = nextTenant /\ tname' = tname /\ params' = params
    BY <1>1 DEF tables, Live
  <1>6. CASE waiting[c] # w
    <2>1. UNCHANGED <<waiting, claim, bound>>
      BY <1>2, <1>6 DEF Answer
    <2>2. ControllerTypes'
      BY <1>1, <1>3, <2>1 DEF ControllerTypes, tables
    <2>3. ASSUME NEW x \in TenantIds
          PROVE  OneName(x)'
      <3>1. OneName(x)
        BY DEF ControllerInv, TenantOK
      <3>2. \A y \in Workers : vol'[y] = x => vol[y] = x /\ for'[y] = for[y]
        BY <1>3, IdsAreNumbers
      <3> QED
        BY <1>5, <2>1, <3>1, <3>2, OneNameKept
    <2>4. NamesUnique' /\ \A x \in TenantIds : TenantOK(x)'
      BY <1>1, <2>3, TenantsKept
    <2>5. ReleasedKept
      BY <1>1, <2>1 DEF ReleasedKept
    <2>6. \A x \in Workers : WorkerOK(x)'
      BY <1>1, <1>3, <2>5, WorkerKept, WorkerIdle
    <2>7. \A d \in Claims : ClaimOK(d)'
      BY <1>1, <1>3, <1>4, <1>6, <2>1, ClaimKept
    <2> QED
      BY <2>2, <2>4, <2>6, <2>7 DEF ControllerInv
  <1>7. CASE waiting[c] = w
    <2>1. /\ waiting' = [waiting EXCEPT ![c] = None]
          /\ claim' = [claim EXCEPT ![c] =
                  IF pc[w] = "deleted" THEN "none"
                  ELSE IF claim[c] = "wanted" /\ vol[w] # NoTenant THEN "bound" ELSE claim[c]]
          /\ bound' = [bound EXCEPT ![c] =
                  IF pc[w] = "deleted" THEN NoTenant
                  ELSE IF claim[c] = "wanted" THEN vol[w] ELSE bound[c]]
      BY <1>2, <1>7 DEF Answer
    <2>2. /\ waiting' \in [Claims -> Workers \cup {None}] /\ waiting'[c] = None
          /\ \A d \in Claims \ {c} : waiting'[d] = waiting[d]
      BY <1>1, <2>1 DEF ControllerTypes
    <2>3. /\ claim' \in [Claims -> ClaimStates]
          /\ claim'[c] = IF pc[w] = "deleted" THEN "none"
                  ELSE IF claim[c] = "wanted" /\ vol[w] # NoTenant THEN "bound" ELSE claim[c]
          /\ \A d \in Claims \ {c} : claim'[d] = claim[d]
      BY <1>1, <2>1 DEF ControllerTypes, ClaimStates
    <2>4. /\ bound' \in [Claims -> TenantIds \cup {NoTenant}]
          /\ bound'[c] = IF pc[w] = "deleted" THEN NoTenant
                  ELSE IF claim[c] = "wanted" THEN vol[w] ELSE bound[c]
          /\ \A d \in Claims \ {c} : bound'[d] = bound[d]
      BY <1>1, <2>1 DEF ControllerTypes
    <2>5. ControllerTypes'
      BY <1>1, <1>3, <2>2, <2>3, <2>4 DEF ControllerTypes, tables
    <2>6. ASSUME NEW x \in TenantIds
          PROVE  OneName(x)'
      <3>1. OneName(x)
        BY DEF ControllerInv, TenantOK
      <3>2. \A y \in Workers : vol'[y] = x => vol[y] = x /\ for'[y] = for[y]
        BY <1>3, IdsAreNumbers
      <3>3. \A d \in Claims : bound'[d] = x =>
               bound[d] = x \/ \E y \in Workers : vol[y] = x /\ for[y] = d
        BY <1>2, <2>4, IdsAreNumbers
      <3> QED
        BY <1>5, <3>1, <3>2, <3>3, OneNameKept
    <2>7. NamesUnique' /\ \A x \in TenantIds : TenantOK(x)'
      BY <1>1, <2>6, TenantsKept
    <2>8. /\ ClaimOK(c) /\ w # None
          /\ \/ claim[c] = "wanted" /\ pc[w] = "answer"
             \/ claim[c] = "bound" /\ pc[w] = "answer"
             \/ claim[c] = "released" /\ pc[w] = "deleted" /\ vol[w] = bound[c]
      <3>1. ClaimOK(c) /\ w # None
        BY ControllerAssumption DEF ControllerInv
      <3> QED
        BY <1>1, <1>7, <3>1 DEF ClaimOK, WaitsRight
    <2>9. ReleasedKept
      <3>1. claim[c] = "released" => bound[c] \notin Live
        BY <1>1, <2>8 DEF WorkerOK
      <3> QED
        BY <1>1, <2>3, <2>4, <3>1 DEF ReleasedKept
    <2>10. \A x \in Workers : WorkerOK(x)'
      BY <1>1, <1>3, <2>9, WorkerKept, WorkerIdle
    <2>11. \A d \in Claims \ {c} : ClaimOK(d)'
      BY <1>1, <1>3, <1>4, <2>2, <2>3, <2>4, ClaimKept
    <2>12. ClaimOK(c)'
      <3>1. Clear(c)' <=> Clear(c)
        BY <1>5, NamesKept
      <3>2. bound'[c] < nextTenant'
        <4>1. NoTenant < nextTenant
          BY <1>1 DEF NoTenant, ControllerTypes
        <4> QED
          BY <1>1, <1>5, <2>4, <2>8, <4>1 DEF ClaimOK, WorkerOK
      <3>3. bound'[c] = NoTenant <=> claim'[c] \in {"none", "wanted"}
        BY <2>3, <2>4, <2>8 DEF ClaimOK
      <3>4. ASSUME Clear(c), claim'[c] = "bound"
            PROVE  bound'[c] \in Live
        BY <1>7, <2>3, <2>4, <2>8, <3>4 DEF ClaimOK
      <3> QED
        BY <1>5, <2>2, <3>1, <3>2, <3>3, <3>4 DEF ClaimOK, WaitsRight
    <2> QED
      BY <2>5, <2>7, <2>10, <2>11, <2>12 DEF ControllerInv
  <1> QED
    BY <1>6, <1>7

\* Calls that are cut, or no longer waited for.
LEMMA TimeoutKeeps ==
    ASSUME ControllerInv, NEW c \in Claims, Timeout(c)
    PROVE  ControllerInv'
  <1>1. /\ ControllerTypes /\ waiting[c] # None
        /\ waiting' = [waiting EXCEPT ![c] = None]
        /\ faults' = faults + 1
        /\ UNCHANGED <<params, tables, claim, bound, round>>
    BY DEF ControllerInv, Timeout
  <1>2. PICK w \in Workers : w = waiting[c]
    BY <1>1 DEF ControllerTypes
  <1>3. /\ waiting' \in [Claims -> Workers \cup {None}] /\ waiting'[c] = None /\ faults' \in Nat
        /\ \A d \in Claims \ {c} : waiting'[d] = waiting[d] /\ waiting[d] # w
    <2>1. \A d \in Claims \ {c} : waiting[d] # w
      BY <1>2, WaitsAlone
    <2> QED
      BY <1>1, <2>1 DEF ControllerTypes
  <1>4. /\ pc' \in [Workers -> Labels] /\ for' \in [Workers -> Claims \cup {None}]
        /\ vol' \in [Workers -> TenantIds \cup {NoTenant}]
        /\ \A x \in Workers \ {w} : pc'[x] = pc[x] /\ for'[x] = for[x] /\ vol'[x] = vol[x]
        /\ \/ pc'[w] = pc[w] /\ for'[w] = for[w] /\ vol'[w] = vol[w]
           \/ pc'[w] = "idle" /\ for'[w] = None /\ vol'[w] = NoTenant
    <2>1. CASE UNCHANGED calls
      BY <1>1, <2>1 DEF ControllerTypes, calls
    <2>2. CASE /\ pc' = [pc EXCEPT ![waiting[c]] = "idle"]
               /\ for' = [for EXCEPT ![waiting[c]] = None]
               /\ vol' = [vol EXCEPT ![waiting[c]] = NoTenant]
      BY <1>1, <1>2, <2>2 DEF ControllerTypes, Labels
    <2> QED
      BY <2>1, <2>2 DEF Timeout
  <1>5. ControllerTypes'
    BY <1>1, <1>3, <1>4 DEF ControllerTypes, tables
  <1>6. ASSUME NEW x \in TenantIds
        PROVE  OneName(x)'
    <2>1. OneName(x) /\ Live' = Live /\ tname' = tname /\ bound' = bound /\ params' = params
      BY <1>1 DEF ControllerInv, TenantOK, tables, Live
    <2>2. \A y \in Workers : vol'[y] = x => vol[y] = x /\ for'[y] = for[y]
      BY <1>4, IdsAreNumbers
    <2> QED
      BY <2>1, <2>2, OneNameKept
  <1>7. NamesUnique' /\ \A x \in TenantIds : TenantOK(x)'
    BY <1>1, <1>6, TenantsKept
  <1>8. ReleasedKept
    BY <1>1 DEF ReleasedKept
  <1>9. \A x \in Workers : WorkerOK(x)'
    BY <1>1, <1>4, <1>8, WorkerKept, WorkerIdle
  <1>10. \A d \in Claims : ClaimOK(d)'
    BY <1>1, <1>3, <1>4, ClaimKept
  <1> QED
    BY <1>5, <1>7, <1>9, <1>10 DEF ControllerInv

LEMMA RestartKeeps ==
    ASSUME ControllerInv, Restart
    PROVE  ControllerInv'
  <1>1. /\ ControllerTypes
        /\ faults' = faults + 1
        /\ pc' = [w \in Workers |-> "idle"]
        /\ for' = [w \in Workers |-> None]
        /\ vol' = [w \in Workers |-> NoTenant]
        /\ waiting' = [c \in Claims |-> None]
        /\ UNCHANGED <<params, tables, claim, bound, round>>
    BY DEF ControllerInv, Restart
  <1>2. ControllerTypes'
    BY <1>1 DEF ControllerTypes, tables, Labels
  <1>3. ASSUME NEW x \in TenantIds
        PROVE  OneName(x)'
    <2>1. OneName(x) /\ Live' = Live /\ tname' = tname /\ bound' = bound /\ params' = params
      BY <1>1 DEF ControllerInv, TenantOK, tables, Live
    <2>2. \A y \in Workers : vol'[y] # x
      BY <1>1, IdsAreNumbers
    <2> QED
      BY <2>1, <2>2, OneNameKept
  <1>4. NamesUnique' /\ \A x \in TenantIds : TenantOK(x)'
    BY <1>1, <1>3, TenantsKept
  <1>5. \A x \in Workers : WorkerOK(x)'
    BY <1>1, WorkerIdle
  <1>6. \A d \in Claims : ClaimOK(d)'
    BY <1>1, ClaimKept
  <1> QED
    BY <1>2, <1>4, <1>5, <1>6 DEF ControllerInv

-----------------------------------------------------------------------------

LEMMA ControllerInitially == Init => ControllerInv
  <1> SUFFICES ASSUME Init PROVE ControllerInv
    OBVIOUS
  <1>1. ControllerTypes
    <2>1. /\ params \in Requests /\ <<>> \in Seq(Words)
          /\ tname = [t \in TenantIds |-> <<>>]
      BY EmptySeq DEF Init
    <2>2. tname \in [TenantIds -> Seq(Words)]
      BY <2>1
    <2>3. current \in [TenantIds -> BOOLEAN] /\ snap \in [TenantIds -> BOOLEAN]
      BY Zenon DEF Init
    <2> QED
      BY <2>1, <2>2, <2>3 DEF Init, ControllerTypes, Labels, ClaimStates
  <1>2. Live = {}
    BY DEF Init, Live
  <1>3. NamesUnique
    BY <1>2 DEF NamesUnique
  <1>4. ASSUME NEW t \in TenantIds
        PROVE  TenantOK(t)
    <2>1. OneName(t)
      <3>1. <<>> \in Seq(Words)
        BY EmptySeq
      <3>2. /\ t \notin Live
            /\ \A c \in Claims : bound[c] # t
            /\ \A w \in Workers : vol[w] # t
        BY <1>2, IdsAreNumbers DEF Init
      <3> QED
        BY <3>1, <3>2 DEF OneName
    <2> QED
      BY <1>2, <2>1 DEF Init, TenantOK
  <1>5. NoTenant < 1
    BY DEF NoTenant
  <1>6. ASSUME NEW w \in Workers
        PROVE  WorkerOK(w)
    BY <1>2, <1>5 DEF Init, WorkerOK
  <1>7. ASSUME NEW c \in Claims
        PROVE  ClaimOK(c)
    BY <1>2, <1>5 DEF Init, ClaimOK, WaitsRight
  <1> QED
    BY <1>1, <1>3, <1>4, <1>6, <1>7 DEF ControllerInv

LEMMA ControllerStep == ControllerInv /\ [Next]_vars => ControllerInv'
  <1> SUFFICES ASSUME ControllerInv, [Next]_vars PROVE ControllerInv'
    OBVIOUS
  <1>1. ASSUME NEW w \in Workers, Handle(w) PROVE ControllerInv'
    BY <1>1, LookupKeeps, InsertTenantKeeps, InsertBaseKeeps, DeleteKeeps,
       SnapshotGetKeeps, SnapshotCreateKeeps, AnswerKeeps DEF Handle
  <1>2. ASSUME NEW t \in TenantIds, Open(t) PROVE ControllerInv'
    BY <1>2, OpenKeeps
  <1>3. ASSUME NEW c \in Claims, Want(c) \/ Release(c) \/ Timeout(c) PROVE ControllerInv'
    BY <1>3, WantReleaseKeep, TimeoutKeeps
  <1>4. ASSUME NEW c \in Claims, NEW w \in Workers, CallCreate(c, w) PROVE ControllerInv'
    BY <1>4, CallKeeps DEF CallCreate
  <1>5. ASSUME NEW c \in Claims, NEW w \in Workers, CallDelete(c, w) PROVE ControllerInv'
    BY <1>5, CallKeeps DEF CallDelete
  <1>6. ASSUME NEW c \in Claims, NEW w \in Workers, CallSnapshot(c, w) PROVE ControllerInv'
    BY <1>6, CallKeeps DEF CallSnapshot
  <1>7. CASE Restart
    BY <1>7, RestartKeeps
  <1>8. CASE UNCHANGED vars
    <2>1. UNCHANGED <<params, tables, calls, co, faults>>
      BY <1>8 DEF vars
    <2>2. UNCHANGED <<params, tname, nextTenant, base, current, snap, pc, for, vol,
                      claim, bound, waiting, round, faults>>
      BY <2>1 DEF tables, calls, co
    <2>3. ControllerTypes'
      BY <2>2 DEF ControllerInv, ControllerTypes
    <2>4. ASSUME NEW x \in TenantIds
          PROVE  OneName(x)'
      <3>1. OneName(x) /\ Live' = Live
        BY <2>2 DEF ControllerInv, TenantOK, Live
      <3> QED
        BY <2>2, <3>1, OneNameKept
    <2>5. NamesUnique' /\ \A x \in TenantIds : TenantOK(x)'
      BY <2>1, <2>4, TenantsKept
    <2>6. ReleasedKept
      BY <2>1, <2>2 DEF ReleasedKept
    <2>7. \A x \in Workers : WorkerOK(x)'
      BY <2>2, <2>6, WorkerKept
    <2>8. \A d \in Claims : ClaimOK(d)'
      BY <2>1, <2>2, ClaimKept
    <2> QED
      BY <2>3, <2>5, <2>7, <2>8 DEF ControllerInv
  <1> QED
    BY <1>1, <1>2, <1>3, <1>4, <1>5, <1>6, <1>7, <1>8 DEF Next

LEMMA ControllerInvariant == Spec => []ControllerInv
  BY ControllerInitially, ControllerStep, PTL DEF Spec

\* However calls overlap, are repeated, cut or end late, create_volume never gives
\* two claims the same tenant, unless format_tenant_name cannot tell them apart:
\* the "--" between the parts is read back in one way from a namespace without it.
THEOREM ClaimsStaySeparate == Spec => []VolumesSeparate
  <1>1. ControllerInv => VolumesSeparate
    <2> SUFFICES ASSUME ControllerInv, NEW c \in Claims, NEW d \in Claims, c # d,
                        bound[c] # NoTenant, bound[c] = bound[d]
                 PROVE  Ambiguous(c, d)
      BY DEF VolumesSeparate
    <2>1. ControllerTypes /\ bound[c] \in TenantIds
      BY DEF ControllerInv, ControllerTypes
    <2>2. OneName(bound[c])
      BY <2>1 DEF ControllerInv, TenantOK
    <2>3. TenantName(c) = TenantName(d)
      BY <2>2 DEF OneName
    <2> QED
      BY <2>1, <2>3, SameNameSameClaim
  <1> QED
    BY <1>1, ControllerInvariant, PTL

\* A bound claim that no other can be taken for has its volume, and there is no
\* second tenant of its name: delete_volume deletes by an id that is never given
\* again, so that a call that ends late finds nothing or what is still released.
THEOREM BoundClaimsKeepTheirVolume == Spec => []OneVolumePerClaim
  <1>1. ControllerInv => OneVolumePerClaim
    <2> SUFFICES ASSUME ControllerInv, NEW c \in Claims, claim[c] = "bound", Clear(c)
                 PROVE  NamedTenants(TenantName(c)) = {bound[c]}
      BY DEF OneVolumePerClaim, Clear
    <2>1. bound[c] \in Live
      BY DEF ControllerInv, ClaimOK
    <2>2. tname[bound[c]] = TenantName(c)
      BY <2>1, HeldName
    <2> QED
      BY <2>1, <2>2 DEF NamedTenants, ControllerInv, NamesUnique
  <1> QED
    BY <1>1, ControllerInvariant, PTL

-----------------------------------------------------------------------------
(***************************************************************************)
(* The node.                                                               *)
(*                                                                         *)
(* For every set of volumes and every bound: a volume is never served by   *)
(* two processes of one driver, and one whose unstage was answered with OK *)
(* has left nothing behind that is not accounted for as lost.              *)
(*                                                                         *)
(* Neither is inductive: both need to know what the kubelet's phase says   *)
(* about the handle and the mutex, and what a volume that is not lost may  *)
(* have mounted, at every point of its round.                              *)
(***************************************************************************)

States == {"none", "starting", "serving", "dead"}
Phases == {"away", "stage", "publish", "use", "unpublish", "unstage"}

NodeTypes ==
    /\ handle \in [Volumes -> ProcIds \cup {NoProc}]
    /\ lock \in Volumes \cup {NoVolume}
    /\ state \in [Volumes -> [ProcIds -> States]]
    /\ mounts \in [Volumes -> Seq(ProcIds)]
    /\ binds \in [Volumes -> Nat]
    /\ phase \in [Volumes -> Phases]
    /\ visits \in [Volumes -> Nat]
    /\ mishaps \in Nat
    /\ survivors \in [Volumes -> SUBSET ProcIds]
    /\ lost \in [Volumes -> BOOLEAN]

\* Every process of this driver is the one of the handle; the mutex is held by an
\* unstage that has taken the handle out; and a volume that is away has neither.
Held(v) ==
    /\ Alive(v) \ survivors[v] \subseteq {handle[v]}
    /\ lock = v => handle[v] = NoProc /\ phase[v] = "unstage"
    /\ phase[v] = "away" => handle[v] = NoProc /\ lock # v

\* What a volume has that is not lost: no process but the one of the handle, no
\* mount but this process's or the one the unmount is about to take away, and one
\* bind mount from its publish to its unpublish.
Accounted(v) ==
    /\ Alive(v) \subseteq {handle[v]}
    /\ mounts[v] = <<>> \/ \E p \in ProcIds : mounts[v] = <<p>>
    /\ mounts[v] # <<>> /\ lock # v =>
          handle[v] # NoProc /\ state[v][handle[v]] # "starting"
    /\ binds[v] \in {0, 1}
    /\ binds[v] = 1 => phase[v] \in {"publish", "use", "unpublish"}

VolumeOK(v) == Held(v) /\ (~lost[v] => Accounted(v))

NodeInv == NodeTypes /\ \A v \in Volumes : VolumeOK(v)

-----------------------------------------------------------------------------

LEMMA FrontFacts ==
    ASSUME NEW S, NEW s \in Seq(S), s # <<>>
    PROVE  Front(s) \in Seq(S) /\ (Len(s) = 1 => Front(s) = <<>>)
  <1>1. Len(s) \in Nat \ {0}
    BY EmptySeq
  <1>2. Len(s) - 1 \in Int /\ 1 \in Int /\ \A i \in 1..(Len(s) - 1) : s[i] \in S
    BY <1>1, ElementOfSeq
  <1>3. /\ SubSeq(s, 1, Len(s) - 1) \in Seq(S)
        /\ Len(SubSeq(s, 1, Len(s) - 1)) = IF 1 <= Len(s) - 1 THEN Len(s) - 1 - 1 + 1 ELSE 0
    BY <1>2, SubSeqProperties
  <1>4. Front(s) \in Seq(S) /\ Len(Front(s)) = Len(s) - 1
    <2>1. Front(s) = SubSeq(s, 1, Len(s) - 1)
      BY Zenon DEF Front
    <2>2. PICK n \in Nat : n = Len(s) /\ n # 0
      BY <1>1
    <2>3. (IF 1 <= n - 1 THEN n - 1 - 1 + 1 ELSE 0) = n - 1
      BY <2>2
    <2>4. Len(SubSeq(s, 1, Len(s) - 1)) = Len(s) - 1
      BY <1>3, <2>2, <2>3, Zenon
    <2> QED
      BY <1>3, <2>1, <2>4, Zenon
  <1>5. ASSUME Len(s) = 1 PROVE Front(s) = <<>>
    <2>1. PICK f \in Seq(S) : f = Front(s)
      BY <1>4
    <2>2. Len(f) = 0
      BY <1>4, <1>5, <2>1
    <2>3. f = <<>>
      BY <2>2, EmptySeq
    <2> QED
      BY <2>1, <2>3
  <1> QED
    BY <1>4, <1>5

\* A step that leaves alone all there is of a volume.
LEMMA VolumeKept ==
    ASSUME NEW v \in Volumes, VolumeOK(v),
           handle'[v] = handle[v], lock' = v <=> lock = v, state'[v] = state[v],
           mounts'[v] = mounts[v], binds'[v] = binds[v], phase'[v] = phase[v],
           survivors'[v] = survivors[v], lost'[v] = lost[v]
    PROVE  VolumeOK(v)'
  BY DEF VolumeOK, Held, Accounted, Alive

\* An action of one volume keeps the invariant if it keeps the types and the
\* volume's part, and what it has of others alone.
LEMMA StepOfOneVolume ==
    ASSUME NodeInv, NEW v \in Volumes, NodeTypes', VolumeOK(v)',
           \A u \in Volumes \ {v} :
              /\ handle'[u] = handle[u] /\ (lock' = u <=> lock = u) /\ state'[u] = state[u]
              /\ mounts'[u] = mounts[u] /\ binds'[u] = binds[u] /\ phase'[u] = phase[u]
              /\ survivors'[u] = survivors[u] /\ lost'[u] = lost[u]
    PROVE  NodeInv'
  <1> SUFFICES ASSUME NEW u \in Volumes
               PROVE  VolumeOK(u)'
    BY DEF NodeInv
  <1>1. CASE u = v
    BY <1>1
  <1>2. CASE u # v
    BY <1>2, VolumeKept DEF NodeInv
  <1> QED
    BY <1>1, <1>2

LEMMA NoProcIsNone == NoProc \notin ProcIds
  BY NodeAssumption DEF NoProc, ProcIds

LEMMA AnsweredTypes ==
    ASSUME NodeTypes, NEW v \in Volumes, NEW next \in Phases, Answered(v, next)
    PROVE  /\ phase' \in [Volumes -> Phases] /\ mishaps' \in Nat
           /\ phase'[v] = next \/ phase'[v] = phase[v]
           /\ \A u \in Volumes \ {v} : phase'[u] = phase[u]
  <1>1. CASE phase' = [phase EXCEPT ![v] = next] /\ UNCHANGED mishaps
    BY <1>1 DEF NodeTypes
  <1>2. CASE Mishap /\ UNCHANGED phase
    BY <1>2 DEF NodeTypes, Mishap
  <1> QED
    BY <1>1, <1>2 DEF Answered

-----------------------------------------------------------------------------
(* The driver's calls                                                      *)

LEMMA StageKeeps ==
    ASSUME NodeInv, NEW v \in Volumes, Stage(v)
    PROVE  NodeInv'
  <1>1. NodeTypes /\ VolumeOK(v) /\ phase[v] = "stage" /\ lock = NoVolume /\ NoVolume \notin Volumes
    BY NodeAssumption DEF NodeInv, Stage
  <1>2. Answered(v, "publish")
    BY DEF Stage
  <1>3. /\ phase' \in [Volumes -> Phases] /\ mishaps' \in Nat
        /\ phase'[v] = "publish" \/ phase'[v] = phase[v]
        /\ \A u \in Volumes \ {v} : phase'[u] = phase[u]
    BY <1>1, <1>2, AnsweredTypes DEF Phases
  <1>4. CASE UNCHANGED <<handle, state>>
    <2>1. NodeTypes'
      BY <1>1, <1>3, <1>4 DEF NodeTypes, Stage
    <2>2. VolumeOK(v)'
      BY <1>1, <1>3, <1>4 DEF VolumeOK, Held, Accounted, Alive, Stage
    <2> QED
      BY <2>1, <2>2, <1>3, <1>4, StepOfOneVolume DEF Stage
  <1>5. ASSUME ~AlreadyMounted(v), NEW p \in ProcIds, state[v][p] = "none",
               state' = Spawn(v, p), handle' = [handle EXCEPT ![v] = p]
        PROVE  NodeInv'
    <2>1. NodeTypes'
      BY <1>1, <1>3, <1>5 DEF NodeTypes, Stage, Spawn, States
    <2>2. handle[v] = NoProc /\ handle'[v] = p /\ lock' = NoVolume
      BY <1>1, <1>5 DEF AlreadyMounted, NodeTypes, Stage
    <2>3. Alive(v)' = Alive(v) \cup {p}
      BY <1>1, <1>5 DEF Alive, Spawn, NodeTypes
    <2>4. Held(v)'
      BY <1>1, <1>3, <2>2, <2>3, NoProcIsNone DEF VolumeOK, Held, Alive, Stage
    <2>5. ASSUME ~lost'[v]
          PROVE  Accounted(v)'
      <3>1. Accounted(v) /\ mounts[v] = <<>>
        BY <1>1, <2>2, <2>5 DEF VolumeOK, Accounted, Stage
      <3> QED
        BY <1>1, <1>3, <2>2, <2>3, <3>1, NoProcIsNone DEF Accounted, Alive, Stage
    <2>6. VolumeOK(v)'
      BY <2>4, <2>5 DEF VolumeOK
    <2>7. \A u \in Volumes \ {v} : handle'[u] = handle[u] /\ state'[u] = state[u]
      BY <1>1, <1>5 DEF NodeTypes, Spawn
    <2> QED
      BY <2>1, <2>6, <2>7, <1>3, StepOfOneVolume DEF Stage
  <1> QED
    BY <1>4, <1>5 DEF Stage

LEMMA UnstageKeeps ==
    ASSUME NodeInv, NEW v \in Volumes, Unstage(v)
    PROVE  NodeInv'
  <1>1. NodeTypes /\ VolumeOK(v) /\ phase[v] = "unstage" /\ lock = NoVolume /\ NoVolume \notin Volumes
    BY NodeAssumption DEF NodeInv, Unstage
  <1>2. CASE handle[v] = NoProc
    <2>1. Answered(v, "away") /\ UNCHANGED <<driver, state>>
      BY <1>2 DEF Unstage
    <2>2. /\ phase' \in [Volumes -> Phases] /\ mishaps' \in Nat
          /\ phase'[v] = "away" \/ phase'[v] = phase[v]
          /\ \A u \in Volumes \ {v} : phase'[u] = phase[u]
      BY <1>1, <2>1, AnsweredTypes DEF Phases
    <2>3. NodeTypes'
      BY <1>1, <2>1, <2>2 DEF NodeTypes, Unstage, driver
    <2>4. VolumeOK(v)'
      BY <1>1, <1>2, <2>1, <2>2 DEF VolumeOK, Held, Accounted, Alive, Unstage, driver
    <2> QED
      BY <2>1, <2>2, <2>3, <2>4, StepOfOneVolume DEF Unstage, driver
  <1>3. CASE handle[v] # NoProc
    <2>1. /\ handle' = [handle EXCEPT ![v] = NoProc]
          /\ state' = [state EXCEPT ![v] =
                 [p \in ProcIds |-> IF p = handle[v] THEN "dead" ELSE state[v][p]]]
          /\ lock' = v /\ UNCHANGED <<phase, mishaps>>
      BY <1>1, <1>3 DEF Unstage, HandleRemoved, Killed, NodeTypes
    <2>2. NodeTypes'
      BY <1>1, <2>1 DEF NodeTypes, Unstage, States
    <2>3. Alive(v)' = Alive(v) \ {handle[v]}
      BY <1>1, <2>1 DEF Alive, NodeTypes
    <2>4. VolumeOK(v)'
      BY <1>1, <2>1, <2>3 DEF VolumeOK, Held, Accounted, Unstage, NodeTypes
    <2>5. \A u \in Volumes \ {v} :
             handle'[u] = handle[u] /\ state'[u] = state[u] /\ lock' # u /\ lock # u
      BY <1>1, <2>1 DEF NodeTypes
    <2> QED
      BY <2>1, <2>2, <2>4, <2>5, StepOfOneVolume DEF Unstage
  <1> QED
    BY <1>2, <1>3

LEMMA FusermountKeeps ==
    ASSUME NodeInv, NEW v \in Volumes, Fusermount(v)
    PROVE  NodeInv'
  <1>1. NodeTypes /\ VolumeOK(v) /\ lock = v /\ lock' = NoVolume /\ NoVolume \notin Volumes
    BY NodeAssumption DEF NodeInv, Fusermount
  <1>2. CASE /\ mounts[v] # <<>>
             /\ mounts' = [mounts EXCEPT ![v] = Front(@)]
             /\ Answered(v, "away")
             /\ UNCHANGED lost
    <2>1. /\ phase' \in [Volumes -> Phases] /\ mishaps' \in Nat
          /\ phase'[v] = "away" \/ phase'[v] = phase[v]
          /\ \A u \in Volumes \ {v} : phase'[u] = phase[u]
      BY <1>1, <1>2, AnsweredTypes DEF Phases
    <2>2. /\ Front(mounts[v]) \in Seq(ProcIds)
          /\ Len(mounts[v]) = 1 => Front(mounts[v]) = <<>>
      BY <1>1, <1>2, FrontFacts DEF NodeTypes
    <2>3. NodeTypes'
      BY <1>1, <1>2, <2>1, <2>2 DEF NodeTypes, Fusermount
    <2>4. Held(v)'
      BY <1>1, <2>1 DEF VolumeOK, Held, Alive, Fusermount
    <2>5. ASSUME ~lost'[v]
          PROVE  Accounted(v)'
      <3>1. Accounted(v) /\ mounts'[v] = <<>>
        <4>1. Accounted(v) /\ mounts'[v] = Front(mounts[v])
          BY <1>1, <1>2, <2>5 DEF VolumeOK, NodeTypes
        <4>2. PICK p \in ProcIds : mounts[v] = <<p>>
          BY <1>2, <4>1 DEF Accounted
        <4> QED
          BY <2>2, <4>1, <4>2
      <3> QED
        BY <1>1, <2>1, <3>1 DEF VolumeOK, Held, Accounted, Alive, Fusermount
    <2>6. VolumeOK(v)'
      BY <2>4, <2>5 DEF VolumeOK
    <2>7. \A u \in Volumes \ {v} : mounts'[u] = mounts[u] /\ lock' # u /\ lock # u
      BY <1>1, <1>2 DEF NodeTypes
    <2> QED
      BY <1>2, <2>1, <2>3, <2>6, <2>7, StepOfOneVolume DEF Fusermount
  <1>3. CASE mounts[v] = <<>> /\ UNCHANGED <<mounts, phase, mishaps, lost>>
    <2>1. NodeTypes'
      BY <1>1, <1>3 DEF NodeTypes, Fusermount
    <2>2. VolumeOK(v)'
      BY <1>1, <1>3 DEF VolumeOK, Held, Accounted, Alive, Fusermount
    <2> QED
      BY <1>1, <1>3, <2>1, <2>2, StepOfOneVolume DEF Fusermount
  <1>4. CASE /\ mounts[v] # <<>> /\ Mishap
             /\ lost' = [lost EXCEPT ![v] = TRUE]
             /\ UNCHANGED <<mounts, phase>>
    <2>1. NodeTypes' /\ lost'[v]
      BY <1>1, <1>4 DEF NodeTypes, Fusermount, Mishap
    <2>2. VolumeOK(v)'
      BY <1>1, <1>4, <2>1 DEF VolumeOK, Held, Alive, Fusermount
    <2>3. \A u \in Volumes \ {v} : lost'[u] = lost[u] /\ lock' # u /\ lock # u
      BY <1>1, <1>4 DEF NodeTypes
    <2> QED
      BY <1>4, <2>1, <2>2, <2>3, StepOfOneVolume DEF Fusermount
  <1> QED
    BY <1>2, <1>3, <1>4 DEF Fusermount

LEMMA PublishKeeps ==
    ASSUME NodeInv, NEW v \in Volumes, Publish(v)
    PROVE  NodeInv'
  <1>1. NodeTypes /\ VolumeOK(v) /\ phase[v] = "publish" /\ Answered(v, "use")
    BY DEF NodeInv, Publish
  <1>2. /\ phase' \in [Volumes -> Phases] /\ mishaps' \in Nat
        /\ phase'[v] = "use" \/ phase'[v] = phase[v]
        /\ \A u \in Volumes \ {v} : phase'[u] = phase[u]
    BY <1>1, AnsweredTypes DEF Phases
  <1>3. /\ binds' \in [Volumes -> Nat] /\ binds'[v] = binds[v] + 1 /\ binds[v] \in Nat
        /\ \A u \in Volumes \ {v} : binds'[u] = binds[u]
    BY <1>1 DEF NodeTypes, Publish
  <1>4. /\ lost' \in [Volumes -> BOOLEAN]
        /\ ~lost'[v] => ~lost[v] /\ ~(binds[v] > 0)
        /\ \A u \in Volumes \ {v} : lost'[u] = lost[u]
    <2>1. lost \in [Volumes -> BOOLEAN] /\ lost' = [lost EXCEPT ![v] = lost[v] \/ binds[v] > 0]
      BY <1>1 DEF NodeTypes, Publish
    <2>2. (lost[v] \/ binds[v] > 0) \in BOOLEAN
      OBVIOUS
    <2> QED
      BY <2>1, <2>2, Zenon
  <1>5. NodeTypes'
    BY <1>1, <1>2, <1>3, <1>4 DEF NodeTypes, Publish, driver
  <1>6. VolumeOK(v)'
    BY <1>1, <1>2, <1>3, <1>4 DEF VolumeOK, Held, Accounted, Alive, Publish, driver
  <1> QED
    BY <1>2, <1>3, <1>4, <1>5, <1>6, StepOfOneVolume DEF Publish, driver

LEMMA UnpublishKeeps ==
    ASSUME NodeInv, NEW v \in Volumes, Unpublish(v)
    PROVE  NodeInv'
  <1>1. NodeTypes /\ VolumeOK(v) /\ phase[v] = "unpublish"
    BY DEF NodeInv, Unpublish
  <1>2. ASSUME Answered(v, "unstage"), UNCHANGED lost,
               \/ binds[v] > 0 /\ binds' = [binds EXCEPT ![v] = @ - 1]
               \/ binds[v] = 0 /\ UNCHANGED binds
        PROVE  NodeInv'
    <2>1. /\ phase' \in [Volumes -> Phases] /\ mishaps' \in Nat
          /\ phase'[v] = "unstage" \/ phase'[v] = phase[v]
          /\ \A u \in Volumes \ {v} : phase'[u] = phase[u]
      BY <1>1, <1>2, AnsweredTypes DEF Phases
    <2>2. /\ binds' \in [Volumes -> Nat]
          /\ binds[v] \in {0, 1} => binds'[v] = 0
          /\ \A u \in Volumes \ {v} : binds'[u] = binds[u]
      <3>1. CASE binds[v] > 0 /\ binds' = [binds EXCEPT ![v] = @ - 1]
        <4>1. binds \in [Volumes -> Nat] /\ binds[v] \in Nat /\ binds[v] - 1 \in Nat
          BY <1>1, <3>1 DEF NodeTypes
        <4> QED
          BY <3>1, <4>1
      <3>2. CASE binds[v] = 0 /\ UNCHANGED binds
        BY <1>1, <3>2 DEF NodeTypes
      <3> QED
        BY <1>2, <3>1, <3>2
    <2>3. NodeTypes'
      BY <1>1, <1>2, <2>1, <2>2 DEF NodeTypes, Unpublish, driver
    <2>4. VolumeOK(v)'
      BY <1>1, <1>2, <2>1, <2>2 DEF VolumeOK, Held, Accounted, Alive, Unpublish, driver
    <2> QED
      BY <1>2, <2>1, <2>2, <2>3, <2>4, StepOfOneVolume DEF Unpublish, driver
  <1>3. CASE /\ binds[v] > 0 /\ Mishap
             /\ lost' = [lost EXCEPT ![v] = TRUE]
             /\ phase' = [phase EXCEPT ![v] = "unstage"]
             /\ UNCHANGED binds
    <2>1. NodeTypes' /\ lost'[v] /\ phase'[v] = "unstage"
      BY <1>1, <1>3 DEF NodeTypes, Unpublish, driver, Mishap, Phases
    <2>2. VolumeOK(v)'
      BY <1>1, <2>1 DEF VolumeOK, Held, Alive, Unpublish, driver
    <2>3. \A u \in Volumes \ {v} : lost'[u] = lost[u] /\ phase'[u] = phase[u]
      BY <1>1, <1>3 DEF NodeTypes
    <2> QED
      BY <1>3, <2>1, <2>2, <2>3, StepOfOneVolume DEF Unpublish, driver
  <1> QED
    BY <1>2, <1>3 DEF Unpublish

-----------------------------------------------------------------------------
(* The processes                                                           *)

LEMMA ServeKeeps ==
    ASSUME NodeInv, NEW v \in Volumes, NEW p \in ProcIds, Serve(v, p)
    PROVE  NodeInv'
  <1>1. /\ NodeTypes /\ VolumeOK(v) /\ state[v][p] = "starting" /\ p \in Alive(v)
        /\ UNCHANGED <<driver, binds, phase, visits, mishaps, survivors, lost>>
    BY DEF NodeInv, Serve, Alive
  <1>2. CASE /\ state' = [state EXCEPT ![v][p] = "serving"]
             /\ mounts' = [mounts EXCEPT ![v] = Append(@, p)]
    <2>1. Append(mounts[v], p) \in Seq(ProcIds)
      BY <1>1, AppendProperties DEF NodeTypes
    <2>2. NodeTypes' /\ mounts'[v] = Append(mounts[v], p)
      BY <1>1, <1>2, <2>1 DEF NodeTypes, driver, States
    <2>3. Alive(v)' = Alive(v)
      BY <1>1, <1>2 DEF Alive, NodeTypes
    <2>4. Held(v)'
      BY <1>1, <2>3 DEF VolumeOK, Held, driver
    <2>5. ASSUME ~lost'[v]
          PROVE  Accounted(v)'
      <3>1. Accounted(v) /\ handle[v] = p
        BY <1>1, <2>5 DEF VolumeOK, Accounted
      <3>2. lock # v
        BY <1>1, <3>1, NoProcIsNone DEF VolumeOK, Held
      <3>3. mounts[v] = <<>>
        BY <1>1, <3>1, <3>2 DEF Accounted
      <3>4. mounts'[v] = <<p>> /\ state'[v][p] # "starting"
        BY <1>1, <1>2, <2>2, <3>3 DEF NodeTypes
      <3> QED
        BY <1>1, <2>3, <3>1, <3>4, NoProcIsNone DEF Accounted, driver
    <2>6. VolumeOK(v)'
      BY <2>4, <2>5 DEF VolumeOK
    <2>7. \A u \in Volumes \ {v} : state'[u] = state[u] /\ mounts'[u] = mounts[u]
      BY <1>1, <1>2 DEF NodeTypes
    <2> QED
      BY <1>1, <2>2, <2>6, <2>7, StepOfOneVolume DEF driver
  <1>3. CASE state' = [state EXCEPT ![v][p] = "dead"] /\ UNCHANGED mounts
    <2>1. NodeTypes'
      BY <1>1, <1>3 DEF NodeTypes, driver, States
    <2>2. Alive(v)' = Alive(v) \ {p} /\ \A q \in ProcIds : state'[v][q] = "starting" => state[v][q] = "starting"
      BY <1>1, <1>3 DEF Alive, NodeTypes
    <2>3. VolumeOK(v)'
      BY <1>1, <1>3, <2>2 DEF VolumeOK, Held, Accounted, driver, NodeTypes
    <2>4. \A u \in Volumes \ {v} : state'[u] = state[u]
      BY <1>1, <1>3 DEF NodeTypes
    <2> QED
      BY <1>1, <1>3, <2>1, <2>3, <2>4, StepOfOneVolume DEF driver
  <1> QED
    BY <1>2, <1>3 DEF Serve

LEMMA DieKeeps ==
    ASSUME NodeInv, NEW v \in Volumes, NEW p \in ProcIds, Die(v, p)
    PROVE  NodeInv'
  <1>1. /\ NodeTypes /\ VolumeOK(v) /\ p \in Alive(v)
        /\ state' = [state EXCEPT ![v][p] = "dead"]
        /\ UNCHANGED <<driver, mounts, binds, phase, visits, survivors, lost>>
    BY DEF NodeInv, Die
  <1>2. NodeTypes'
    BY <1>1 DEF NodeTypes, driver, States, Die, Mishap
  <1>3. Alive(v)' = Alive(v) \ {p} /\ \A q \in ProcIds : state'[v][q] = "starting" => state[v][q] = "starting"
    BY <1>1 DEF Alive, NodeTypes
  <1>4. VolumeOK(v)'
    BY <1>1, <1>3 DEF VolumeOK, Held, Accounted, driver, NodeTypes
  <1>5. \A u \in Volumes \ {v} : state'[u] = state[u]
    BY <1>1 DEF NodeTypes
  <1> QED
    BY <1>1, <1>2, <1>4, <1>5, StepOfOneVolume DEF driver

LEMMA AutoUnmountKeeps ==
    ASSUME NodeInv, NEW v \in Volumes, AutoUnmount(v)
    PROVE  NodeInv'
  <1>1. /\ NodeTypes /\ VolumeOK(v) /\ mounts[v] # <<>>
        /\ mounts' = [mounts EXCEPT ![v] = Front(@)]
        /\ UNCHANGED <<driver, state, binds, phase, visits, mishaps, survivors, lost>>
    BY DEF NodeInv, AutoUnmount, Stale
  <1>2. /\ Front(mounts[v]) \in Seq(ProcIds)
        /\ Len(mounts[v]) = 1 => Front(mounts[v]) = <<>>
    BY <1>1, FrontFacts DEF NodeTypes
  <1>3. /\ NodeTypes' /\ mounts'[v] = Front(mounts[v])
        /\ \A u \in Volumes \ {v} : mounts'[u] = mounts[u]
    BY <1>1, <1>2 DEF NodeTypes, driver
  <1>4. Held(v)'
    BY <1>1 DEF VolumeOK, Held, Alive, driver
  <1>5. ASSUME ~lost'[v]
        PROVE  Accounted(v)'
    <2>1. Accounted(v)
      BY <1>1, <1>5 DEF VolumeOK
    <2>2. PICK p \in ProcIds : mounts[v] = <<p>>
      BY <1>1, <2>1 DEF Accounted
    <2>3. mounts'[v] = <<>>
      BY <1>2, <1>3, <2>2
    <2> QED
      BY <1>1, <2>1, <2>3 DEF Accounted, Alive, driver
  <1>6. VolumeOK(v)'
    BY <1>4, <1>5 DEF VolumeOK
  <1> QED
    BY <1>1, <1>3, <1>6, StepOfOneVolume DEF driver

-----------------------------------------------------------------------------
(* The driver's restart, and the kubelet                                   *)

LEMMA DriverRestartKeeps ==
    ASSUME NodeInv, DriverRestart
    PROVE  NodeInv'
  <1>1. PICK live \in BOOLEAN :
           /\ state' = [v \in Volumes |-> [p \in ProcIds |->
                  IF p \in Alive(v) /\ ~live THEN "dead" ELSE state[v][p]]]
           /\ survivors' = [v \in Volumes |->
                  IF live THEN survivors[v] \cup Alive(v) ELSE survivors[v]]
    BY DEF DriverRestart
  <1>2. /\ NodeTypes
        /\ lost' = [v \in Volumes |-> lost[v] \/ handle[v] # NoProc \/ lock = v]
        /\ handle' = [v \in Volumes |-> NoProc]
        /\ lock' = NoVolume /\ NoVolume \notin Volumes
        /\ UNCHANGED <<mounts, binds, phase, visits>>
    BY NodeAssumption DEF DriverRestart, NodeInv
  <1>3. NodeTypes'
    <2>1. state' \in [Volumes -> [ProcIds -> States]]
      BY <1>1, <1>2 DEF NodeTypes, States
    <2>2. survivors' \in [Volumes -> SUBSET ProcIds]
      BY <1>1, <1>2 DEF NodeTypes, Alive
    <2>3. lost' \in [Volumes -> BOOLEAN]
      BY <1>2, Zenon
    <2> QED
      BY <1>2, <2>1, <2>2, <2>3 DEF NodeTypes, DriverRestart, Mishap
  <1>4. ASSUME NEW v \in Volumes
        PROVE  VolumeOK(v)'
    <2>1. VolumeOK(v) /\ handle'[v] = NoProc /\ lock' # v
      BY <1>2, <1>4 DEF NodeInv
    <2>2. \A p \in ProcIds : state'[v][p] = IF p \in Alive(v) /\ ~live THEN "dead" ELSE state[v][p]
      BY <1>1
    <2>3. Alive(v)' \subseteq Alive(v) /\ Alive(v)' \subseteq survivors'[v]
      <3>1. CASE live = TRUE
        BY <1>1, <2>2, <3>1 DEF Alive
      <3>2. CASE live = FALSE
        BY <1>1, <2>2, <3>2 DEF Alive
      <3> QED
        BY <3>1, <3>2
    <2>4. Held(v)'
      BY <1>2, <2>1, <2>3 DEF VolumeOK, Held
    <2>5. ASSUME ~lost'[v]
          PROVE  Accounted(v)'
      <3>1. ~lost[v] /\ handle[v] = NoProc /\ lock # v
        BY <1>2, <2>5
      <3>2. Accounted(v) /\ mounts[v] = <<>>
        BY <2>1, <3>1 DEF VolumeOK, Accounted
      <3> QED
        BY <1>2, <2>1, <2>3, <3>1, <3>2 DEF Accounted
    <2> QED
      BY <2>4, <2>5 DEF VolumeOK
  <1> QED
    BY <1>3, <1>4 DEF NodeInv

LEMMA ArriveKeeps ==
    ASSUME NodeInv, NEW v \in Volumes, Arrive(v)
    PROVE  NodeInv'
  <1>1. /\ NodeTypes /\ VolumeOK(v) /\ phase[v] = "away"
        /\ phase' = [phase EXCEPT ![v] = "stage"]
        /\ visits' = [visits EXCEPT ![v] = @ + 1]
        /\ lost' = [lost EXCEPT ![v] = lost[v] /\ ~Gone(v)]
        /\ UNCHANGED <<driver, os, mishaps, survivors>>
    BY DEF NodeInv, Arrive
  <1>2. /\ lost' \in [Volumes -> BOOLEAN]
        /\ ~lost'[v] => ~lost[v] \/ Gone(v)
        /\ \A u \in Volumes \ {v} : lost'[u] = lost[u]
    <2>1. lost \in [Volumes -> BOOLEAN] /\ lost' = [lost EXCEPT ![v] = lost[v] /\ ~Gone(v)]
      BY <1>1 DEF NodeTypes
    <2>2. (lost[v] /\ ~Gone(v)) \in BOOLEAN
      OBVIOUS
    <2> QED
      BY <2>1, <2>2, Zenon
  <1>3. /\ NodeTypes' /\ phase'[v] = "stage"
        /\ \A u \in Volumes \ {v} : phase'[u] = phase[u]
    BY <1>1, <1>2 DEF NodeTypes, driver, os, Phases
  <1>4. Held(v)'
    BY <1>1, <1>3 DEF VolumeOK, Held, Alive, driver, os
  <1>5. ASSUME ~lost'[v]
        PROVE  Accounted(v)'
    <2>1. CASE ~lost[v]
      BY <1>1, <1>3, <2>1 DEF VolumeOK, Accounted, Alive, driver, os
    <2>2. CASE Gone(v)
      BY <1>1, <1>3, <2>2 DEF Gone, Accounted, Alive, driver, os
    <2> QED
      BY <1>2, <1>5, <2>1, <2>2
  <1>6. VolumeOK(v)'
    BY <1>4, <1>5 DEF VolumeOK
  <1> QED
    BY <1>1, <1>2, <1>3, <1>6, StepOfOneVolume DEF driver, os

LEMMA LeaveKeeps ==
    ASSUME NodeInv, NEW v \in Volumes, Leave(v)
    PROVE  NodeInv'
  <1>1. /\ NodeTypes /\ VolumeOK(v) /\ phase[v] \in {"stage", "publish", "use"}
        /\ phase' = [phase EXCEPT ![v] = IF phase[v] = "stage" THEN "unstage" ELSE "unpublish"]
        /\ UNCHANGED <<driver, os, visits, mishaps, survivors, lost>>
    BY DEF NodeInv, Leave
  <1>2. /\ NodeTypes'
        /\ phase'[v] = IF phase[v] = "stage" THEN "unstage" ELSE "unpublish"
        /\ \A u \in Volumes \ {v} : phase'[u] = phase[u]
    BY <1>1 DEF NodeTypes, driver, os, Phases
  <1>3. VolumeOK(v)'
    BY <1>1, <1>2 DEF VolumeOK, Held, Accounted, Alive, driver, os
  <1> QED
    BY <1>1, <1>2, <1>3, StepOfOneVolume DEF driver, os

-----------------------------------------------------------------------------

LEMMA NodeInitially == NodeInit => NodeInv
  <1> SUFFICES ASSUME NodeInit PROVE NodeInv
    OBVIOUS
  <1>1. NodeTypes
    BY DEF NodeInit, NodeTypes, States, Phases
  <1>2. ASSUME NEW v \in Volumes
        PROVE  VolumeOK(v)
    BY NodeAssumption DEF NodeInit, VolumeOK, Held, Accounted, Alive
  <1> QED
    BY <1>1, <1>2 DEF NodeInv

LEMMA NodeStep == NodeInv /\ [NodeNext]_nodeVars => NodeInv'
  <1> SUFFICES ASSUME NodeInv, [NodeNext]_nodeVars PROVE NodeInv'
    OBVIOUS
  <1>1. ASSUME NEW v \in Volumes, Stage(v) PROVE NodeInv'
    BY <1>1, StageKeeps
  <1>2. ASSUME NEW v \in Volumes, Unstage(v) PROVE NodeInv'
    BY <1>2, UnstageKeeps
  <1>3. ASSUME NEW v \in Volumes, Fusermount(v) PROVE NodeInv'
    BY <1>3, FusermountKeeps
  <1>4. ASSUME NEW v \in Volumes, Publish(v) PROVE NodeInv'
    BY <1>4, PublishKeeps
  <1>5. ASSUME NEW v \in Volumes, Unpublish(v) PROVE NodeInv'
    BY <1>5, UnpublishKeeps
  <1>6. ASSUME NEW v \in Volumes, AutoUnmount(v) PROVE NodeInv'
    BY <1>6, AutoUnmountKeeps
  <1>7. ASSUME NEW v \in Volumes, Arrive(v) PROVE NodeInv'
    BY <1>7, ArriveKeeps
  <1>8. ASSUME NEW v \in Volumes, Leave(v) PROVE NodeInv'
    BY <1>8, LeaveKeeps
  <1>9. ASSUME NEW v \in Volumes, NEW p \in ProcIds, Serve(v, p) \/ Die(v, p) PROVE NodeInv'
    BY <1>9, ServeKeeps, DieKeeps
  <1>10. CASE DriverRestart
    BY <1>10, DriverRestartKeeps
  <1>11. CASE UNCHANGED nodeVars
    BY <1>11 DEF nodeVars, driver, os, NodeInv, NodeTypes, VolumeOK, Held, Accounted, Alive
  <1> QED
    BY <1>1, <1>2, <1>3, <1>4, <1>5, <1>6, <1>7, <1>8, <1>9, <1>10, <1>11 DEF NodeNext

LEMMA NodeInvariant == NodeSpec => []NodeInv
  BY NodeInitially, NodeStep, PTL DEF NodeSpec

\* However the kubelet repeats, abandons and overtakes its calls, and whatever
\* dies or restarts, every process that runs for a volume is the one its handle
\* names or one that outlived an earlier driver: mount spawns only without a
\* handle, and unmount takes the handle out only with the process killed.
THEOREM ServedByOneProcess == NodeSpec => []OneProcessPerVolume
  <1>1. NodeInv => OneProcessPerVolume
    BY DEF NodeInv, VolumeOK, Held, OneProcessPerVolume
  <1> QED
    BY <1>1, NodeInvariant, PTL

\* When node_unstage_volume has answered OK, no process of this driver runs for
\* the volume, and nothing is mounted or bound for it except what a restart, a
\* refused unmount or a repeated publish has already lost.
THEOREM UnstagedVolumesAreGone == NodeSpec => []UnstagedMeansGone
  <1>1. NodeInv => UnstagedMeansGone
    <2> SUFFICES ASSUME NodeInv, NEW v \in Volumes, phase[v] = "away"
                 PROVE  Alive(v) \subseteq survivors[v] /\ (~lost[v] => Gone(v))
      BY DEF UnstagedMeansGone
    <2>1. VolumeOK(v) /\ handle[v] = NoProc /\ lock # v /\ NoProc \notin Alive(v)
      BY NoProcIsNone DEF NodeInv, VolumeOK, Held, Alive
    <2>2. Alive(v) \subseteq survivors[v]
      BY <2>1 DEF VolumeOK, Held
    <2>3. ASSUME ~lost[v]
          PROVE  Gone(v)
      BY <2>1, <2>3 DEF VolumeOK, Accounted, Gone
    <2> QED
      BY <2>2, <2>3
  <1> QED
    BY <1>1, NodeInvariant, PTL

==============================================================================
