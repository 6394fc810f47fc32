------------------------ MODULE DocumentsRefinement ------------------------
(***************************************************************************)
(* Proof that Documents implements DocumentLibrary, and that the quota     *)
(* holds, for any number of documents of any sizes, when the few requests  *)
(* that matter to each other do not overlap.                               *)
(***************************************************************************)
EXTENDS DocumentsProofs, FiniteSetTheorems

-----------------------------------------------------------------------------
(* The sum of the sizes of a finite set of documents.                      *)

\* The sum of the sizes that rows m give the documents of D.
SumOf(m, D) == MapThenSumSet(LAMBDA d : m[d].size, D)

\* As many pairs for each document as it has bytes: what the sum counts.
Units(m, D) == UNION {{d} \X (1..m[d].size) : d \in D}

\* The documents of an employee, by rows m.
Owned(m, e) == {d \in Doc : m[d] # None /\ caseEmployee[m[d].case] = e}

\* They are finitely many.
LEMMA UnitsFinite ==
  ASSUME NEW m, NEW D, IsFiniteSet(D), \A d \in D : m[d].size \in Nat
  PROVE  IsFiniteSet(Units(m, D))
<1> DEFINE part == [d \in D |-> {d} \X (1..m[d].size)]
           Parts == {{d} \X (1..m[d].size) : d \in D}
<1>1. part \in Surjection(D, Parts)
  BY DEF Surjection
<1>2. IsFiniteSet(Parts)
  BY <1>1, FS_Surjection
<1>3. ASSUME NEW p \in Parts PROVE IsFiniteSet(p)
  <2>1. PICK d \in D : p = {d} \X (1..m[d].size)
    OBVIOUS
  <2> DEFINE name == {d}
             bytes == 1..m[d].size
  <2>2. IsFiniteSet(name) /\ IsFiniteSet(bytes)
    <3>1. IsFiniteSet(name)
      BY FS_Singleton
    <3>2. m[d].size \in Int
      OBVIOUS
    <3>3. IsFiniteSet(bytes)
      BY <3>2, FS_Interval
    <3>4. QED
      BY <3>1, <3>3
  <2>3. p = name \X bytes
    BY <2>1
  <2> HIDE DEF name, bytes
  <2>4. QED
    BY <2>2, <2>3, FS_Product
<1>4. QED
  BY <1>2, <1>3, FS_UNION DEF Units

\* Those of one document, and those of the others.
LEMMA UnitsSplit ==
  ASSUME NEW m, NEW D, IsFiniteSet(D), \A d \in D : m[d].size \in Nat, NEW x \in D
  PROVE  /\ Cardinality(Units(m, D)) \in Nat
         /\ Cardinality(Units(m, D)) = m[x].size + Cardinality(Units(m, D \ {x}))
<1> DEFINE own == {x} \X (1..m[x].size)
           rest == Units(m, D \ {x})
<1>1. IsFiniteSet(own) /\ Cardinality(own) = m[x].size
  <2> DEFINE name == {x}
             bytes == 1..m[x].size
  <2>1. /\ IsFiniteSet(name) /\ Cardinality(name) = 1
        /\ IsFiniteSet(bytes) /\ Cardinality(bytes) = m[x].size
    <3>1. IsFiniteSet(name) /\ Cardinality(name) = 1
      BY FS_Singleton
    <3>2. m[x].size \in Int /\ m[x].size >= 0
      OBVIOUS
    <3>3. /\ IsFiniteSet(bytes)
          /\ Cardinality(bytes) = IF 1 > m[x].size THEN 0 ELSE m[x].size - 1 + 1
      BY <3>2, FS_Interval
    <3>4. QED
      BY <3>1, <3>2, <3>3
  <2>2. own = name \X bytes
    OBVIOUS
  <2> HIDE DEF name, bytes, own
  <2>3. IsFiniteSet(own) /\ Cardinality(own) = 1 * m[x].size
    BY <2>1, <2>2, FS_Product
  <2>4. 1 * m[x].size = m[x].size
    OBVIOUS
  <2>5. QED
    BY <2>3, <2>4
<1>2. IsFiniteSet(rest) /\ IsFiniteSet(D \ {x})
  BY FS_Difference, UnitsFinite
<1>3. Units(m, D) = own \cup rest
  BY DEF Units
<1>4. own \cap rest = {}
  BY DEF Units
<1>5. QED
  <2> HIDE DEF own, rest
  <2>1. Cardinality(own \cap rest) = 0
    BY <1>4, FS_EmptySet
  <2>2. Cardinality(rest) \in Nat
    BY <1>2, FS_CardinalityType
  <2>3. Cardinality(Units(m, D)) = Cardinality(own) + Cardinality(rest) - Cardinality(own \cap rest)
    BY <1>1, <1>2, <1>3, FS_Union
  <2>4. QED
    BY <1>1, <2>1, <2>2, <2>3 DEF rest

\* The fold that defines the sum takes any order of the documents; it comes to the
\* number of pairs, which depends on none.  The recursive function inside the fold
\* is the one that satisfies its equation, as "count" does; that the two agree is
\* seen at a smallest set where they would not.
LEMMA SumIsCount ==
  ASSUME NEW m, NEW D, IsFiniteSet(D), \A d \in D : m[d].size \in Nat
  PROVE  SumOf(m, D) = Cardinality(Units(m, D))
<1> DEFINE first(s) == CHOOSE x \in s : TRUE
           Sums(g) == g = [s \in SUBSET D |-> IF s = {} THEN 0
                             ELSE m[first(s)].size + g[s \ {first(s)}]]
           iter == CHOOSE g : Sums(g)
           count == [s \in SUBSET D |-> Cardinality(Units(m, s))]
<1>1. SumOf(m, D) = iter[D]
  BY DEF SumOf, MapThenSumSet, MapThenFoldSet
<1>2. ASSUME NEW s \in SUBSET D, s # {}
      PROVE  first(s) \in s
  BY <1>2
<1>3. Sums(count)
  <2>1. ASSUME NEW s \in SUBSET D
        PROVE  count[s] = IF s = {} THEN 0
                          ELSE m[first(s)].size + count[s \ {first(s)}]
    <3>1. CASE s = {}
      <4>1. Units(m, s) = {}
        BY <3>1 DEF Units
      <4>2. QED
        BY <3>1, <4>1, FS_EmptySet
    <3>2. CASE s # {}
      <4>1. IsFiniteSet(s) /\ \A d \in s : m[d].size \in Nat
        BY FS_Subset
      <4>2. first(s) \in s
        BY <1>2, <3>2
      <4> HIDE DEF first
      <4>3. QED
        BY <3>2, <4>1, <4>2, UnitsSplit
    <3>3. QED
      BY <3>1, <3>2
  <2> HIDE DEF first
  <2>2. QED
    BY <2>1
<1>4. Sums(iter)
  <2> HIDE DEF Sums, count
  <2>1. QED
    BY <1>3
<1>5. \A s \in SUBSET D : iter[s] = count[s]
  <2> DEFINE T == {s \in SUBSET D : iter[s] # count[s]}
             R == StrictSubsetOrdering(D)
  <2> HIDE DEF iter, first
  <2> SUFFICES ASSUME T # {} PROVE FALSE
    OBVIOUS
  <2>1. IsWellFoundedOn(R, SUBSET D)
    BY FS_StrictSubsetOrderingWellFounded, FS_FiniteSubsetsOfFinite
  <2>2. PICK s \in T : \A t \in T : <<t, s>> \notin R
    <3> HIDE DEF R
    <3>1. QED
      BY <2>1, WFMin
  <2>3. CASE s = {}
    BY <1>3, <1>4, <2>3
  <2>4. CASE s # {}
    <3>1. first(s) \in s
      BY <1>2, <2>4
    <3>2. s \ {first(s)} \in SUBSET D /\ <<s \ {first(s)}, s>> \in R
      BY <3>1 DEF StrictSubsetOrdering
    <3>3. iter[s \ {first(s)}] = count[s \ {first(s)}]
      BY <2>2, <3>2
    <3>4. QED
      BY <1>3, <1>4, <2>4, <3>3
  <2>5. QED
    BY <2>3, <2>4
<1>6. QED
  BY <1>1, <1>5
\* What the sum does when a document is taken out of the set, and when the rows change.
LEMMA SumSplit ==
  ASSUME NEW m, NEW D, IsFiniteSet(D), \A d \in D : m[d].size \in Nat, NEW x \in D
  PROVE  /\ SumOf(m, D) \in Nat /\ SumOf(m, D \ {x}) \in Nat
         /\ SumOf(m, D) = m[x].size + SumOf(m, D \ {x})
<1>1. IsFiniteSet(D \ {x}) /\ \A d \in D \ {x} : m[d].size \in Nat
  BY FS_Difference
<1>2. /\ SumOf(m, D) = Cardinality(Units(m, D))
      /\ SumOf(m, D \ {x}) = Cardinality(Units(m, D \ {x}))
  BY <1>1, SumIsCount
<1>3. Cardinality(Units(m, D \ {x})) \in Nat
  BY <1>1, UnitsFinite, FS_CardinalityType
<1>4. QED
  BY <1>2, <1>3, UnitsSplit

LEMMA SumSame ==
  ASSUME NEW m, NEW n, NEW D, IsFiniteSet(D),
         \A d \in D : m[d].size \in Nat /\ n[d].size = m[d].size
  PROVE  SumOf(n, D) = SumOf(m, D)
<1>1. \A d \in D : m[d].size \in Nat /\ n[d].size \in Nat
  OBVIOUS
<1>2. Units(n, D) = Units(m, D)
  BY DEF Units
<1>3. QED
  BY <1>1, <1>2, SumIsCount

\* The bytes of an employee as a sum, before and after a step, and in the library.
LEMMA UsedIsSum ==
  ASSUME NEW e
  PROVE  /\ UsedBytes(e) = SumOf(meta, Owned(meta, e))
         /\ UsedBytes(e)' = SumOf(meta', Owned(meta', e))
         /\ Library!Used(e) = SumOf(meta, Owned(meta, e))
<1>1. UsedBytes(e) = SumOf(meta, Owned(meta, e))
  BY DEF UsedBytes, SumOf, Owned, Exists, MapThenSumSet, MapThenFoldSet
<1>2. UsedBytes(e)' = SumOf(meta', Owned(meta', e))
  BY DEF UsedBytes, SumOf, Owned, Exists, MapThenSumSet, MapThenFoldSet
<1>3. Library!Used(e) = SumOf(meta, Owned(meta, e))
  BY DEF Library!Used, Library!Holding, SumOf, Owned, MapThenSumSet, MapThenFoldSet,
         Library!MapThenSumSet, Library!MapThenFoldSet
<1>4. QED
  BY <1>1, <1>2, <1>3

\* There are finitely many rows, so that they have a sum.
FinitelyMany == IsFiniteSet({d \in Doc : Exists(d)})

LEMMA OwnedFinite ==
  ASSUME NEW m, NEW e, IsFiniteSet({d \in Doc : m[d] # None}), m \in [Doc -> Row \cup {None}]
  PROVE  IsFiniteSet(Owned(m, e)) /\ \A d \in Owned(m, e) : m[d].size \in Nat
<1>1. Owned(m, e) \subseteq {d \in Doc : m[d] # None}
  BY DEF Owned
<1>2. \A d \in Owned(m, e) : m[d] \in Row
  BY DEF Owned
<1>3. \A d \in Owned(m, e) : m[d].size \in Nat
  BY <1>2 DEF Row
<1>4. QED
  BY <1>1, <1>3, FS_Subset

\* What one document takes of its employee's bytes, by rows m.
Share(m, d, e) == IF d \in Owned(m, e) THEN m[d].size ELSE 0

\* When one row changes, the bytes of an employee change by what that row takes.
LEMMA OneRowChanges ==
  ASSUME TypeOK, TypeOK', FinitelyMany, NEW d \in Doc, NEW e,
         \A x \in Doc \ {d} : meta'[x] = meta[x]
  PROVE  /\ FinitelyMany'
         /\ \E rest \in Nat : /\ UsedBytes(e)  = Share(meta, d, e) + rest
                              /\ UsedBytes(e)' = Share(meta', d, e) + rest
<1> DEFINE O == Owned(meta, e)
           N == Owned(meta', e)
           R == Owned(meta, e) \ {d}
           rows == {x \in Doc : meta[x] # None}
           rowsNext == {x \in Doc : meta'[x] # None}
<1>1. IsFiniteSet(rows) /\ IsFiniteSet(rowsNext)
  <2>1. rows = {x \in Doc : Exists(x)}
    BY DEF Exists
  <2>2. IsFiniteSet(rows)
    BY <2>1 DEF FinitelyMany
  <2>3. rowsNext \subseteq rows \cup {d}
    OBVIOUS
  <2> HIDE DEF rows, rowsNext
  <2>4. QED
    BY <2>2, <2>3, FS_AddElement, FS_Subset
<1>2. FinitelyMany'
  BY <1>1 DEF FinitelyMany, Exists
<1>3. /\ IsFiniteSet(O) /\ \A x \in O : meta[x].size \in Nat
      /\ IsFiniteSet(N) /\ \A x \in N : meta'[x].size \in Nat
  BY <1>1, OwnedFinite DEF TypeOK
<1>4. R = N \ {d} /\ R = O \ {d}
  BY DEF Owned
<1>5. IsFiniteSet(R) /\ \A x \in R : meta[x].size \in Nat /\ meta'[x].size = meta[x].size
  BY <1>3, FS_Difference DEF Owned
<1> HIDE DEF O, N, R
<1>6. SumOf(meta', R) = SumOf(meta, R)
  BY <1>5, SumSame
<1>7. SumOf(meta, R) \in Nat
  BY <1>5, SumIsCount, UnitsFinite, FS_CardinalityType
<1>8. SumOf(meta, O) = Share(meta, d, e) + SumOf(meta, R)
  <2>1. CASE d \in O
    <3>1. SumOf(meta, O) = meta[d].size + SumOf(meta, O \ {d})
      BY <1>3, <2>1, SumSplit
    <3>2. QED
      BY <1>4, <2>1, <3>1 DEF Share, O
  <2>2. CASE d \notin O
    <3>1. R = O /\ Share(meta, d, e) = 0
      BY <1>4, <2>2 DEF Share, O
    <3>2. QED
      BY <1>7, <3>1
  <2>3. QED
    BY <2>1, <2>2
<1>9. SumOf(meta', N) = Share(meta', d, e) + SumOf(meta, R)
  <2>1. CASE d \in N
    <3>1. SumOf(meta', N) = meta'[d].size + SumOf(meta', N \ {d})
      BY <1>3, <2>1, SumSplit
    <3>2. QED
      BY <1>4, <1>6, <2>1, <3>1 DEF Share, N
  <2>2. CASE d \notin N
    <3>1. R = N /\ Share(meta', d, e) = 0
      BY <1>4, <2>2 DEF Share, N
    <3>2. QED
      BY <1>6, <1>7, <3>1
  <2>3. QED
    BY <2>1, <2>2
<1>10. UsedBytes(e) = SumOf(meta, O) /\ UsedBytes(e)' = SumOf(meta', N)
  BY UsedIsSum DEF O, N
<1>11. QED
  BY <1>2, <1>7, <1>8, <1>9, <1>10

\* Every step changes at most one row.
LEMMA RowsStayFinite ==
  ASSUME TypeOK, TypeOK', FinitelyMany, [Next]_vars
  PROVE  FinitelyMany'
<1> USE DocumentsAssumption
<1>0. \A q \in Request : pc[q] # "idle" => call[q] \in Calls
  BY DEF TypeOK
<1>1. ASSUME NEW r \in Request, Insert(r) \/ Resize(r) \/ Mark(r) \/ Delete(r)
      PROVE  FinitelyMany'
  <2>1. \E d \in Doc : \A x \in Doc \ {d} : meta'[x] = meta[x]
    <3>1. CASE Insert(r)
      BY <3>1 DEF Insert, TypeOK, Doc
    <3>2. CASE Resize(r) \/ Mark(r) \/ Delete(r)
      <4>1. call[r] \in Calls /\ call[r].op \in {"saveUpload", "review", "remove"}
        BY <1>0, <3>2 DEF Resize, Mark, Delete, Goto, TypeOK
      <4>2. call[r].doc \in Doc
        BY <4>1, CallFields
      <4>3. \A x \in Doc \ {call[r].doc} : meta'[x] = meta[x]
        BY <3>2 DEF Resize, Mark, Delete, TypeOK
      <4>4. QED
        BY <4>2, <4>3
    <3>3. QED
      BY <1>1, <3>1, <3>2
  <2>2. QED
    BY <2>1, OneRowChanges
<1>2. CASE UNCHANGED meta
  BY <1>2 DEF FinitelyMany, Exists
<1>3. QED
  BY <1>1, <1>2 DEF Next, Step, vars, tables, Arrive, Load, Refuse, Sum, RefuseQuota, Store,
     Erase, EraseFails, Count, ResetTask, RowGone, AppendAudit, Lose, Expire, PutObject

LEMMA FiniteInit == Init => FinitelyMany
<1> SUFFICES ASSUME Init PROVE FinitelyMany
  OBVIOUS
<1> DEFINE rows == {d \in Doc : Exists(d)}
<1>1. rows \subseteq OldDoc
  BY DEF Init, Exists
<1> HIDE DEF rows
<1>2. IsFiniteSet(rows)
  BY <1>1, FS_Subset, DocumentsAssumption
<1>3. QED
  BY <1>2 DEF FinitelyMany, rows

-----------------------------------------------------------------------------
(* What a request has checked holds until it writes.                       *)

\* A request that does not run relies on nothing.
LEMMA IdleSecured ==
  ASSUME NEW r \in Request
  PROVE  ~Running(r) => Secured(r)
BY DEF Secured, Running, PC

\* The quota admits what it admitted, as long as no row changes.
LEMMA QuotaStays ==
  ASSUME NEW r \in Request, UNCHANGED meta, call'[r] = call[r], row'[r] = row[r]
  PROVE  QuotaAllows(r)' = QuotaAllows(r)
<1>1. \A e : UsedBytes(e)' = UsedBytes(e)
  BY UsedIsSum
<1>2. QED
  BY <1>1 DEF QuotaAllows, WithinQuota

LEMMA SecuredStays ==
  ASSUME NEW r \in Request, Secured(r), UNCHANGED meta,
         call'[r] = call[r], row'[r] = row[r], pc'[r] = pc[r]
  PROVE  Secured(r)'
BY QuotaStays DEF Secured, Exists

\* What a step does to the rows: one row changes, and only the employee whose quota
\* the request was admitted to can come to have more bytes.
LEMMA OneEmployeeGrows ==
  ASSUME TypeOK, TypeOK', RowsFit, FinitelyMany,
         NEW r \in Request, Insert(r) \/ Resize(r) \/ Mark(r) \/ Delete(r),
         NEW e, Admitting(r) => ChargedTo(r) # e
  PROVE  UsedBytes(e) \in Nat /\ UsedBytes(e)' \in Nat /\ UsedBytes(e)' <= UsedBytes(e)
<1> USE DocumentsAssumption
<1>0. pc[r] # "idle" /\ call[r] \in Calls
  BY DEF Insert, Resize, Mark, Delete, Goto, TypeOK
<1>1. ASSUME NEW d \in Doc, \A x \in Doc \ {d} : meta'[x] = meta[x],
             Share(meta', d, e) <= Share(meta, d, e)
      PROVE  UsedBytes(e) \in Nat /\ UsedBytes(e)' \in Nat /\ UsedBytes(e)' <= UsedBytes(e)
  <2>1. PICK rest \in Nat : /\ UsedBytes(e)  = Share(meta, d, e) + rest
                            /\ UsedBytes(e)' = Share(meta', d, e) + rest
    BY <1>1, OneRowChanges
  <2>2. Share(meta, d, e) \in Nat /\ Share(meta', d, e) \in Nat
    <3>1. meta[d] # None => meta[d] \in Row
      BY DEF TypeOK
    <3>2. meta'[d] # None => meta'[d] \in Row
      BY DEF TypeOK
    <3>3. (meta[d] # None => meta[d].size \in Nat) /\ (meta'[d] # None => meta'[d].size \in Nat)
      BY <3>1, <3>2 DEF Row
    <3>4. QED
      BY <3>3 DEF Share, Owned
  <2>3. QED
    BY <1>1, <2>1, <2>2
<1>2. CASE Insert(r)
  <2>1. /\ r \in Doc /\ call[r].op = "register" /\ Admitting(r)
        /\ \A x \in Doc \ {r} : meta'[x] = meta[x]
        /\ meta'[r].case = call[r].case
    BY <1>2 DEF Insert, Goto, TypeOK, Doc, Admitting
  <2>2. Share(meta', r, e) = 0
    BY <2>1 DEF Share, Owned, ChargedTo
  <2>3. meta[r] # None => meta[r] \in Row
    BY <2>1 DEF TypeOK
  <2>4. meta[r] # None => meta[r].size \in Nat
    BY <2>3 DEF Row
  <2>5. Share(meta', r, e) <= Share(meta, r, e)
    BY <2>2, <2>4 DEF Share, Owned
  <2>6. QED
    BY <1>1, <2>1, <2>5
<1>3. CASE Resize(r) \/ Mark(r)
  <2> DEFINE d == call[r].doc
  <2>1. /\ d \in Doc /\ meta[d] \in Row /\ meta[d] # None
        /\ \A x \in Doc \ {d} : meta'[x] = meta[x]
    <3>1. call[r].op \in {"saveUpload", "review"} /\ Exists(d)
      BY <1>3 DEF Resize, Mark, Goto, TypeOK
    <3>2. d \in Doc
      BY <1>0, <3>1, CallFields
    <3>3. \A x \in Doc \ {d} : meta'[x] = meta[x]
      BY <1>3 DEF Resize, Mark, TypeOK
    <3>4. QED
      BY <3>1, <3>2, <3>3 DEF Exists, TypeOK
  <2>2. meta'[d].case = meta[d].case /\ meta[d].size \in Nat /\ meta'[d] # None
    BY <1>3, <2>1, RowEdit DEF Unmoved, Exists, Row
  <2>3. CASE Resize(r)
    <3>1. Admitting(r) /\ row[r] # None /\ call[r].op = "saveUpload"
      BY <2>3 DEF Resize, Goto, TypeOK, Admitting, Running, PC
    <3>2. caseEmployee[meta[d].case] # e
      BY <2>1, <3>1 DEF RowsFit, ChargedTo, Exists
    <3>3. Share(meta', d, e) = 0 /\ Share(meta, d, e) = 0
      BY <2>2, <3>2 DEF Share, Owned
    <3>4. QED
      BY <1>1, <2>1, <3>3
  <2>4. CASE Mark(r)
    <3>1. meta'[d] = [meta[d] EXCEPT !.review = call[r].verdict]
      BY <2>1, <2>4 DEF Mark, TypeOK
    <3>2. meta'[d].size = meta[d].size
      BY <2>1, <3>1 DEF Row
    <3>3. Share(meta', d, e) = Share(meta, d, e)
      BY <2>1, <2>2, <3>2 DEF Share, Owned
    <3>4. Share(meta, d, e) \in Nat
      BY <2>2 DEF Share
    <3>5. QED
      BY <1>1, <2>1, <3>3, <3>4
  <2>5. QED
    BY <1>3, <2>3, <2>4
<1>4. CASE Delete(r)
  <2> DEFINE d == call[r].doc
  <2>1. /\ call[r].op = "remove" /\ Exists(d)
        /\ \A x \in Doc \ {d} : meta'[x] = meta[x]
    BY <1>4 DEF Delete, Goto, TypeOK
  <2>2. d \in Doc /\ meta[d] \in Row
    BY <1>0, <2>1, CallFields DEF Exists, TypeOK
  <2>3. meta'[d] = None /\ meta[d].size \in Nat
    BY <1>4, <2>2 DEF Delete, TypeOK, Row
  <2>4. Share(meta', d, e) <= Share(meta, d, e)
    BY <2>3 DEF Share, Owned
  <2>5. QED
    BY <1>1, <2>1, <2>2, <2>4
<1>5. QED
  BY <1>2, <1>3, <1>4

\* When one request writes, the others can still rely on what they have checked:
\* none of them is admitted to the quota of the same employee.
LEMMA OthersSecured ==
  ASSUME TypeOK, TypeOK', RowsFit, FinitelyMany, QuotaApart,
         NEW r \in Request, Insert(r) \/ Resize(r) \/ Mark(r) \/ Delete(r),
         NEW q \in Request \ {r}, Secured(q)
  PROVE  Secured(q)'
<1> USE DocumentsAssumption
<1> DEFINE k == call[q]
<1>1. UNCHANGED <<call, row>> /\ pc'[q] = pc[q]
  BY DEF Insert, Resize, Mark, Delete, Goto, TypeOK
<1>2. /\ pc[r] # "idle" /\ call[r] \in Calls
      /\ pc[q] # "idle" => k \in Calls
  BY DEF Insert, Resize, Mark, Delete, Goto, TypeOK
<1>3. Admitting(q) /\ Admitting(r) => ChargedTo(q) # ChargedTo(r)
  BY DEF QuotaApart
<1>4. ASSUME pc[q] \in {"insert", "store", "resize"} PROVE QuotaAllows(q)'
  <2>1. /\ k \in Calls /\ Admitting(q) /\ QuotaAllows(q)
        /\ k.op = "register" \/ (k.op = "saveUpload" /\ row[q] \in Row)
    BY <1>2, <1>4 DEF Secured, Admitting, TypeOK, Running, PC
  <2> PICK e : e = ChargedTo(q)
    OBVIOUS
  <2>2. UsedBytes(e) \in Nat /\ UsedBytes(e)' \in Nat /\ UsedBytes(e)' <= UsedBytes(e)
    BY <1>3, <2>1, OneEmployeeGrows
  <2>3. k.size \in Nat /\ Quota \in Nat
    BY <2>1, CallFields
  <2>4. CASE k.op = "register"
    BY <1>1, <2>1, <2>2, <2>3, <2>4 DEF QuotaAllows, WithinQuota, ChargedTo
  <2>5. CASE k.op = "saveUpload"
    <3>1. row[q].size \in Nat
      BY <2>1, <2>5 DEF Row
    <3>2. QED
      BY <1>1, <2>1, <2>2, <2>3, <2>5, <3>1 DEF QuotaAllows, WithinQuota, ChargedTo
  <2>6. QED
    BY <2>1, <2>4, <2>5
<1>5. ASSUME pc[q] \in {"sum", "store", "resize"}, k.op = "saveUpload", meta'[k.doc] # None
      PROVE  meta'[k.doc].size = row[q].size
  <2>1. /\ k \in Calls /\ k.doc \in Doc /\ row[q] # None /\ Admitting(q)
        /\ k.doc \in Request => ~Unregistered(k.doc)
    <3>1. k \in Calls /\ row[q] # None /\ Admitting(q)
      BY <1>2, <1>5 DEF TypeOK, Admitting, Running, PC
    <3>2. k.doc \in Doc
      BY <1>5, <3>1, CallFields
    <3>3. QED
      BY <3>1, <3>2 DEF RowsFit
  <2>2. CASE Insert(r)
    <3>1. Unregistered(r) /\ \A x \in Doc \ {r} : meta'[x] = meta[x]
      BY <2>2 DEF Insert, Goto, TypeOK, Unregistered
    <3>2. QED
      BY <1>5, <2>1, <3>1 DEF Secured, Exists
  <2>3. CASE Resize(r)
    <3>1. /\ pc[r] = "resize" /\ call[r].op = "saveUpload" /\ row[r] # None /\ Admitting(r)
          /\ Exists(call[r].doc) /\ \A x \in Doc \ {call[r].doc} : meta'[x] = meta[x]
      BY <2>3 DEF Resize, Goto, TypeOK, Admitting, Running, PC
    <3>2. k.doc = call[r].doc => ChargedTo(q) = ChargedTo(r)
      BY <1>5, <2>1, <3>1 DEF RowsFit, ChargedTo
    <3>3. k.doc # call[r].doc
      BY <1>3, <2>1, <3>1, <3>2
    <3>4. QED
      BY <1>5, <2>1, <3>1, <3>3 DEF Secured, Exists
  <2>4. CASE Mark(r)
    <3>1. Exists(call[r].doc) /\ call[r].op = "review"
      BY <2>4 DEF Mark, Goto, TypeOK
    <3>2. call[r].doc \in Doc /\ meta[call[r].doc] \in Row
      BY <1>2, <3>1, CallFields DEF Exists, TypeOK
    <3>3. /\ \A x \in Doc \ {call[r].doc} : meta'[x] = meta[x]
          /\ meta'[call[r].doc] = [meta[call[r].doc] EXCEPT !.review = call[r].verdict]
      BY <2>4, <3>2 DEF Mark, TypeOK
    <3>4. meta'[call[r].doc].size = meta[call[r].doc].size
      BY <3>2, <3>3 DEF Row
    <3>5. QED
      BY <1>5, <2>1, <3>1, <3>3, <3>4 DEF Secured, Exists
  <2>5. CASE Delete(r)
    <3>1. \A x \in Doc : meta'[x] = meta[x] \/ meta'[x] = None
      BY <2>5 DEF Delete, TypeOK
    <3>2. QED
      BY <1>5, <2>1, <3>1 DEF Secured, Exists
  <2>6. QED
    BY <2>2, <2>3, <2>4, <2>5
<1>6. QED
  BY <1>1, <1>4, <1>5 DEF Secured, Exists, FileSizeOk

\* As long as no two requests are admitted to the quota of one employee, checks hold.
LEMMA ChecksStep ==
  ASSUME TypeOK, TypeOK', RowsFit, FinitelyMany, QuotaApart, ChecksHold, [Next]_vars
  PROVE  ChecksHold'
<1> USE DocumentsAssumption
<1>0. \A q \in Request : pc[q] # "idle" => call[q] \in Calls
  BY DEF TypeOK
<1>1. ASSUME NEW r \in Request, Arrive(r) \/ Step(r) \/ Lose(r), Secured(r)'
      PROVE  ChecksHold'
  <2>1. \A q \in Request \ {r} : pc'[q] = pc[q] /\ call'[q] = call[q] /\ row'[q] = row[q]
    <3>1. CASE Arrive(r) \/ Lose(r)
      BY <3>1 DEF Arrive, Lose, Goto, TypeOK
    <3>2. CASE Load(r)
      BY <3>2 DEF Load, Goto, TypeOK
    <3>3. CASE Step(r) /\ ~Load(r)
      BY <3>3 DEF Step, Refuse, Sum, RefuseQuota, Insert, Store, Resize, Mark, Erase,
                  EraseFails, Delete, Count, ResetTask, RowGone, AppendAudit, Goto, TypeOK
    <3>4. QED
      BY <1>1, <3>1, <3>2, <3>3
  <2>2. ASSUME NEW q \in Request \ {r} PROVE Secured(q)'
    <3>1. CASE UNCHANGED meta
      BY <2>1, <3>1, SecuredStays DEF ChecksHold
    <3>2. CASE Insert(r) \/ Resize(r) \/ Mark(r) \/ Delete(r)
      BY <3>2, OthersSecured DEF ChecksHold
    <3>3. QED
      BY <1>1, <3>1, <3>2 DEF Step, Arrive, Lose, Load, Refuse, Sum, RefuseQuota, Store, Erase,
                              EraseFails, Count, ResetTask, RowGone, AppendAudit, tables
  <2>3. QED
    BY <1>1, <2>2 DEF ChecksHold
<1>2. ASSUME NEW r \in Request, Load(r) PROVE Secured(r)'
  <2>1. /\ pc[r] = "load" /\ pc'[r] = AfterLoad[call[r].op] /\ Allowed(call[r])
        /\ UNCHANGED <<meta, call>> /\ call[r] \in Calls
        /\ call[r].op # "register" => row'[r] = meta[call[r].doc]
    BY <1>0, <1>2 DEF Load, Goto, TypeOK, tables
  <2>2. call[r].op \in {"register", "saveUpload", "review", "remove"}
    BY <2>1, CallFields
  <2>3. CASE call[r].op \in {"register", "saveUpload"}
    <3>1. pc'[r] = "sum"
      BY <2>1, <2>3, AfterLoadTable
    <3>2. QED
      BY <2>1, <2>3, <3>1 DEF Secured, Allowed, FileSizeOk
  <2>4. CASE call[r].op = "review"
    <3>1. pc'[r] = "mark"
      BY <2>1, <2>4, AfterLoadTable
    <3>2. QED
      BY <2>1, <2>4, <3>1 DEF Secured, Allowed
  <2>5. CASE call[r].op = "remove"
    <3>1. pc'[r] = "erase"
      BY <2>1, <2>5, AfterLoadTable
    <3>2. QED
      BY <2>1, <2>5, <3>1 DEF Secured, Allowed
  <2>6. QED
    BY <2>2, <2>3, <2>4, <2>5
<1>3. ASSUME NEW r \in Request, Sum(r) \/ Store(r) PROVE Secured(r)'
  <2>1. /\ UNCHANGED <<meta, call, row>> /\ Secured(r)
        /\ pc[r] \in {"sum", "store"} /\ pc'[r] \in {"insert", "store", "resize"}
        /\ pc'[r] = "insert" => pc[r] = "sum" /\ call[r].op = "register"
        /\ QuotaAllows(r)
        /\ pc'[r] \in {"store", "resize"} => call[r].op = "saveUpload"
    <3>1. CASE Sum(r)
      BY <3>1 DEF Sum, Goto, TypeOK, tables, ChecksHold
    <3>2. CASE Store(r)
      BY <3>2 DEF Store, Goto, TypeOK, ChecksHold, Secured
    <3>3. QED
      BY <1>3, <3>1, <3>2
  <2>2. QuotaAllows(r)'
    BY <2>1, QuotaStays
  <2>3. QED
    BY <2>1, <2>2 DEF Secured, FileSizeOk, Exists
<1>4. ASSUME NEW r \in Request, Erase(r) \/ EraseFails(r) PROVE Secured(r)'
  <2>1. /\ UNCHANGED <<meta, call, row>> /\ Secured(r)
        /\ pc[r] = "erase" /\ pc'[r] = "delete"
    BY <1>4 DEF Erase, EraseFails, Goto, TypeOK, tables, ChecksHold
  <2>2. QED
    BY <2>1 DEF Secured
<1>5. ASSUME NEW r \in Request,
             \/ Arrive(r) \/ Refuse(r) \/ RefuseQuota(r) \/ Insert(r) \/ Resize(r) \/ Mark(r)
             \/ Delete(r) \/ Count(r) \/ ResetTask(r) \/ RowGone(r) \/ AppendAudit(r) \/ Lose(r)
      PROVE  Secured(r)'
  <2>1. pc'[r] \in {"load", "refused", "audit", "done", "count", "reset", "failed", "lost"}
    BY <1>5 DEF Arrive, Refuse, RefuseQuota, Insert, Resize, Mark, Delete, Count, ResetTask,
                RowGone, AppendAudit, Lose, Goto, TypeOK
  <2>2. QED
    BY <2>1 DEF Secured
<1>6. CASE \/ UNCHANGED vars
           \/ \E d \in Doc : Expire(d) \/ \E size \in PutSizes : PutObject(d, size)
  <2>1. UNCHANGED <<meta, pc, call, row>>
    BY <1>6 DEF vars, tables, Expire, PutObject
  <2>2. QED
    BY <2>1, SecuredStays DEF ChecksHold
<1>7. QED
  BY <1>1, <1>2, <1>3, <1>4, <1>5, <1>6 DEF Next, Step

\* As long as no document is inserted for a task being reset, none is left then.
LEMMA NoneLeftStep ==
  ASSUME TypeOK, RowsFit, TasksApart, NoneLeft, [Next]_vars
  PROVE  NoneLeft'
<1> USE DocumentsAssumption
<1> DEFINE Empty(q) == \A d \in Doc : meta[d] # None => meta[d].task # row[q].task
<1>0. /\ NoneLeft <=> \A q \in Request : pc[q] = "reset" => Empty(q)
      /\ NoneLeft' <=> \A q \in Request : pc'[q] = "reset" => Empty(q)'
      /\ \A q \in Request : DocsOf(row[q].task) = {} <=> Empty(q)
  BY DEF NoneLeft, DocsOf, Exists
<1>1. ASSUME UNCHANGED meta, NEW q \in Request, pc'[q] = "reset",
             row'[q] = row[q], pc[q] = "reset" \/ Empty(q)
      PROVE  Empty(q)'
  BY <1>0, <1>1
<1>2. ASSUME NEW r \in Request, Insert(r) PROVE NoneLeft'
  <2>1. /\ UNCHANGED row /\ pc[r] = "insert" /\ pc'[r] = "audit"
        /\ \A q \in Request \ {r} : pc'[q] = pc[q]
        /\ \A d \in Doc \ {r} : meta'[d] = meta[d]
        /\ r \in Doc /\ meta'[r].task = call[r].task
    BY <1>2 DEF Insert, Goto, TypeOK, Doc
  <2>2. ASSUME NEW q \in Request, pc'[q] = "reset" PROVE Empty(q)'
    <3>1. pc[q] = "reset" /\ q # r /\ row'[q] = row[q]
      BY <2>1, <2>2
    <3>2. Empty(q) /\ call[r].task # row[q].task
      BY <1>0, <2>1, <3>1 DEF TasksApart
    <3>3. QED
      BY <2>1, <3>1, <3>2
  <2>3. QED
    BY <1>0, <2>2
<1>3. ASSUME NEW r \in Request, Resize(r) \/ Mark(r) \/ Delete(r) PROVE NoneLeft'
  <2>1. /\ UNCHANGED row /\ pc'[r] # "reset"
        /\ \A q \in Request \ {r} : pc'[q] = pc[q]
    BY <1>3 DEF Resize, Mark, Delete, Goto, TypeOK
  <2>2. \A d \in Doc : meta'[d] # None => Exists(d) /\ meta'[d].task = meta[d].task
    <3>1. CASE Resize(r) \/ Mark(r)
      BY <3>1, RowEdit DEF Unmoved, Exists
    <3>2. CASE Delete(r)
      BY <3>2 DEF Delete, TypeOK, Exists
    <3>3. QED
      BY <1>3, <3>1, <3>2
  <2>3. QED
    BY <1>0, <2>1, <2>2 DEF Exists
<1>4. ASSUME NEW r \in Request,
             \/ Arrive(r) \/ Load(r) \/ Refuse(r) \/ Sum(r) \/ RefuseQuota(r) \/ Store(r)
             \/ Erase(r) \/ EraseFails(r) \/ Count(r) \/ ResetTask(r) \/ RowGone(r)
             \/ AppendAudit(r) \/ Lose(r)
      PROVE  NoneLeft'
  <2>1. UNCHANGED meta
    BY <1>4 DEF Arrive, Load, Refuse, Sum, RefuseQuota, Store, Erase, EraseFails, Count,
                ResetTask, RowGone, AppendAudit, Lose, tables
  <2>2. \A q \in Request \ {r} : pc'[q] = pc[q] /\ row'[q] = row[q]
    BY <1>4 DEF Arrive, Load, Refuse, Sum, RefuseQuota, Store, Erase, EraseFails, Count,
                ResetTask, RowGone, AppendAudit, Lose, Goto, TypeOK, tables
  <2>3. pc'[r] = "reset" => row'[r] = row[r] /\ Empty(r)
    <3>1. CASE Load(r)
      <4>1. call[r].op \in {"register", "saveUpload", "review", "remove"}
        BY <3>1, CallFields DEF Load, Goto, TypeOK
      <4>2. pc'[r] \in {"sum", "mark", "erase"}
        BY <3>1, <4>1, AfterLoadTable DEF Load, Goto, TypeOK
      <4>3. QED
        BY <4>2
    <3>2. CASE ~Load(r)
      BY <1>0, <1>4, <3>2 DEF Arrive, Refuse, Sum, RefuseQuota, Store, Erase, EraseFails, Count,
                  ResetTask, RowGone, AppendAudit, Lose, Goto, TypeOK, tables
    <3>3. QED
      BY <3>1, <3>2
  <2>4. QED
    BY <1>0, <1>1, <2>1, <2>2, <2>3
<1>5. CASE \/ UNCHANGED vars
           \/ \E d \in Doc : Expire(d) \/ \E size \in PutSizes : PutObject(d, size)
  <2>1. UNCHANGED <<meta, pc, row>>
    BY <1>5 DEF vars, tables, Expire, PutObject
  <2>2. QED
    BY <1>0, <1>1, <2>1
<1>6. QED
  BY <1>2, <1>3, <1>4, <1>5 DEF Next, Step

LEMMA ChecksInit == Init => ChecksHold /\ NoneLeft
<1> SUFFICES ASSUME Init PROVE ChecksHold /\ NoneLeft
  OBVIOUS
<1>1. \A r \in Request : pc[r] = "idle" /\ ~Running(r)
  BY DEF Init, Running
<1>2. QED
  BY <1>1, IdleSecured DEF ChecksHold, NoneLeft

-----------------------------------------------------------------------------
(* Every step is a step of the library, or none.                           *)

\* The removals of documents that are gone.
LEMMA EmptiedBy ==
  ASSUME NEW t
  PROVE  t \in Emptied <=> /\ t # None
                          /\ \E q \in Request :
                               /\ call[q] # None /\ call[q].op = "remove" /\ row[q] # None
                               /\ ~Exists(call[q].doc) /\ row[q].task = t
BY DEF Emptied

LEMMA EmptiedNext ==
  ASSUME NEW t
  PROVE  t \in Emptied' <=> /\ t # None
                           /\ \E q \in Request :
                                /\ call'[q] # None /\ call'[q].op = "remove" /\ row'[q] # None
                                /\ meta'[call'[q].doc] = None /\ row'[q].task = t
BY DEF Emptied, Exists

\* A step that adds and takes no row adds no task, unless a removal reads a row.
LEMMA EmptiedStays ==
  ASSUME \A q \in Request : call'[q] = call[q] /\ row'[q] = row[q],
         \A q \in Request : row[q] # None /\ call[q].op = "remove" =>
            (Exists(call[q].doc)' <=> Exists(call[q].doc))
  PROVE  Emptied' = Emptied
<1>1. \A t : t \in Emptied' <=> t \in Emptied
  BY EmptiedBy, EmptiedNext DEF Exists
<1>2. QED
  BY <1>1

\* A step that changes no row and no task changes nothing in the library.
LEMMA QuietMaps ==
  ASSUME TypeOK, RowsFit, [Next]_vars, UNCHANGED <<meta, taskStatus>>
  PROVE  UNCHANGED Library!library
<1> USE DocumentsAssumption
<1>1. ASSUME NEW r \in Request, Arrive(r) PROVE Emptied' = Emptied
  <2>1. /\ row[r] = None /\ row' = row
        /\ \A q \in Request \ {r} : call'[q] = call[q]
    BY <1>1 DEF Arrive, Goto, TypeOK, RowsFit
  <2>2. \A t : t \in Emptied' <=> t \in Emptied
    BY <2>1, EmptiedBy, EmptiedNext DEF Exists
  <2>3. QED
    BY <2>2
<1>2. ASSUME NEW r \in Request, Load(r) PROVE Emptied' = Emptied
  <2>1. /\ row[r] = None /\ call' = call /\ Allowed(call[r])
        /\ \A q \in Request \ {r} : row'[q] = row[q]
        /\ call[r].op = "register" => row' = row
    BY <1>2 DEF Load, Goto, TypeOK, RowsFit
  <2>2. call[r].op = "remove" => Exists(call[r].doc)
    BY <2>1 DEF Allowed
  <2>3. \A t : t \in Emptied' <=> t \in Emptied
    BY <2>1, <2>2, EmptiedBy, EmptiedNext DEF Exists
  <2>4. QED
    BY <2>3
<1>3. ASSUME UNCHANGED <<call, row>> PROVE Emptied' = Emptied
  <2>1. \A q \in Request : Exists(call[q].doc)' <=> Exists(call[q].doc)
    BY <1>3 DEF Exists
  <2>2. QED
    BY <1>3, <2>1, EmptiedStays
<1>4. QED
  BY <1>1, <1>2, <1>3 DEF Next, Step, vars, tables, Refuse, Sum, RefuseQuota, Insert, Store,
     Resize, Mark, Erase, EraseFails, Delete, Count, ResetTask, RowGone, AppendAudit, Lose,
     Expire, PutObject, Library!library

\* The insert of a registration enters the document.
LEMMA InsertMaps ==
  ASSUME TypeOK, DeletedOnceInductive, RowsFit, ChecksHold, NEW r \in Request, Insert(r)
  PROVE  r \in Doc /\ Library!Register(r)
<1> DEFINE k == call[r]
<1>1. /\ k \in Calls /\ k.op = "register" /\ pc[r] = "insert" /\ Unregistered(r) /\ r \in Doc
      /\ UNCHANGED <<taskStatus, call, row>>
  BY DEF Insert, Goto, TypeOK, Unregistered, Doc
<1>2. /\ k.user \in User /\ k.case \in readable[k.user] /\ k.task \in Task \cup {None}
      /\ k.size \in 1..MaxFile
      /\ UsedBytes(caseEmployee[k.case]) + k.size <= Quota
  BY <1>1, CallFields DEF ChecksHold, Secured, QuotaAllows, WithinQuota, FileSizeOk
<1>3. meta[r] = None
  BY <1>1 DEF DeletedOnceInductive, Exists
<1>4. meta' = [meta EXCEPT ![r] = [case |-> k.case, task |-> k.task, size |-> k.size,
                                   uploader |-> k.user, review |-> "pending"]]
  BY DEF Insert
<1>5. Emptied' = Emptied
  <2>1. \A q \in Request : row[q] # None => call[q].doc # r
    BY <1>1 DEF RowsFit
  <2>2. \A d : d # r => (Exists(d)' <=> Exists(d))
    BY <1>1, <1>4 DEF TypeOK, Exists
  <2>3. QED
    BY <1>1, <2>1, <2>2, EmptiedStays
<1>6. Library!Used(caseEmployee[k.case]) + k.size <= Quota
  BY <1>2, UsedIsSum
<1> HIDE DEF k
<1>7. \E u \in User : \E c \in readable[u], t \in Task \cup {None}, size \in Library!Size :
        /\ Library!Used(caseEmployee[c]) + size <= Quota
        /\ meta' = [meta EXCEPT ![r] = [case |-> c, task |-> t, size |-> size,
                                        uploader |-> u, review |-> "pending"]]
  BY <1>2, <1>4, <1>6 DEF Library!Size
<1>8. QED
  BY <1>1, <1>3, <1>5, <1>7 DEF Library!Register

\* Changing the size of a row replaces the file, as the size is the one that was read.
LEMMA ResizeMaps ==
  ASSUME TypeOK, RowsFit, ChecksHold, NEW r \in Request, Resize(r)
  PROVE  call[r].doc \in Doc /\ Library!Replace(call[r].doc)
<1> DEFINE k == call[r]
           d == k.doc
<1>1. /\ k \in Calls /\ k.op = "saveUpload" /\ pc[r] = "resize" /\ Exists(d)
      /\ UNCHANGED <<taskStatus, call, row>>
      /\ meta' = [meta EXCEPT ![d].size = k.size]
  BY DEF Resize, Goto, TypeOK
<1>2. /\ d \in Doc /\ k.size \in 1..MaxFile
      /\ meta[d].size = row[r].size /\ meta[d].case = row[r].case
      /\ UsedBytes(caseEmployee[row[r].case]) - row[r].size + k.size <= Quota
  <2>1. row[r] # None
    BY <1>1 DEF TypeOK, Running, PC
  <2>2. meta[d].case = row[r].case
    BY <1>1, <2>1 DEF RowsFit
  <2>3. QED
    BY <1>1, <2>2, CallFields DEF ChecksHold, Secured, QuotaAllows, WithinQuota, FileSizeOk
<1>3. Emptied' = Emptied
  <2>1. \A q \in Request : row[q] # None /\ call[q].op = "remove" =>
                             (Exists(call[q].doc)' <=> Exists(call[q].doc))
    BY RowEdit, <1>1, <1>2 DEF TypeOK, Exists
  <2>2. QED
    BY <1>1, <2>1, EmptiedStays
<1>4. Library!Used(caseEmployee[meta[d].case]) - meta[d].size + k.size <= Quota
  BY <1>2, UsedIsSum
<1> HIDE DEF k, d
<1>5. \E size \in Library!Size :
        /\ Library!Used(caseEmployee[meta[d].case]) - meta[d].size + size <= Quota
        /\ meta' = [meta EXCEPT ![d].size = size]
  BY <1>1, <1>2, <1>4 DEF Library!Size
<1>6. Library!Replace(d)
  BY <1>1, <1>3, <1>5 DEF Library!Replace, Exists
<1>7. QED
  BY <1>2, <1>6 DEF d, k

\* The write of a review.
LEMMA MarkMaps ==
  ASSUME TypeOK, ChecksHold, NEW r \in Request, Mark(r)
  PROVE  call[r].doc \in Doc /\ Library!Review(call[r].doc)
<1> DEFINE k == call[r]
           d == k.doc
<1>1. /\ k \in Calls /\ k.op = "review" /\ pc[r] = "mark" /\ Exists(d)
      /\ UNCHANGED <<taskStatus, call, row>>
      /\ meta' = [meta EXCEPT ![d].review = k.verdict]
  BY DEF Mark, Goto, TypeOK
<1>2. d \in Doc /\ k.verdict \in ReviewStatus /\ k.user \in hrAdmins
  BY <1>1, CallFields DEF ChecksHold, Secured
<1>3. Emptied' = Emptied
  <2>1. \A q \in Request : row[q] # None /\ call[q].op = "remove" =>
                             (Exists(call[q].doc)' <=> Exists(call[q].doc))
    BY RowEdit, <1>1, <1>2 DEF TypeOK, Exists
  <2>2. QED
    BY <1>1, <2>1, EmptiedStays
<1>4. QED
  BY <1>1, <1>2, <1>3 DEF Library!Review, Library!Verdict, ReviewStatus, Exists

\* The delete of a row removes the document, for someone who may; from now on its
\* task may be set back.
LEMMA DeleteMaps ==
  ASSUME TypeOK, RowsFit, ChecksHold, NEW r \in Request, Delete(r)
  PROVE  call[r].doc \in Doc /\ Library!Remove(call[r].doc)
<1> DEFINE k == call[r]
           d == k.doc
<1>1. /\ k \in Calls /\ k.op = "remove" /\ pc[r] = "delete" /\ Exists(d)
      /\ UNCHANGED <<taskStatus, call, row>>
      /\ meta' = [meta EXCEPT ![d] = None]
  BY DEF Delete, Goto, TypeOK
<1>2. /\ d \in Doc /\ row[r] # None /\ k # None /\ k.user \in User
      /\ k.user = meta[d].uploader \/ k.user \in hrAdmins
      /\ meta[d].case \in readable[k.user]
  <2>1. row[r] # None
    BY <1>1 DEF TypeOK, Running, PC
  <2>2. meta[d].uploader = row[r].uploader /\ meta[d].case = row[r].case
    BY <1>1, <2>1 DEF RowsFit
  <2>3. /\ k.user = row[r].uploader \/ k.user \in hrAdmins
        /\ row[r].case \in readable[k.user]
    BY <1>1 DEF ChecksHold, Secured
  <2>4. d \in Doc /\ k # None /\ k.user \in User
    BY <1>1, CallFields, DocumentsAssumption DEF Call
  <2>5. QED
    BY <2>1, <2>2, <2>3, <2>4
<1>3. Emptied' = Emptied \cup ({meta[d].task} \ {None})
  <2>1. \A q \in Request : row[q] # None /\ call[q].doc = d => row[q].task = meta[d].task
    BY <1>1 DEF RowsFit
  <2>2. \A x : meta'[x] = None <=> (meta[x] = None \/ x = d)
    BY <1>1, <1>2 DEF TypeOK
  <2>3. \A t : t \in Emptied' <=> t \in Emptied \cup ({meta[d].task} \ {None})
    BY <1>1, <1>2, <2>1, <2>2, EmptiedBy, EmptiedNext DEF Exists
  <2>4. QED
    BY <2>3
<1>4. QED
  BY <1>1, <1>2, <1>3 DEF Library!Remove, Exists

\* The reset of a task is made for a document that is gone, when none is left.
LEMMA ResetMaps ==
  ASSUME TypeOK, DeletedOnceInductive, NoneLeft, NEW r \in Request, ResetTask(r)
  PROVE  row[r].task \in Task /\ Library!SetBack(row[r].task)
<1> DEFINE t == row[r].task
<1>1. /\ call[r] \in Calls /\ call[r].op = "remove" /\ pc[r] = "reset"
      /\ UNCHANGED <<meta, call, row>>
      /\ taskStatus' = [taskStatus EXCEPT ![t] = "pending"]
  BY DEF ResetTask, Goto, TypeOK
<1>2. row[r] # None /\ row[r] \in Row /\ t # None /\ call[r] # None
  BY <1>1, CallFields DEF TypeOK, Running, PC
<1>3. t \in Task
  BY <1>2 DEF Row
<1>4. ~Exists(call[r].doc)
  BY <1>1 DEF DeletedOnceInductive, Deleting
<1>5. t \in Emptied
  BY <1>1, <1>2, <1>4, EmptiedBy
<1>6. \A d \in Doc : meta[d] # None => meta[d].task # t
  BY <1>1 DEF NoneLeft, DocsOf, Exists
<1>7. Emptied' = Emptied
  BY <1>1, EmptiedStays DEF Exists
<1> HIDE DEF t
<1>8. Library!SetBack(t)
  BY <1>1, <1>5, <1>6, <1>7 DEF Library!SetBack
<1>9. QED
  BY <1>3, <1>8 DEF t

\* Every other step is a step of the library as long as checks hold.
LEMMA NextMaps ==
  ASSUME TypeOK, DeletedOnceInductive, RowsFit, ChecksHold, [Next]_vars
  PROVE  [Library!Next]_Library!library \/ \E r \in Request : ResetTask(r)
<1>1. ASSUME NEW r \in Request, Insert(r) PROVE Library!Next
  BY <1>1, InsertMaps DEF Library!Next
<1>2. ASSUME NEW r \in Request, Resize(r) PROVE Library!Next
  BY <1>2, ResizeMaps DEF Library!Next
<1>3. ASSUME NEW r \in Request, Mark(r) PROVE Library!Next
  BY <1>3, MarkMaps DEF Library!Next
<1>4. ASSUME NEW r \in Request, Delete(r) PROVE Library!Next
  BY <1>4, DeleteMaps DEF Library!Next
<1>5. CASE UNCHANGED <<meta, taskStatus>>
  BY <1>5, QuietMaps
<1>6. QED
  BY <1>1, <1>2, <1>3, <1>4, <1>5 DEF Next, Step, vars, tables, Arrive, Load, Refuse,
     Sum, RefuseQuota, Store, Erase, EraseFails, Count, RowGone, AppendAudit, Lose, Expire,
     PutObject

LEMMA InitMaps == Init => Library!Init
<1> SUFFICES ASSUME Init PROVE Library!Init
  OBVIOUS
<1>1. TypeOK /\ \A q \in Request : row[q] = None
  BY InitType DEF Init
<1>2. Emptied = {}
  BY <1>1, EmptiedBy
<1>3. QED
  BY <1>1, <1>2 DEF Library!Init, Init, TypeOK, Library!Record, Library!Verdict, Row, ReviewStatus

\* Requests that run one at a time are apart.
LEMMA AloneApart ==
  ASSUME \A q, r \in Request : Running(q) /\ Running(r) => q = r
  PROVE  Apart
<1>1. \A r \in Request : Admitting(r) => Running(r)
  BY DEF Admitting, Running, PC
<1>2. \A r \in Request :
        pc[r] \in {"sum", "insert", "store", "resize", "delete", "reset", "audit"} => Running(r)
  BY DEF Running, PC
<1>3. QED
  BY <1>1, <1>2 DEF Apart, QuotaApart, TasksApart, ErasesApart, UploadsApart, ReviewsApart

\* The invariants that the two theorems rest on.
Grounds == TypeOK /\ DeletedOnceInductive /\ RowsFit /\ FinitelyMany /\ ChecksHold

LEMMA GroundsInit == Init => Grounds
BY InitType, DeletedOnceInit, ResetInit, FiniteInit, ChecksInit DEF Grounds, ResetInductive

LEMMA GroundsStep == Grounds /\ QuotaApart /\ [Next]_vars => Grounds'
<1> SUFFICES ASSUME Grounds, QuotaApart, [Next]_vars PROVE Grounds'
  OBVIOUS
<1>1. TypeOK /\ DeletedOnceInductive /\ RowsFit /\ FinitelyMany /\ ChecksHold
  BY DEF Grounds
<1>2. TypeOK'
  BY <1>1, StepType
<1>3. DeletedOnceInductive' /\ RowsFit'
  BY <1>1, DeletedOnceStep, RowsFitStep
<1>4. FinitelyMany' /\ ChecksHold'
  BY <1>1, <1>2, RowsStayFinite, ChecksStep
<1>5. QED
  BY <1>2, <1>3, <1>4 DEF Grounds

\* On any storage driver and with losses, the documents service implements the library
\* in every behaviour in which no two requests are admitted to the quota of one employee
\* at once, and no document is inserted for a task that is being reset.  These are the
\* only overlaps that matter: no other write of a handler relies on a check that can be
\* overtaken, and a removal or a registration is whole or has not happened.
THEOREM LibraryImplemented == Spec /\ []QuotaApart /\ []TasksApart => ImplementsLibrary
<1>1. Init => Grounds /\ NoneLeft /\ Library!Init
  BY GroundsInit, ChecksInit, InitMaps
<1>2. Grounds /\ NoneLeft /\ TasksApart /\ [Next]_vars => NoneLeft'
  BY NoneLeftStep DEF Grounds
<1>3. Grounds /\ NoneLeft /\ [Next]_vars => [Library!Next]_Library!library
  <2> SUFFICES ASSUME Grounds, NoneLeft, [Next]_vars PROVE [Library!Next]_Library!library
    OBVIOUS
  <2>1. ASSUME NEW r \in Request, ResetTask(r) PROVE Library!Next
    BY <2>1, ResetMaps DEF Grounds, Library!Next
  <2>2. QED
    BY <2>1, NextMaps DEF Grounds
<1>4. QED
  BY <1>1, <1>2, <1>3, GroundsStep, PTL DEF Spec, ImplementsLibrary, Library!Spec

-----------------------------------------------------------------------------
(* The quota.                                                              *)

\* No operation of the library takes an employee over the quota.
LEMMA QuotaStep ==
  ASSUME TypeOK, TypeOK', FinitelyMany, QuotaRespected,
         [Library!Next]_Library!library \/ UNCHANGED meta
  PROVE  QuotaRespected'
<1> USE DocumentsAssumption
<1> DEFINE Within(e) == UsedBytes(e) <= Quota => UsedBytes(e)' <= Quota
<1>1. ASSUME NEW d \in Doc, Library!Register(d)
      PROVE  \A e : Within(e)
  <2>0. PICK u \in User : \E c \in readable[u], t \in Task \cup {None}, size \in Library!Size :
          /\ Library!Used(caseEmployee[c]) + size <= Quota
          /\ meta' = [meta EXCEPT ![d] = [case |-> c, task |-> t, size |-> size,
                                          uploader |-> u, review |-> "pending"]]
    BY <1>1 DEF Library!Register
  <2>1. PICK c \in readable[u], t \in Task \cup {None}, size \in 1..MaxFile :
          /\ Library!Used(caseEmployee[c]) + size <= Quota
          /\ meta' = [meta EXCEPT ![d] = [case |-> c, task |-> t, size |-> size,
                                          uploader |-> u, review |-> "pending"]]
    BY <2>0 DEF Library!Size
  <2>2. /\ meta[d] = None /\ \A x \in Doc \ {d} : meta'[x] = meta[x]
        /\ meta'[d].case = c /\ meta'[d].size = size
    BY <1>1, <2>1 DEF Library!Register, TypeOK
  <2>3. ASSUME NEW e PROVE Within(e)
    <3>1. \E rest \in Nat : /\ UsedBytes(e)  = Share(meta, d, e) + rest
                            /\ UsedBytes(e)' = Share(meta', d, e) + rest
      BY <2>2, OneRowChanges
    <3>2. Share(meta, d, e) = 0
      BY <2>2 DEF Share, Owned
    <3>3. CASE caseEmployee[c] = e
      <4>1. Share(meta', d, e) \in {0, size} /\ UsedBytes(e) + size <= Quota
        BY <2>1, <2>2, <3>3, UsedIsSum DEF Share
      <4>2. QED
        BY <3>1, <3>2, <4>1
    <3>4. CASE caseEmployee[c] # e
      <4>1. Share(meta', d, e) = 0
        BY <2>2, <3>4 DEF Share, Owned
      <4>2. QED
        BY <3>1, <3>2, <4>1
    <3>5. QED
      BY <3>3, <3>4
  <2>4. QED
    BY <2>3
<1>2. ASSUME NEW d \in Doc, Library!Replace(d)
      PROVE  \A e : Within(e)
  <2>1. PICK size \in 1..MaxFile :
          /\ Library!Used(caseEmployee[meta[d].case]) - meta[d].size + size <= Quota
          /\ meta' = [meta EXCEPT ![d].size = size]
    BY <1>2 DEF Library!Replace, Library!Size
  <2>2. meta[d] \in Row /\ meta[d] # None
    BY <1>2 DEF Library!Replace, TypeOK
  <2>3. /\ \A x \in Doc \ {d} : meta'[x] = meta[x]
        /\ meta'[d] = [meta[d] EXCEPT !.size = size]
    BY <2>1 DEF TypeOK
  <2>4. meta'[d] \in Row /\ meta'[d].case = meta[d].case /\ meta'[d].size = size
        /\ meta[d].size \in Nat
    BY <2>2, <2>3 DEF Row
  <2>5. meta'[d] # None
    BY <2>4
  <2>6. ASSUME NEW e PROVE Within(e)
    <3>1. \E rest \in Nat : /\ UsedBytes(e)  = Share(meta, d, e) + rest
                            /\ UsedBytes(e)' = Share(meta', d, e) + rest
      BY <2>3, OneRowChanges
    <3>2. CASE caseEmployee[meta[d].case] = e
      <4>1. Share(meta, d, e) = meta[d].size /\ Share(meta', d, e) = size
        BY <2>2, <2>4, <2>5, <3>2 DEF Share, Owned
      <4>2. UsedBytes(e) - meta[d].size + size <= Quota
        BY <2>1, <3>2, UsedIsSum
      <4>3. QED
        BY <2>4, <3>1, <4>1, <4>2
    <3>3. CASE caseEmployee[meta[d].case] # e
      <4>1. Share(meta, d, e) = 0 /\ Share(meta', d, e) = 0
        BY <2>4, <3>3 DEF Share, Owned
      <4>2. QED
        BY <3>1, <4>1
    <3>4. QED
      BY <3>2, <3>3
  <2>7. QED
    BY <2>6
<1>3. ASSUME NEW d \in Doc, Library!Review(d)
      PROVE  \A e : Within(e)
  <2>1. PICK verdict \in Library!Verdict : meta' = [meta EXCEPT ![d].review = verdict]
    BY <1>3 DEF Library!Review
  <2>2. meta[d] \in Row /\ meta[d] # None
    BY <1>3 DEF Library!Review, TypeOK
  <2>3. /\ \A x \in Doc \ {d} : meta'[x] = meta[x]
        /\ meta'[d] = [meta[d] EXCEPT !.review = verdict]
    BY <2>1 DEF TypeOK
  <2>4. meta'[d] \in Row /\ meta'[d].case = meta[d].case /\ meta'[d].size = meta[d].size
    BY <2>2, <2>3 DEF Row, Library!Verdict, ReviewStatus
  <2>5. meta'[d] # None
    BY <2>4
  <2>6. ASSUME NEW e PROVE Within(e)
    <3>1. \E rest \in Nat : /\ UsedBytes(e)  = Share(meta, d, e) + rest
                            /\ UsedBytes(e)' = Share(meta', d, e) + rest
      BY <2>3, OneRowChanges
    <3>2. Share(meta', d, e) = Share(meta, d, e)
      BY <2>2, <2>4, <2>5 DEF Share, Owned
    <3>3. QED
      BY <3>1, <3>2
  <2>7. QED
    BY <2>6
<1>4. ASSUME NEW d \in Doc, Library!Remove(d)
      PROVE  \A e : Within(e)
  <2>1. /\ meta'[d] = None /\ \A x \in Doc \ {d} : meta'[x] = meta[x]
        /\ meta[d] \in Row
    BY <1>4 DEF Library!Remove, TypeOK
  <2>2. meta[d].size \in Nat
    BY <2>1 DEF Row
  <2>3. ASSUME NEW e PROVE Within(e)
    <3>1. \E rest \in Nat : /\ UsedBytes(e)  = Share(meta, d, e) + rest
                            /\ UsedBytes(e)' = Share(meta', d, e) + rest
      BY <2>1, OneRowChanges
    <3>2. Share(meta', d, e) = 0 /\ Share(meta, d, e) \in Nat
      BY <2>1, <2>2 DEF Share, Owned
    <3>3. QED
      BY <3>1, <3>2
  <2>4. QED
    BY <2>3
<1>5. ASSUME UNCHANGED meta
      PROVE  \A e : Within(e)
  <2>1. \A e : UsedBytes(e)' = UsedBytes(e)
    BY <1>5, UsedIsSum
  <2>2. QED
    BY <2>1
<1> HIDE DEF Within
<1>6. \A e : Within(e)
  BY <1>1, <1>2, <1>3, <1>4, <1>5 DEF Library!Next, Library!SetBack, Library!library
<1>7. QED
  BY <1>6 DEF Within, QuotaRespected

\* infra/aws-s3/README.md, DOC-004: an employee whose documents fit the quota never
\* gets over it, for any number of documents and uploads of any sizes, whatever is lost
\* on the way, as long as no two requests are admitted to the quota at once.
THEOREM QuotaKept == QuotaRespected /\ Spec /\ []QuotaApart => []QuotaRespected
<1>1. Grounds /\ Grounds' /\ QuotaRespected /\ [Next]_vars => QuotaRespected'
  <2> SUFFICES ASSUME Grounds, Grounds', QuotaRespected, [Next]_vars PROVE QuotaRespected'
    OBVIOUS
  <2>1. [Library!Next]_Library!library \/ UNCHANGED meta
    BY NextMaps DEF Grounds, ResetTask
  <2>2. QED
    BY <2>1, QuotaStep DEF Grounds
<1>2. QED
  BY <1>1, GroundsInit, GroundsStep, PTL DEF Spec

=============================================================================
