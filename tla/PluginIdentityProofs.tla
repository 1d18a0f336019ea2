------------------------ MODULE PluginIdentityProofs ------------------------
(***************************************************************************)
(* Theorems about PluginIdentity, for every set of ids, names and          *)
(* references.  The inductive invariant is TypeOK /\ ClaimsExact: that     *)
(* the claims are exactly the live rows' references is needed to know that *)
(* the guard a claim passed (the table has no other owner) speaks of the   *)
(* rows; RefUnambiguous alone says nothing of the table and is not         *)
(* preserved by itself.                                                    *)
(***************************************************************************)
EXTENDS PluginIdentity, TLAPS

IInv == TypeOK /\ ClaimsExact

-----------------------------------------------------------------------------
(* What the two trigger functions return, reference by reference.          *)
LEMMA ReleasedType ==
    ASSUME NEW cl \in [Refs -> PluginIds \union {NoPlugin}],
           NEW p \in PluginIds, NEW S, NEW kept
    PROVE  Released(cl, p, S, kept) \in [Refs -> PluginIds \union {NoPlugin}]
  BY DEF Released

LEMMA ClaimedType ==
    ASSUME NEW cl \in [Refs -> PluginIds \union {NoPlugin}],
           NEW p \in PluginIds, NEW S
    PROVE  Claimed(cl, p, S) \in [Refs -> PluginIds \union {NoPlugin}]
  BY DEF Claimed

(* A row that exists is a Row.                                             *)
LEMMA RowType ==
    ASSUME TypeOK, NEW p \in PluginIds, Exists(p)
    PROVE  /\ rows[p] \in Row
           /\ rows[p].name \in Names
           /\ rows[p].aliases \in SUBSET Refs
           /\ rows[p].deleted \in BOOLEAN
           /\ Lower[rows[p].name] \in Refs
  BY IdentityAssumption DEF TypeOK, Exists, Row

-----------------------------------------------------------------------------
(* The triggers keep every column of the two tables in its type.           *)
LEMMA TypeInductive == TypeOK /\ [Next]_vars => TypeOK'
  <1> SUFFICES ASSUME TypeOK, [Next]_vars PROVE TypeOK'
    OBVIOUS
  <1>1. ASSUME NEW p \in PluginIds, Delete(p) PROVE TypeOK'
    BY <1>1, ReleasedType, RowType DEF TypeOK, Delete, Live, Row
  <1>2. ASSUME NEW p \in PluginIds, NEW A \in SUBSET Refs, SeedExisting(p, A)
        PROVE TypeOK'
    BY <1>2, ReleasedType, ClaimedType, RowType
       DEF TypeOK, SeedExisting, AliasesDropped, Row
  <1>3. ASSUME NEW p \in PluginIds, NEW A \in SUBSET Refs, NEW n \in Names,
               Create(p, n, A)
        PROVE TypeOK'
    BY <1>3, ClaimedType DEF TypeOK, Create, Row
  <1>4. ASSUME NEW p \in PluginIds, NEW A \in SUBSET Refs, NEW n \in Names,
               Update(p, n, A)
        PROVE TypeOK'
    BY <1>4, ReleasedType, ClaimedType, RowType
       DEF TypeOK, Update, AliasesDropped, Live, Row
  <1>5. CASE UNCHANGED vars
    BY <1>5 DEF TypeOK, vars
  <1> QED
    BY <1>1, <1>2, <1>3, <1>4, <1>5 DEF Next

(* The types of the tables are an invariant of the specification.          *)
THEOREM TypeCorrect == Spec => []TypeOK
  <1>1. Init => TypeOK
    BY DEF Init, TypeOK
  <1> QED
    BY <1>1, TypeInductive, PTL DEF Spec

-----------------------------------------------------------------------------
(* Each operation, as the change of claims it makes: the references of the *)
(* new row are the plugin's, its other claims are dropped, and nobody      *)
(* else's claim moves.  S is empty for a row that is deleted.              *)
Rebinds(p, S) ==
    /\ Claimable(claims, p, S)
    /\ \A r \in Refs :
          claims'[r] = IF r \in S THEN p
                       ELSE IF claims[r] = p THEN NoPlugin
                       ELSE claims[r]

LEMMA CreateRebinds ==
    ASSUME IInv, NEW p \in PluginIds, NEW A \in SUBSET Refs, NEW n \in Names,
           Create(p, n, A)
    PROVE  Rebinds(p, {Lower[n]} \union A)
  <1>1. \A r \in Refs : claims[r] # p
    BY DEF IInv, ClaimsExact, Create, Live
  <1>2. p # NoPlugin /\ Lower[n] \in Refs
    BY IdentityAssumption
  <1> QED
    BY <1>1, <1>2
       DEF Create, Rebinds, Claimed, Claimable, IInv, TypeOK

LEMMA UpdateRebinds ==
    ASSUME IInv, NEW p \in PluginIds, NEW A \in SUBSET Refs, NEW n \in Names,
           Update(p, n, A)
    PROVE  Rebinds(p, {Lower[n]} \union A)
  <1>1. \A r \in Refs : claims[r] = p => r \in RefsOf(rows[p])
    BY DEF IInv, ClaimsExact
  <1>2. p # NoPlugin /\ Lower[n] \in Refs
    BY IdentityAssumption
  <1> QED
    BY <1>1, <1>2
       DEF Update, AliasesDropped, Rebinds, Claimed, Claimable, Released,
           RefsOf, IInv, TypeOK

LEMMA DeleteRebinds ==
    ASSUME IInv, NEW p \in PluginIds, Delete(p)
    PROVE  Rebinds(p, {})
  <1>1. \A r \in Refs : claims[r] = p => r \in RefsOf(rows[p])
    BY DEF IInv, ClaimsExact
  <1> QED
    BY <1>1 DEF Delete, Rebinds, Released, Claimable, RefsOf, IInv, TypeOK

LEMMA SeedRebinds ==
    ASSUME IInv, NEW p \in PluginIds, NEW A \in SUBSET Refs, SeedExisting(p, A)
    PROVE  Rebinds(p, IF rows[p].deleted THEN {}
                      ELSE {Lower[rows[p].name]} \union A)
  <1>1. \A r \in Refs : claims[r] = p <=> (Live(p) /\ r \in RefsOf(rows[p]))
    BY DEF IInv, ClaimsExact
  <1>2. p # NoPlugin
    BY IdentityAssumption
  <1>3. CASE rows[p].deleted
    BY <1>1, <1>3
       DEF SeedExisting, Rebinds, Released, Claimable, Live, IInv, TypeOK
  <1>4. CASE ~rows[p].deleted
    <2>1. Live(p) /\ Lower[rows[p].name] \in Refs
      BY <1>4, RowType DEF SeedExisting, Live, IInv
    <2>2. claims[Lower[rows[p].name]] = p
      BY <1>1, <2>1 DEF RefsOf
    <2> DEFINE own == Lower[rows[p].name]
               bare == AliasesDropped(claims, p, rows[p].name)
    <2>3. \A r \in Refs :
             bare[r] = IF r \in rows[p].aliases /\ r # own /\ claims[r] = p
                       THEN NoPlugin ELSE claims[r]
      BY DEF AliasesDropped, Released
    <2>4. Claimable(bare, p, A) /\ claims' = Claimed(bare, p, A)
      BY <1>4 DEF SeedExisting
    <2>5. \A r \in Refs : claims[r] = p => r = own \/ r \in rows[p].aliases
      BY <1>1 DEF RefsOf
    <2>6. Rebinds(p, {own} \union A)
      <3> HIDE DEF own, bare
      <3> QED
        BY <1>2, <2>1, <2>2, <2>3, <2>4, <2>5
           DEF Rebinds, Claimed, Claimable, own
    <2> QED
      BY <1>4, <2>6
  <1> QED
    BY <1>3, <1>4

-----------------------------------------------------------------------------
(* Every step is a rebinding of one plugin to what its new row answers to. *)
LEMMA StepRebinds ==
    ASSUME IInv, Next
    PROVE  \E p \in PluginIds, S \in SUBSET Refs :
               /\ Rebinds(p, S)
               /\ \A q \in PluginIds \ {p} : rows'[q] = rows[q]
               /\ \A r \in Refs :
                     r \in S <=> (Live(p)' /\ r \in RefsOf(rows'[p]))
  <1> DEFINE Goal(p, S) ==
               /\ Rebinds(p, S)
               /\ \A q \in PluginIds \ {p} : rows'[q] = rows[q]
               /\ \A r \in Refs :
                     r \in S <=> (Live(p)' /\ r \in RefsOf(rows'[p]))
  <1>0. \A n \in Names : Lower[n] \in Refs
    BY IdentityAssumption
  <1>1. ASSUME NEW p \in PluginIds, Delete(p) PROVE Goal(p, {})
    <2>1. Rebinds(p, {})
      BY <1>1, DeleteRebinds
    <2>2. rows[p] \in Row
      BY <1>1, RowType DEF Delete, Live, IInv
    <2>3. rows'[p].deleted /\ \A q \in PluginIds \ {p} : rows'[q] = rows[q]
      BY <1>1, <2>2 DEF Delete, IInv, TypeOK, Row
    <2> QED
      BY <2>1, <2>3 DEF Live
  <1>2. ASSUME NEW p \in PluginIds, NEW A \in SUBSET Refs, SeedExisting(p, A)
        PROVE Goal(p, IF rows[p].deleted THEN {}
                      ELSE {Lower[rows[p].name]} \union A)
    <2>1. Rebinds(p, IF rows[p].deleted THEN {}
                     ELSE {Lower[rows[p].name]} \union A)
      BY <1>2, SeedRebinds
    <2>2. rows[p] \in Row
      BY <1>2, RowType DEF SeedExisting, IInv
    <2>3. /\ rows'[p] = [rows[p] EXCEPT !.aliases = A]
          /\ \A q \in PluginIds \ {p} : rows'[q] = rows[q]
      BY <1>2 DEF SeedExisting, IInv, TypeOK
    <2>4. /\ rows'[p].name = rows[p].name
          /\ rows'[p].deleted = rows[p].deleted
          /\ rows'[p].aliases = A
          /\ rows'[p] \in Row
      BY <2>2, <2>3 DEF Row
    <2> QED
      BY <2>1, <2>3, <2>4, NoRowAssumption DEF Live, Exists, RefsOf
  <1>3. ASSUME NEW p \in PluginIds, NEW A \in SUBSET Refs, NEW n \in Names,
               Create(p, n, A)
        PROVE Goal(p, {Lower[n]} \union A)
    <2>1. Rebinds(p, {Lower[n]} \union A)
      BY <1>3, CreateRebinds
    <2>2. /\ rows'[p] = [name |-> n, aliases |-> A, deleted |-> FALSE]
          /\ \A q \in PluginIds \ {p} : rows'[q] = rows[q]
      BY <1>3 DEF Create, IInv, TypeOK
    <2>3. rows'[p] \in Row
      BY <2>2 DEF Row
    <2>4. /\ rows'[p].name = n
          /\ rows'[p].aliases = A
          /\ ~rows'[p].deleted
      BY <2>2
    <2> QED
      BY <2>1, <2>2, <2>3, <2>4, NoRowAssumption DEF Live, Exists, RefsOf
  <1>4. ASSUME NEW p \in PluginIds, NEW A \in SUBSET Refs, NEW n \in Names,
               Update(p, n, A)
        PROVE Goal(p, {Lower[n]} \union A)
    <2>1. Rebinds(p, {Lower[n]} \union A)
      BY <1>4, UpdateRebinds
    <2>2. rows[p] \in Row /\ ~rows[p].deleted
      BY <1>4, RowType DEF Update, Live, IInv
    <2>3. /\ rows'[p] = [rows[p] EXCEPT !.name = n, !.aliases = A]
          /\ \A q \in PluginIds \ {p} : rows'[q] = rows[q]
      BY <1>4 DEF Update, IInv, TypeOK
    <2>4. /\ rows'[p].name = n
          /\ rows'[p].aliases = A
          /\ ~rows'[p].deleted
          /\ rows'[p] \in Row
      BY <2>2, <2>3 DEF Row
    <2> QED
      BY <2>1, <2>3, <2>4, NoRowAssumption DEF Live, Exists, RefsOf
  <1>5. \E p \in PluginIds, S \in SUBSET Refs : Goal(p, S)
    <2> HIDE DEF Goal
    <2>1. CASE \E p \in PluginIds : Delete(p)
      BY <2>1, <1>1
    <2>2. CASE \E p \in PluginIds, A \in SUBSET Refs : SeedExisting(p, A)
      <3>1. PICK p \in PluginIds, A \in SUBSET Refs : SeedExisting(p, A)
        BY <2>2
      <3>2. Lower[rows[p].name] \in Refs
        BY <3>1, RowType DEF SeedExisting, IInv
      <3> QED
        BY <3>1, <3>2, <1>2
    <2>3. CASE \E p \in PluginIds, A \in SUBSET Refs, n \in Names :
                   Create(p, n, A)
      <3>1. PICK p \in PluginIds, A \in SUBSET Refs, n \in Names :
                   Create(p, n, A)
        BY <2>3
      <3>2. {Lower[n]} \union A \in SUBSET Refs
        BY <1>0
      <3> QED
        BY <3>1, <3>2, <1>3
    <2>4. CASE \E p \in PluginIds, A \in SUBSET Refs, n \in Names :
                   Update(p, n, A)
      <3>1. PICK p \in PluginIds, A \in SUBSET Refs, n \in Names :
                   Update(p, n, A)
        BY <2>4
      <3>2. {Lower[n]} \union A \in SUBSET Refs
        BY <1>0
      <3> QED
        BY <3>1, <3>2, <1>4
    <2> QED
      BY <2>1, <2>2, <2>3, <2>4 DEF Next
  <1> QED
    BY <1>5

LEMMA ClaimsInductive == IInv /\ [Next]_vars => IInv'
  <1> SUFFICES ASSUME IInv, [Next]_vars PROVE ClaimsExact'
    BY TypeInductive DEF IInv
  <1>1. CASE UNCHANGED vars
    BY <1>1 DEF vars, IInv, ClaimsExact, Live, Exists, RefsOf
  <1>2. CASE Next
    <2>1. PICK p \in PluginIds, S \in SUBSET Refs :
               /\ Rebinds(p, S)
               /\ \A q \in PluginIds \ {p} : rows'[q] = rows[q]
               /\ \A r \in Refs :
                     r \in S <=> (Live(p)' /\ r \in RefsOf(rows'[p]))
      BY <1>2, StepRebinds
    <2>2. p # NoPlugin
      BY IdentityAssumption
    <2>3. \A r \in Refs : claims'[r] = p <=> r \in S
      BY <2>1, <2>2 DEF Rebinds
    <2>4. ASSUME NEW q \in PluginIds, q # p, NEW r \in Refs
          PROVE  claims'[r] = q <=> claims[r] = q
      <3>1. q # NoPlugin
        BY IdentityAssumption
      <3> QED
        BY <2>1, <2>4, <3>1 DEF Rebinds, Claimable
    <2>5. ASSUME NEW q \in PluginIds, q # p, NEW r \in Refs
          PROVE  claims'[r] = q <=> (Live(q)' /\ r \in RefsOf(rows'[q]))
      BY <2>1, <2>4, <2>5 DEF IInv, ClaimsExact, Live, Exists
    <2> QED
      BY <2>1, <2>3, <2>5 DEF ClaimsExact
  <1> QED
    BY <1>1, <1>2

LEMMA IdentityInvariant == Spec => []IInv
  <1>1. Init => IInv
    BY IdentityAssumption
       DEF Init, IInv, TypeOK, ClaimsExact, Live, Exists
  <1> QED
    BY <1>1, ClaimsInductive, PTL DEF Spec

(* The claims table is exactly the references of the live plugins, in every *)
(* reachable state and for every set of names: what migration 000009's     *)
(* triggers are for.                                                       *)
THEOREM ClaimsAreExact == Spec => []ClaimsExact
  <1>1. IInv => ClaimsExact
    BY DEF IInv
  <1> QED
    BY <1>1, IdentityInvariant, PTL

(* A reference answers to at most one live plugin, so the LIMIT 1 of the   *)
(* lookups in plugin_repo.go chooses nothing.                              *)
THEOREM RefsAreUnambiguous == Spec => []RefUnambiguous
  <1>1. IInv => RefUnambiguous
    <2> SUFFICES ASSUME IInv, NEW p \in PluginIds, NEW q \in PluginIds, p # q,
                        Live(p), Live(q),
                        NEW r \in RefsOf(rows[p]) \cap RefsOf(rows[q])
                 PROVE  FALSE
      BY DEF RefUnambiguous
    <2>1. r \in Refs
      BY RowType DEF IInv, RefsOf, Live
    <2> QED
      BY <2>1 DEF IInv, ClaimsExact
  <1> QED
    BY <1>1, IdentityInvariant, PTL

-----------------------------------------------------------------------------
(* Under the invariant the claims table is the directory.                  *)
LEMMA AnswersAreClaims == IInv => [r \in Refs |-> Answers(r)] = claims
  <1> SUFFICES ASSUME IInv PROVE [r \in Refs |-> Answers(r)] = claims
    OBVIOUS
  <1>1. ASSUME NEW r \in Refs PROVE Answers(r) = claims[r]
    <2>1. claims[r] \in PluginIds \union {NoPlugin}
      BY DEF IInv, TypeOK
    <2>2. \A p \in PluginIds :
             claims[r] = p <=> (Live(p) /\ r \in RefsOf(rows[p]))
      BY DEF IInv, ClaimsExact
    <2>3. CASE claims[r] = NoPlugin
      BY <2>2, <2>3, IdentityAssumption DEF Answers
    <2>4. CASE claims[r] \in PluginIds
      BY <2>2, <2>4 DEF Answers
    <2> QED
      BY <2>1, <2>3, <2>4
  <1> QED
    BY <1>1 DEF IInv, TypeOK

(* The rows, the alias table and the triggers implement the directory of   *)
(* RefDirectory: every operation is one rebinding or leaves it alone.      *)
THEOREM ImplementsDirectory == Spec => DirectoryImplemented
  <1> DEFINE own == [r \in Refs |-> Answers(r)]
  <1>0. (IInv => own = claims)'
    BY AnswersAreClaims, PTL
  <1>1. Init => Directory!DirectoryInit
    BY DEF Init, Directory!DirectoryInit, Answers, Live, Exists
  <1>2. IInv /\ IInv' /\ [Next]_vars => [Directory!DirectoryNext]_own
    <2> SUFFICES ASSUME IInv, IInv', [Next]_vars
                 PROVE  [Directory!DirectoryNext]_own
      OBVIOUS
    <2>1. own = claims /\ own' = claims'
      BY AnswersAreClaims, <1>0
    <2>2. CASE UNCHANGED vars
      BY <2>1, <2>2 DEF vars
    <2>3. CASE Next
      <3>1. PICK p \in PluginIds, S \in SUBSET Refs : Rebinds(p, S)
        BY <2>3, StepRebinds
      <3>2. claims' \in [Refs -> PluginIds \union {NoPlugin}]
        BY DEF IInv, TypeOK
      <3>3. Directory!Rebind(p, S)
        <4> HIDE DEF own
        <4> QED
          BY <2>1, <3>1, <3>2 DEF Directory!Rebind, Rebinds, Claimable, own
      <3> QED
        BY <3>3 DEF Directory!DirectoryNext
    <2> QED
      BY <2>2, <2>3
  <1> QED
    BY <1>1, <1>2, IdentityInvariant, PTL
       DEF Spec, DirectoryImplemented, Directory!DirectorySpec

(* A reference is never handed from one live plugin straight to another.   *)
THEOREM RefsAreNeverStolen == Spec => RefNeverStolen
  <1>0. (IInv => [r \in Refs |-> Answers(r)] = claims)'
    BY AnswersAreClaims, PTL
  <1>1. IInv /\ IInv' /\ [Next]_vars =>
           [\A r \in Refs : Answers(r) # NoPlugin
                  => Answers(r)' \in {Answers(r), NoPlugin}]_vars
    <2> SUFFICES ASSUME IInv, IInv', Next, NEW r \in Refs,
                        Answers(r) # NoPlugin
                 PROVE  Answers(r)' \in {Answers(r), NoPlugin}
      OBVIOUS
    <2>1. Answers(r) = claims[r]
      BY AnswersAreClaims
    <2>2. Answers(r)' = claims'[r]
      BY <1>0
    <2>3. PICK p \in PluginIds, S \in SUBSET Refs : Rebinds(p, S)
      BY StepRebinds
    <2> QED
      BY <2>1, <2>2, <2>3 DEF Rebinds, Claimable
  <1> QED
    BY <1>1, IdentityInvariant, PTL DEF Spec, RefNeverStolen
=============================================================================
