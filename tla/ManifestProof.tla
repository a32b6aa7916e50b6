---------------------------- MODULE ManifestProof ----------------------------
(***************************************************************************)
(* Proofs about Manifest, for every set of names, remotes, manifests and   *)
(* command lines: what a sync leaves, what validate says of it, and where  *)
(* launch and start-agent take source and broker from.                     *)
(***************************************************************************)
EXTENDS Manifest, WellFoundedInduction, TLAPS

-----------------------------------------------------------------------------
(* Types *)

\* The initial state is well typed.
LEMMA InitType == Init => TypeOK
  <1> SUFFICES ASSUME Init PROVE TypeOK
    OBVIOUS
  <1>1. plan \in Seq(Entry)
    BY DEF Init
  <1>2. dir \in [Name -> Kind]
    BY DEF Init, Absent, Kind
  <1>3. root \in BOOLEAN /\ clean \in BOOLEAN
    BY DEF Init
  <1>4. report \subseteq {"mismatch", "extra"} \X (Name \cup {None})
    BY DEF Init
  <1>5. manifest \in Manifests /\ outer \in GitHub \cup {None}
    BY DEF Init
  <1>6. pc \in {"idle", "entry", "clone", "cloning", "done", "raised"} /\ k \in Nat \ {0}
    BY DEF Init
  <1>7. QED
    BY <1>1, <1>2, <1>3, <1>4, <1>5, <1>6 DEF TypeOK

\* The entry a sync is at is an entry.
LEMMA EntryType ==
  ASSUME TypeOK, NEW i \in DOMAIN plan
  PROVE  plan[i] \in Entry /\ plan[i].name \in Name \cup {None} /\ plan[i].remote \in Url \cup {None}
  <1>1. plan[i] \in Entry
    BY DEF TypeOK
  <1>2. QED
    BY <1>1 DEF Entry

\* Every step keeps the variables in their types.
LEMMA NextType == TypeOK /\ NamedInv /\ [Next]_vars => TypeOK'
  <1> SUFFICES ASSUME TypeOK, NamedInv, [Next]_vars PROVE TypeOK'
    OBVIOUS
  <1>1. CASE Begin
    <2>1. manifest.entries \in Seq(Entry)
      BY EntriesAreTyped DEF TypeOK
    <2>2. QED
      BY <1>1, <2>1 DEF Begin, TypeOK
  <1>2. CASE Skip
    <2>1. plan[k].name \in Name \cup {None}
      BY <1>2, EntryType DEF Skip
    <2>2. report' \subseteq {"mismatch", "extra"} \X (Name \cup {None})
      BY <1>2, <2>1 DEF Skip, TypeOK
    <2>3. QED
      BY <1>2, <2>2 DEF Skip, TypeOK
  <1>3. CASE Missing
    BY <1>3 DEF Missing, TypeOK
  <1>4. CASE CloneStarts
    <2>1. plan[k].remote \in Url \cup {None}
      BY <1>4, EntryType DEF CloneStarts, NamedInv
    <2>2. dir' \in [Name -> Kind]
      BY <1>4, <2>1 DEF CloneStarts, TypeOK, Kind
    <2>3. QED
      BY <1>4, <2>2 DEF CloneStarts, TypeOK
  <1>5. CASE CloneRefused
    BY <1>5 DEF CloneRefused, TypeOK
  <1>6. CASE CloneEnds
    <2>1. dir' \in [Name -> Kind]
      BY <1>6 DEF CloneEnds, TypeOK, Kind
    <2>2. QED
      BY <1>6, <2>1 DEF CloneEnds, TypeOK
  <1>7. CASE CloneFails
    <2>1. dir' \in [Name -> Kind]
      BY <1>7 DEF CloneFails, TypeOK, Kind, Absent
    <2>2. QED
      BY <1>7, <2>1 DEF CloneFails, TypeOK
  <1>8. CASE Killed
    BY <1>8 DEF Killed, TypeOK
  <1>9. CASE End
    <2>1. Extras(plan) \subseteq Name
      BY DEF Extras
    <2>2. QED
      BY <1>9, <2>1 DEF End, TypeOK
  <1>10. CASE Edit
    BY <1>10 DEF Edit, TypeOK, syncVars
  <1>11. CASE PutRoot
    <2>1. dir' \in [Name -> Kind]
      BY <1>11 DEF PutRoot, Kind, Absent
    <2>2. QED
      BY <1>11, <2>1 DEF PutRoot, TypeOK, syncVars
  <1>12. ASSUME NEW n \in Name, Put(n) PROVE TypeOK'
    <2>1. dir' \in [Name -> Kind]
      BY <1>12, NamesAreText DEF Put, TypeOK, Kind, File, Absent
    <2>2. QED
      BY <1>12, <2>1 DEF Put, TypeOK, syncVars
  <1>13. CASE UNCHANGED vars
    BY <1>13 DEF vars, syncVars, TypeOK
  <1>14. QED
    BY <1>1, <1>2, <1>3, <1>4, <1>5, <1>6, <1>7, <1>8, <1>9, <1>10, <1>11, <1>12, <1>13
       DEF Next, SyncStep

-----------------------------------------------------------------------------
(* What a sync leaves *)

\* A name is in the entry whose clone is due.
LEMMA NextNamed == TypeOK /\ NamedInv /\ [Next]_vars => NamedInv'
  <1> SUFFICES ASSUME TypeOK, NamedInv, [Next]_vars PROVE NamedInv'
    OBVIOUS
  <1>1. CASE Missing
    <2>1. plan[k].name # None
      BY <1>1 DEF Missing, IsDir, At
    <2>2. QED
      BY <1>1, <2>1, EntryType DEF Missing, NamedInv
  <1>2. CASE CloneStarts \/ CloneRefused \/ CloneEnds \/ CloneFails \/ Killed
    BY <1>2 DEF CloneStarts, CloneRefused, CloneEnds, CloneFails, Killed, NamedInv
  <1>3. CASE Begin \/ Skip \/ End
    BY <1>3 DEF Begin, Skip, End, NamedInv, Busy
  <1>4. CASE Edit \/ PutRoot \/ (\E n \in Name : Put(n)) \/ UNCHANGED vars
    BY <1>4 DEF Edit, PutRoot, Put, vars, syncVars, NamedInv
  <1>5. QED
    BY <1>1, <1>2, <1>3, <1>4 DEF Next, SyncStep

\* What is elsewhere is not what a step at the entry k changes.
LEMMA OtherNames ==
  ASSUME NEW n, n # None => dir'[n] = dir[n], outer' = outer
  PROVE  (IsDir(n)' <=> IsDir(n)) /\ OriginOf(n)' = OriginOf(n)
  <1>1. At(n)' = At(n)
    BY DEF At
  <1>2. QED
    BY <1>1 DEF IsDir, OriginOf

\* What CloneStarts makes is there, and nothing else is changed.
LEMMA StartsDir ==
  ASSUME TypeOK, NamedInv, CloneStarts
  PROVE  /\ dir'[plan[k].name] = [kind |-> "partial", url |-> plan[k].remote]
         /\ \A n \in Name : n # plan[k].name => dir'[n] = dir[n]
         /\ ~IsDir(plan[k].name) /\ IsDir(plan[k].name)'
  <1>1. plan[k].name \in Name /\ plan[k].name # None
    BY NamesAreText DEF CloneStarts, NamedInv
  <1>2. /\ dir'[plan[k].name] = [kind |-> "partial", url |-> plan[k].remote]
        /\ \A n \in Name : n # plan[k].name => dir'[n] = dir[n]
    BY <1>1 DEF CloneStarts, TypeOK
  <1>3. QED
    BY <1>1, <1>2 DEF CloneStarts, IsDir, At, Absent

\* A clone that ends has the origin it was given.
LEMMA EndsDir ==
  ASSUME TypeOK, NamedInv, CloneEnds, NEW n0, n0 = plan[k].name
  PROVE  /\ dir'[plan[k].name] = [kind |-> "dir", url |-> dir[plan[k].name].url]
         /\ \A n \in Name : n # plan[k].name => dir'[n] = dir[n]
         /\ IsDir(n0)'
  <1>1. plan[k].name \in Name /\ plan[k].name # None
    BY NamesAreText DEF CloneEnds, NamedInv
  <1>2. /\ dir'[plan[k].name] = [dir[plan[k].name] EXCEPT !.kind = "dir"]
        /\ \A n \in Name : n # plan[k].name => dir'[n] = dir[n]
    BY <1>1 DEF CloneEnds, TypeOK
  <1>3. dir[plan[k].name] \in Kind
    BY <1>1 DEF TypeOK
  <1>4. dir'[plan[k].name] = [kind |-> "dir", url |-> dir[plan[k].name].url]
    BY <1>2, <1>3 DEF Kind
  <1>5. IsDir(n0)'
    BY <1>1, <1>4 DEF CloneEnds, IsDir, At
  <1>6. QED
    BY <1>2, <1>4, <1>5

\* Where a clone has failed there is nothing.
LEMMA FailsDir ==
  ASSUME TypeOK, NamedInv, CloneFails
  PROVE  /\ \A n \in Name : n # plan[k].name => dir'[n] = dir[n]
         /\ ~IsDir(plan[k].name)'
  <1>1. plan[k].name \in Name /\ plan[k].name # None
    BY NamesAreText DEF CloneFails, NamedInv
  <1>2. /\ dir'[plan[k].name] = Absent
        /\ \A n \in Name : n # plan[k].name => dir'[n] = dir[n]
    BY <1>1 DEF CloneFails, TypeOK
  <1>3. QED
    BY <1>1, <1>2 DEF CloneFails, IsDir, At, Absent

\* An undisturbed sync has a directory for each entry it has passed.
LEMMA NextPassed == TypeOK /\ NamedInv /\ PassedInv /\ [Next]_vars => PassedInv'
  <1> SUFFICES ASSUME TypeOK, NamedInv, PassedInv, [Next]_vars, Undisturbed' PROVE PassedInv'
    BY DEF PassedInv
  <1>1. plan \in Seq(Entry) /\ k \in Nat \ {0} /\ DOMAIN plan \subseteq Nat
    BY DEF TypeOK
  <1>2. \A i \in DOMAIN plan : plan[i].name \in Name \cup {None}
    BY EntryType
  <1>3. CASE Begin
    <2>1. manifest.entries \in Seq(Entry)
      BY EntriesAreTyped DEF TypeOK
    <2>2. \A i \in DOMAIN manifest.entries : ~(i < 1)
      BY <2>1
    <2>3. QED
      BY <1>3, <2>2 DEF Begin, PassedInv
  <1>4. CASE Skip
    <2>1. \A i \in DOMAIN plan : i < k + 1 => i < k \/ i = k
      BY <1>1
    <2>2. QED
      BY <1>4, <2>1 DEF Skip, PassedInv, Undisturbed, IsDir, At
  <1>5. CASE Missing
    BY <1>5 DEF Missing, PassedInv, Undisturbed, IsDir, At
  <1>6. CASE CloneStarts
    <2>1. Undisturbed
      BY <1>6 DEF CloneStarts, Undisturbed
    <2>2. \A i \in DOMAIN plan : i < k => plan[i].name # plan[k].name
      BY <1>6, <2>1, StartsDir DEF PassedInv
    <2>3. \A i \in DOMAIN plan : i < k => IsDir(plan[i].name)'
      BY <1>2, <1>6, <2>1, <2>2, StartsDir DEF CloneStarts, PassedInv, IsDir, At
    <2>4. plan[k].remote # None
      BY <1>6 DEF CloneStarts
    <2>5. QED
      BY <1>6, <2>1, <2>2, <2>3, <2>4, StartsDir DEF CloneStarts, PassedInv
  <1>7. CASE CloneRefused
    BY <1>7 DEF CloneRefused, NamedInv, PassedInv, Undisturbed, IsDir, At
  <1>8. CASE CloneEnds
    <2>1. Undisturbed
      BY <1>8 DEF CloneEnds, Undisturbed
    <2>2. \A i \in DOMAIN plan : i < k => IsDir(plan[i].name)'
      BY <1>2, <1>8, <2>1, EndsDir DEF CloneEnds, PassedInv, IsDir, At
    <2>3. \A i \in DOMAIN plan : i < k + 1 => i < k \/ i = k
      BY <1>1
    <2>4. \A i \in DOMAIN plan : i = k => IsDir(plan[i].name)'
      BY <1>8, EndsDir DEF CloneEnds
    <2>5. QED
      BY <1>8, <2>1, <2>2, <2>3, <2>4 DEF CloneEnds, PassedInv
  <1>9. CASE CloneFails
    <2>1. Undisturbed
      BY <1>9 DEF CloneFails, Undisturbed
    <2>2. \A i \in DOMAIN plan : i < k => IsDir(plan[i].name)'
      BY <1>2, <1>9, <2>1, FailsDir DEF CloneFails, PassedInv, IsDir, At
    <2>3. QED
      BY <1>9, <2>1, <2>2, FailsDir DEF CloneFails, NamedInv, PassedInv
  <1>10. CASE Killed
    BY <1>10 DEF Killed, Undisturbed
  <1>11. CASE End
    BY <1>11 DEF End, PassedInv, Undisturbed, IsDir, At
  <1>12. CASE Edit \/ UNCHANGED vars
    BY <1>12 DEF Edit, vars, syncVars, PassedInv, Undisturbed, IsDir, At
  <1>13. CASE PutRoot \/ (\E n \in Name : Put(n))
    BY <1>13 DEF PutRoot, Put, Undisturbed
  <1>14. QED
    BY <1>3, <1>4, <1>5, <1>6, <1>7, <1>8, <1>9, <1>10, <1>11, <1>12, <1>13 DEF Next, SyncStep

\* Mismatches among the entries before l, in the names of this module's proofs.
Missed(n, l) == \E i \in DOMAIN plan : i < l /\ plan[i].name = n /\ OriginOf(n) # plan[i].remote

\* A step at the entry k that leaves other names alone keeps what was said of the
\* entries before it, if none of them has the name of k.
LEMMA MissedFrame ==
  ASSUME TypeOK, plan' = plan, outer' = outer, NEW n \in Name \cup {None},
         \A i \in DOMAIN plan : i < k => plan[i].name # plan[k].name,
         \A x \in Name : x # plan[k].name => dir'[x] = dir[x]
  PROVE  (\E i \in DOMAIN plan : i < k /\ plan[i].name = n /\ OriginOf(n)' # plan[i].remote)
           <=> Missed(n, k)
  <1>1. CASE n = plan[k].name
    BY <1>1 DEF Missed
  <1>2. CASE n # plan[k].name
    <2>1. n # None => dir'[n] = dir[n]
      BY <1>2
    <2>2. OriginOf(n)' = OriginOf(n)
      BY <2>1, OtherNames
    <2>3. QED
      BY <2>2 DEF Missed
  <1>3. QED
    BY <1>1, <1>2

\* What an undisturbed sync has said of entries and directories is what there is.
LEMMA NextReport == TypeOK /\ NamedInv /\ PassedInv /\ ReportInv /\ [Next]_vars => ReportInv'
  <1> SUFFICES ASSUME TypeOK, NamedInv, PassedInv, ReportInv, [Next]_vars, Undisturbed',
                      NEW n \in Name \cup {None}
               PROVE  /\ <<"mismatch", n>> \in report' <=> Missed(n, k)'
                      /\ <<"extra", n>> \in report' <=> pc' = "done" /\ n \in Extras(plan)'
    BY DEF ReportInv, Missed
  <1>1. plan \in Seq(Entry) /\ k \in Nat \ {0} /\ DOMAIN plan \subseteq Nat
    BY DEF TypeOK
  <1>2. Undisturbed =>
          /\ <<"mismatch", n>> \in report <=> Missed(n, k)
          /\ <<"extra", n>> \in report <=> pc = "done" /\ n \in Extras(plan)
    BY DEF ReportInv, Missed
  <1>3. \A i \in DOMAIN plan : i < k + 1 <=> i < k \/ i = k
    BY <1>1
  <1>4. CASE Begin
    <2>1. manifest.entries \in Seq(Entry)
      BY EntriesAreTyped DEF TypeOK
    <2>2. \A i \in DOMAIN manifest.entries : ~(i < 1)
      BY <2>1
    <2>3. QED
      BY <1>4, <2>2 DEF Begin, Missed
  <1>5. CASE Skip
    <2>1. OriginOf(n)' = OriginOf(n) /\ Undisturbed
      BY <1>5 DEF Skip, OriginOf, At, Undisturbed
    <2>2. Missed(n, k)' <=> Missed(n, k) \/ (plan[k].name = n /\ OriginOf(n) # plan[k].remote)
      BY <1>3, <1>5, <2>1 DEF Skip, Missed
    <2>3. <<"mismatch", n>> \in report' <=> Missed(n, k)'
      BY <1>2, <1>5, <2>1, <2>2 DEF Skip
    <2>4. <<"extra", n>> \in report' <=> <<"extra", n>> \in report
      BY <1>5 DEF Skip
    <2>5. QED
      BY <1>2, <1>5, <2>1, <2>3, <2>4 DEF Skip
  <1>6. CASE Missing \/ CloneRefused
    <2>1. OriginOf(n)' = OriginOf(n) /\ Undisturbed
      BY <1>6 DEF Missing, CloneRefused, OriginOf, At, Undisturbed
    <2>2. QED
      BY <1>2, <1>6, <2>1 DEF Missing, CloneRefused, Missed
  <1>7. CASE CloneStarts
    <2>1. Undisturbed
      BY <1>7 DEF CloneStarts, Undisturbed
    <2>2. \A i \in DOMAIN plan : i < k => plan[i].name # plan[k].name
      BY <1>7, <2>1, StartsDir DEF PassedInv
    <2>3. Missed(n, k)' <=> Missed(n, k)
      BY <1>7, <2>2, StartsDir, MissedFrame DEF CloneStarts, Missed
    <2>4. QED
      BY <1>2, <1>7, <2>1, <2>3 DEF CloneStarts
  <1>8. CASE CloneEnds
    <2>1. Undisturbed
      BY <1>8 DEF CloneEnds, Undisturbed
    <2>2. \A i \in DOMAIN plan : i < k => plan[i].name # plan[k].name
      BY <1>8, <2>1 DEF CloneEnds, PassedInv
    <2>3. (\E i \in DOMAIN plan : i < k /\ plan[i].name = n /\ OriginOf(n)' # plan[i].remote)
            <=> Missed(n, k)
      BY <1>8, <2>2, EndsDir, MissedFrame DEF CloneEnds
    <2>4. n = plan[k].name => OriginOf(n)' = plan[k].remote
      <3>1. dir[plan[k].name].url = plan[k].remote /\ plan[k].remote # None
        BY <1>8, <2>1 DEF CloneEnds, PassedInv
      <3>2. n = plan[k].name => n # None /\ dir'[n].url = plan[k].remote
        BY <1>8, <3>1, EndsDir, NamesAreText DEF CloneEnds, NamedInv
      <3>3. QED
        BY <3>1, <3>2 DEF OriginOf, At
    <2>5. Missed(n, k)' <=>
            \E i \in DOMAIN plan : i < k + 1 /\ plan[i].name = n /\ OriginOf(n)' # plan[i].remote
      BY <1>8 DEF CloneEnds, Missed
    <2>6. Missed(n, k)' <=> Missed(n, k)
      BY <1>3, <2>3, <2>4, <2>5
    <2>7. QED
      BY <1>2, <1>8, <2>1, <2>6 DEF CloneEnds
  <1>9. CASE CloneFails
    <2>1. Undisturbed
      BY <1>9 DEF CloneFails, Undisturbed
    <2>2. \A i \in DOMAIN plan : i < k => plan[i].name # plan[k].name
      BY <1>9, <2>1 DEF CloneFails, PassedInv
    <2>3. Missed(n, k)' <=> Missed(n, k)
      BY <1>9, <2>2, FailsDir, MissedFrame DEF CloneFails, Missed
    <2>4. QED
      BY <1>2, <1>9, <2>1, <2>3 DEF CloneFails
  <1>10. CASE Killed
    BY <1>10 DEF Killed, Undisturbed
  <1>11. CASE End
    <2>1. OriginOf(n)' = OriginOf(n) /\ Undisturbed /\ Extras(plan)' = Extras(plan)
      BY <1>11 DEF End, OriginOf, IsDir, At, Undisturbed, Extras
    <2>2. Missed(n, k)' <=> Missed(n, k)
      BY <1>11, <2>1 DEF End, Missed
    <2>3. <<"mismatch", n>> \in report' <=> <<"mismatch", n>> \in report
      BY <1>11 DEF End
    <2>4. <<"extra", n>> \in report' <=> <<"extra", n>> \in report \/ n \in Extras(plan)
      BY <1>11 DEF End
    <2>5. QED
      BY <1>2, <1>11, <2>1, <2>2, <2>3, <2>4 DEF End
  <1>12. CASE Edit \/ UNCHANGED vars
    <2>1. OriginOf(n)' = OriginOf(n) /\ Undisturbed /\ Extras(plan)' = Extras(plan)
      BY <1>12 DEF Edit, vars, syncVars, OriginOf, IsDir, At, Undisturbed, Extras
    <2>2. QED
      BY <1>2, <1>12, <2>1 DEF Edit, vars, syncVars, Missed
  <1>13. CASE PutRoot \/ (\E x \in Name : Put(x))
    BY <1>13 DEF PutRoot, Put, Undisturbed
  <1>14. QED
    BY <1>4, <1>5, <1>6, <1>7, <1>8, <1>9, <1>10, <1>11, <1>12, <1>13 DEF Next, SyncStep

\* Types and strengthening hold in every state.
LEMMA SyncDiscipline == Spec => [](TypeOK /\ SyncInv)
  <1>1. Init => TypeOK /\ SyncInv
    <2> SUFFICES ASSUME Init PROVE TypeOK /\ SyncInv
      OBVIOUS
    <2>1. NamedInv /\ PassedInv /\ ReportInv
      BY DEF Init, NamedInv, PassedInv, ReportInv, Undisturbed
    <2>2. QED
      BY <2>1, InitType DEF SyncInv
  <1>2. TypeOK /\ SyncInv /\ [Next]_vars => TypeOK' /\ SyncInv'
    BY NextType, NextNamed, NextPassed, NextReport DEF SyncInv
  <1>3. QED
    BY <1>1, <1>2, PTL DEF Spec

\* The variables have their types, whatever manifests, clones and commands there are.
THEOREM TypeCorrect == Spec => []TypeOK
  BY SyncDiscipline, PTL

\* When the sync is past the last entry, every entry is one it has passed.
LEMMA AllPassed ==
  ASSUME TypeOK, k \notin DOMAIN plan
  PROVE  \A i \in DOMAIN plan : i < k
  <1>1. k \in Nat \ {0} /\ Len(plan) \in Nat /\ DOMAIN plan = 1..Len(plan)
    BY DEF TypeOK
  <1>2. QED
    BY <1>1

\* An undisturbed sync (`manifest sync`) has a directory for each entry before the one
\* it is at, and where a clone has failed there is nothing.
THEOREM SyncGoesInOrder == Spec => []SyncedInOrder
  <1>1. TypeOK /\ SyncInv => SyncedInOrder
    <2> SUFFICES ASSUME TypeOK, SyncInv, clean, Busy \/ pc \in {"done", "raised"}
                 PROVE  /\ \A i \in DOMAIN plan : i < k => IsDir(plan[i].name)
                        /\ pc = "done" => \A i \in DOMAIN plan : IsDir(plan[i].name)
                        /\ pc = "raised" => k \in DOMAIN plan /\ ~IsDir(plan[k].name)
      BY DEF SyncedInOrder
    <2>1. Undisturbed
      BY DEF Busy, Undisturbed
    <2>2. QED
      BY <2>1, AllPassed DEF SyncInv, PassedInv
  <1>2. QED
    BY <1>1, SyncDiscipline, PTL

\* A completed sync that nobody disturbed warns of exactly what validate rejects, but
\* for directories that are in no repository.
THEOREM SyncAgreesWithValidate == Spec => []SyncThenValid
  <1>1. TypeOK /\ SyncInv => SyncThenValid
    <2> SUFFICES ASSUME TypeOK, SyncInv, pc = "done", clean
                 PROVE  DirsValid(plan) <=>
                          report \subseteq {<<"mismatch", b.name>> : b \in Unreadable(plan)}
      BY DEF SyncThenValid
    <2> DEFINE Allowed == {<<"mismatch", b.name>> : b \in Unreadable(plan)}
               Fits == \A i \in DOMAIN plan :
                         OriginOf(plan[i].name) \in {None, plan[i].remote}
    <2>1. Undisturbed /\ root /\ k \notin DOMAIN plan
      BY DEF Undisturbed, SyncInv, PassedInv
    <2>2. \A i \in DOMAIN plan : i < k /\ IsDir(plan[i].name)
      BY <2>1, AllPassed DEF SyncInv, PassedInv
    <2>3. \A i \in DOMAIN plan : At(plan[i].name).kind # "absent"
      BY <2>2 DEF IsDir
    <2>4. DirsValid(plan) <=> Extras(plan) = {} /\ Fits
      BY <2>1, <2>2, <2>3 DEF DirsValid
    <2>5. \A n \in Name \cup {None} :
            /\ <<"mismatch", n>> \in report <=>
                 \E i \in DOMAIN plan : plan[i].name = n /\ OriginOf(n) # plan[i].remote
            /\ <<"extra", n>> \in report <=> n \in Extras(plan)
      BY <2>1, <2>2 DEF SyncInv, ReportInv
    <2>6. \A n : <<"mismatch", n>> \in Allowed <=>
            \E i \in DOMAIN plan : plan[i].name = n /\ OriginOf(plan[i].name) = None
      BY DEF Unreadable
    <2>7. ASSUME Extras(plan) = {}, Fits PROVE report \subseteq Allowed
      <3> SUFFICES ASSUME NEW r \in report PROVE r \in Allowed
        OBVIOUS
      <3>1. PICK t \in {"mismatch", "extra"}, n \in Name \cup {None} : r = <<t, n>>
        BY DEF TypeOK
      <3>2. t = "mismatch"
        BY <2>5, <2>7, <3>1
      <3>3. PICK i \in DOMAIN plan : plan[i].name = n /\ OriginOf(n) # plan[i].remote
        BY <2>5, <3>1, <3>2
      <3>4. OriginOf(plan[i].name) = None
        BY <2>7, <3>3
      <3>5. QED
        BY <2>6, <3>1, <3>2, <3>3, <3>4
    <2>8. ASSUME report \subseteq Allowed PROVE Extras(plan) = {} /\ Fits
      <3>1. \A n \in Name : <<"extra", n>> \notin Allowed
        OBVIOUS
      <3>2. Extras(plan) = {}
        BY <2>5, <2>8, <3>1 DEF Extras
      <3>3. ASSUME NEW i \in DOMAIN plan, OriginOf(plan[i].name) # plan[i].remote
            PROVE  OriginOf(plan[i].name) = None
        <4>1. <<"mismatch", plan[i].name>> \in report
          BY <2>5, <3>3, EntryType
        <4>2. QED
          BY <2>6, <2>8, <4>1
      <3>4. QED
        BY <3>2, <3>3
    <2>9. QED
      BY <2>4, <2>7, <2>8
  <1>2. QED
    BY <1>1, SyncDiscipline, PTL

-----------------------------------------------------------------------------
(* Where launch and start-agent take source and broker from *)

LessThan == {p \in Nat \X Nat : p[1] < p[2]}

\* Least finds the least element.
LEMMA LeastIn ==
  ASSUME NEW S \in SUBSET Nat, S # {}
  PROVE  Least(S) \in S /\ \A j \in S : Least(S) <= j
  <1>1. IsWellFoundedOn(LessThan, Nat)
    BY NatLessThanWellFounded DEF OpToRel, LessThan
  <1>2. PICK i \in S : \A j \in S : <<j, i>> \notin LessThan
    BY <1>1, WFMin
  <1>3. \A j \in S : ~(j < i)
    <2> SUFFICES ASSUME NEW j \in S, j < i PROVE FALSE
      OBVIOUS
    <2>1. <<j, i>> \in Nat \X Nat /\ <<j, i>>[1] = j /\ <<j, i>>[2] = i
      OBVIOUS
    <2>2. <<j, i>> \in LessThan
      BY <2>1 DEF LessThan
    <2>3. QED
      BY <1>2, <2>2
  <1>4. \A j \in S : i <= j
    BY <1>3
  <1>5. QED
    BY <1>4 DEF Least

\* Of two values the first that is given.
LEMMA FirstOfTwo ==
  ASSUME NEW a, NEW b
  PROVE  FirstOf(<<a, b>>) = IF a # None THEN a ELSE b
  <1> DEFINE s == <<a, b>>
             given == {i \in DOMAIN s : s[i] # None}
  <1>1. given \in SUBSET Nat /\ (1 \in given <=> a # None) /\ (2 \in given <=> b # None)
        /\ given \subseteq {1, 2} /\ s[1] = a /\ s[2] = b
    OBVIOUS
  <1>2. given # {} => Least(given) \in given /\ \A j \in given : Least(given) <= j
    BY <1>1, LeastIn
  <1>3. FirstOf(s) = IF given = {} THEN None ELSE s[Least(given)]
    BY DEF FirstOf
  <1> HIDE DEF s, given
  <1>4. given = {} \/ Least(given) = 1 \/ Least(given) = 2
    BY <1>1, <1>2
  <1>5. FirstOf(s) = IF a # None THEN a ELSE b
    BY <1>1, <1>2, <1>3, <1>4
  <1>6. QED
    BY <1>5 DEF s

\* Of three likewise.
LEMMA FirstOfThree ==
  ASSUME NEW a, NEW b, NEW c
  PROVE  FirstOf(<<a, b, c>>) = IF a # None THEN a ELSE IF b # None THEN b ELSE c
  <1> DEFINE s == <<a, b, c>>
             given == {i \in DOMAIN s : s[i] # None}
  <1>1. /\ given \in SUBSET Nat /\ given \subseteq {1, 2, 3}
        /\ (1 \in given <=> a # None) /\ (2 \in given <=> b # None) /\ (3 \in given <=> c # None)
        /\ s[1] = a /\ s[2] = b /\ s[3] = c
    OBVIOUS
  <1>2. given # {} => Least(given) \in given /\ \A j \in given : Least(given) <= j
    BY <1>1, LeastIn
  <1>3. FirstOf(s) = IF given = {} THEN None ELSE s[Least(given)]
    BY DEF FirstOf
  <1> HIDE DEF s, given
  <1>4. given = {} \/ Least(given) = 1 \/ Least(given) = 2 \/ Least(given) = 3
    BY <1>1, <1>2
  <1>5. FirstOf(s) = IF a # None THEN a ELSE IF b # None THEN b ELSE c
    BY <1>1, <1>2, <1>3, <1>4
  <1>6. QED
    BY <1>5 DEF s

\* A manifest that validate accepts gives each of its BCs a source that launch
\* (_resolve_manifest_remote) finds, also when two entries have one name.
THEOREM ValidLaunches == Spec => []ValidMeansLaunchable
  <1>1. TypeOK => ValidMeansLaunchable
    <2> SUFFICES ASSUME TypeOK, NEW e \in Envs, NEW f \in Options,
                        Valid(manifest, e, f, GitHub), manifest.product # Malformed,
                        Network(manifest, e, f) # None, NEW i \in DOMAIN manifest.entries
                 PROVE  Launches(manifest, e, f, manifest.entries[i].name)
      BY DEF ValidMeansLaunchable
    <2> DEFINE name  == manifest.entries[i].name
               named == {j \in DOMAIN manifest.entries : manifest.entries[j].name = name}
    <2>1. manifest.entries \in Seq(Entry)
      BY EntriesAreTyped DEF TypeOK
    <2>2. named \in SUBSET Nat /\ i \in named
      BY <2>1
    <2>3. Least(named) \in named
      BY <2>2, LeastIn
    <2>4. \A j \in DOMAIN manifest.entries :
            manifest.entries[j].remote \in GitHub /\ manifest.entries[j].remote # None
      BY DEF Valid, EntryValid
    <2>5. ManifestRemote(manifest, name) # None
      <3>1. manifest.entries[Least(named)].remote \notin {None, Blank}
        BY <2>3, <2>4, NamesAreText
      <3>2. manifest.file = "ok" /\ named # {}
        BY <2>2 DEF Valid
      <3>3. QED
        BY <3>1, <3>2 DEF ManifestRemote
    <2>6. f.mount # None \/ CloneSource(manifest, f, name) # None
      BY <2>5 DEF CloneSource
    <2>7. QED
      BY <2>6 DEF Launches, Valid, IsBadProduct
  <1>2. QED
    BY <1>1, TypeCorrect, PTL

\* Where the product of the manifest decides network and slug, the broker that is
\* probed (resolve_probe_broker_address) is the one on the container's network.
THEOREM ProbesTheNetworksBroker == Spec => []ProbeOnNetwork
  <1>1. TypeOK => ProbeOnNetwork
    <2> SUFFICES ASSUME TypeOK, NEW e \in Envs, NEW f \in Options,
                        f.network = None, ExplicitBroker(e, f) = None,
                        LoadedProduct(manifest) # None,
                        e.slug \in {None, LoadedProduct(manifest)},
                        Slugified(LoadedProduct(manifest)) = Default
                          => LoadedProduct(manifest) = Default
                 PROVE  /\ LaunchProbe(manifest, e, f) = BrokerOn(Network(manifest, e, f))
                        /\ StartProbe(manifest, e, f) = BrokerOn(Network(manifest, e, f))
      BY DEF ProbeOnNetwork
    <2> DEFINE product == LoadedProduct(manifest)
    <2>1. SystemSlug(manifest, e) = product /\ StartSlug(manifest, e) = product
      BY FirstOfThree DEF SystemSlug, StartSlug
    <2>2. Slugified(product) # None /\ Slugified(Default) = Default
      BY ProductsAreText DEF TypeOK
    <2>3. Network(manifest, e, f) = Slugified(product)
      <3>1. ProductNetwork(manifest) = Slugified(product)
        BY DEF ProductNetwork
      <3>2. QED
        BY <2>2, <3>1, FirstOfThree DEF Network
    <2>4. ProbeAddress(None, product) = IF product # Default THEN Qualified(Slugified(product))
                                        ELSE Unqualified
      BY DEF ProbeAddress
    <2>5. QED
      BY <2>1, <2>2, <2>3, <2>4 DEF BrokerOn, LaunchProbe, StartProbe
  <1>2. QED
    BY <1>1, TypeCorrect, PTL
=============================================================================
