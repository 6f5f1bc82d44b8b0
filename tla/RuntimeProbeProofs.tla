------------------------- MODULE RuntimeProbeProofs -------------------------
(***************************************************************************)
(* The merge of profiles.json and the acceptance of an aircraft are        *)
(* correct for all texts, profiles, files, modules, images and memories.   *)
(*                                                                         *)
(* The merge is a loop over the entries of the file: MergeInv says of the  *)
(* entries before "next" what MergedAsWhole says of all of them.      *)
(* ProbeInv says of a candidate what its validation has shown so far, and  *)
(* SearchInv of the profiles and modules already tried why they were given *)
(* up, as long as nothing has changed.                                     *)
(***************************************************************************)
EXTENDS RuntimeProbe, SequenceTheorems, WellFoundedInduction, TLAPS

-----------------------------------------------------------------------------
(* Profiles *)

LEMMA NormalizeType ==
  ASSUME NEW p \in Profile
  PROVE  Normalize(p) \in Profile /\ Normalize(p).id = Trim[p.id]
<1> USE DEF Profile
<1>1. Trim[p.id] \in Text /\ Trim[p.adapter] \in Text /\ Trim[p.name] \in Text
      /\ Trim[p.maker] \in Text /\ Empty \in Text /\ Wasm \in Text /\ Memory \in Text
      /\ Callbacks \subseteq Text
  BY TextAssumption
<1>2. \A t, d \in Text : OrElse(t, d) \in Text
  BY DEF OrElse
<1> DEFINE adapter  == OrElse(Trim[p.adapter], Wasm)
           linr     == IF adapter = Wasm THEN OrElse(p.linear, Memory) ELSE p.linear
           required == IF adapter = Wasm /\ p.required = {}
                       THEN {linr} \cup Callbacks ELSE p.required
<1>3. adapter \in Text /\ linr \in Text
  BY <1>1, <1>2
<1>4. required \in SUBSET Text
  BY <1>1, <1>3
<1>5. OrElse(Trim[p.name], Trim[p.maker]) \in Text
  BY <1>1, <1>2
<1>6. Normalize(p) =
        [id |-> Trim[p.id], adapter |-> adapter,
         name |-> OrElse(Trim[p.name], Trim[p.maker]), maker |-> p.maker,
         required |-> required, linear |-> linr, hints |-> p.hints,
         messages |-> p.messages, layout |-> p.layout]
  BY DEF Normalize
<1> HIDE DEF adapter, linr, required
<1> QED
  BY <1>1, <1>3, <1>4, <1>5, <1>6

-----------------------------------------------------------------------------
(* The loop of mergeProfileJSON *)

\* Of the entries before next, j is the last with its ID.
LastSoFar(j) == \A k \in j+1..next-1 : Given(k).id # Given(j).id

DistinctIds(list) == \A i, j \in 1..Len(list) : list[i].id = list[j].id => i = j

\* Every profile of the list comes from the last entry with its ID, or is a
\* built-in one that no entry replaces.
FromFile(i)  == \E j \in 1..next-1 : LastSoFar(j) /\ out[i] = Given(j)
Untouched(i) == /\ i <= Len(BuiltIn) /\ out[i] = Normalize(BuiltIn[i])
                /\ \A j \in 1..next-1 : Given(j).id # out[i].id

Merging ==
  /\ file \in Seq(Profile) /\ file \notin {Absent, Garbled}
  /\ out \in Seq(Profile) /\ next \in 1..Len(file) + 1
  /\ Len(out) >= Len(BuiltIn)
  /\ DistinctIds(out)
  /\ \A i \in 1..Len(BuiltIn) : out[i].id = Trim[BuiltIn[i].id]
  /\ \A j \in 1..next-1 : Valid(Given(j))
  /\ \A j \in 1..next-1 : LastSoFar(j) => \E i \in 1..Len(out) : out[i] = Given(j)
  /\ \A i \in 1..Len(out) : FromFile(i) \/ Untouched(i)

MergeInv ==
  /\ file \in Files /\ mpc \in {"read", "merge", "loaded"}
  /\ profiles \in Seq(Profile)
  /\ mpc # "loaded" => profiles = BuiltIn
  /\ mpc = "read" => next = 1
  /\ mpc = "merge" => Merging
  /\ UniqueIds /\ MergedAsWhole

LEMMA BuiltInUnique == DistinctIds(BuiltIn)
  BY BuiltInAssumption, Zenon DEF DistinctIds

LEMMA MergeStart == MergeInit => MergeInv
<1> SUFFICES ASSUME MergeInit PROVE MergeInv
  OBVIOUS
<1>1. file \in Files /\ profiles = BuiltIn /\ mpc = "read" /\ next = 1
  BY DEF MergeInit
<1>2. UniqueIds
  BY <1>1, BuiltInUnique DEF UniqueIds, DistinctIds
<1>3. MergedAsWhole
  BY <1>1 DEF MergedAsWhole
<1> QED
  BY <1>1, <1>2, <1>3, BuiltInAssumption DEF MergeInv

LEMMA IgnoreKeeps == ASSUME MergeInv, IgnoreFile PROVE MergeInv'
<1>1. profiles = BuiltIn /\ profiles' = profiles /\ file' = file /\ mpc' = "loaded"
      /\ file \in {Absent, Garbled} /\ file \in Files /\ profiles \in Seq(Profile)
  BY DEF MergeInv, IgnoreFile
<1>2. UniqueIds'
  BY <1>1 DEF MergeInv, UniqueIds
<1>3. MergedAsWhole'
  BY <1>1 DEF MergedAsWhole
<1> QED
  BY <1>1, <1>2, <1>3 DEF MergeInv

LEMMA RejectKeeps == ASSUME MergeInv, RejectFile PROVE MergeInv'
<1>1. /\ profiles = BuiltIn /\ profiles' = profiles /\ file' = file /\ mpc' = "loaded"
      /\ file \in Files /\ profiles \in Seq(Profile) /\ Merging
      /\ next <= Len(file) /\ ~Valid(Given(next))
  BY DEF MergeInv, RejectFile, Entry, Given
<1>2. next \in 1..Len(file)
  <2>1. next \in 1..Len(file) + 1 /\ Len(file) \in Nat /\ next <= Len(file)
    BY <1>1 DEF Merging
  <2> QED
    BY <2>1, SMT
<1>3. UniqueIds'
  BY <1>1 DEF MergeInv, UniqueIds
<1>4. \E j \in 1..Len(file) : ~Valid(Given(j))
  BY <1>1, <1>2
<1>5. \A j : Given(j)' = Given(j)
  BY <1>1 DEF Given
<1>6. MergedAsWhole'
  BY <1>1, <1>4, <1>5 DEF MergedAsWhole
<1> QED
  BY <1>1, <1>3, <1>6 DEF MergeInv

LEMMA StartKeeps == ASSUME MergeInv, StartMerge PROVE MergeInv'
<1>1. /\ profiles = BuiltIn /\ profiles' = profiles /\ file' = file /\ mpc' = "merge"
      /\ mpc = "read" /\ next = 1 /\ next' = next
      /\ file \in Files /\ file \notin {Absent, Garbled}
      /\ out' = [i \in 1..Len(BuiltIn) |-> Normalize(BuiltIn[i])]
  BY DEF MergeInv, StartMerge
<1>2. file \in Seq(Profile) /\ Len(file) \in Nat
  BY <1>1, FilesAssumption
<1>3. BuiltIn \in Seq(Profile) /\ Len(BuiltIn) \in Nat
  BY BuiltInAssumption
<1>4. \A i \in 1..Len(BuiltIn) : BuiltIn[i] \in Profile
  BY <1>3
<1>5. \A i \in 1..Len(BuiltIn) :
         Normalize(BuiltIn[i]) \in Profile /\ Normalize(BuiltIn[i]).id = Trim[BuiltIn[i].id]
  BY <1>4, NormalizeType
<1>6. out' \in Seq(Profile) /\ Len(out') = Len(BuiltIn)
  BY <1>1, <1>3, <1>5
<1>7. \A i \in 1..Len(BuiltIn) :
         out'[i] = Normalize(BuiltIn[i]) /\ out'[i].id = Trim[BuiltIn[i].id]
  BY <1>1, <1>5
<1>8. DistinctIds(out')
  BY <1>6, <1>7, BuiltInAssumption, Zenon DEF DistinctIds
<1>9. next' \in 1..Len(file') + 1 /\ \A j : j \notin 1..next'-1
  BY <1>1, <1>2, SMT
<1>10. ASSUME NEW i \in 1..Len(out') PROVE Untouched(i)'
  <2>1. i \in 1..Len(BuiltIn)
    BY <1>6
  <2>2. i <= Len(BuiltIn)
    BY <1>3, <2>1, SMT
  <2> QED
    BY <1>7, <1>9, <2>1, <2>2, Zenon DEF Untouched
<1>11. Merging'
  BY <1>1, <1>2, <1>6, <1>7, <1>8, <1>9, <1>10, <1>3 DEF Merging
<1>12. UniqueIds' /\ MergedAsWhole'
  BY <1>1 DEF MergeInv, UniqueIds, MergedAsWhole
<1> QED
  BY <1>1, <1>3, <1>11, <1>12 DEF MergeInv

\* What an entry that is taken needs, and what it leaves of the earlier ones.
LEMMA EntryTaken ==
  ASSUME MergeInv, mpc = "merge", next <= Len(file), file' = file, next' = next + 1
  PROVE  /\ next \in 1..Len(file) /\ next \in 1..next'-1
         /\ next' \in 1..Len(file') + 1
         /\ Entry = Given(next) /\ Given(next) \in Profile
         /\ \A j \in 1..next'-1 : j \in 1..next-1 \/ j = next
         /\ \A j \in 1..next-1 : j \in 1..next'-1
         /\ \A j : Given(j)' = Given(j)
         /\ \A j : j = next => LastSoFar(j)'
         /\ \A j \in 1..next-1 :
              LastSoFar(j)' <=> LastSoFar(j) /\ Given(next).id # Given(j).id
<1>1. Merging
  BY DEF MergeInv
<1>2. next \in 1..Len(file) + 1 /\ Len(file) \in Nat /\ file \in Seq(Profile)
  BY <1>1 DEF Merging
<1>3. next \in 1..Len(file) /\ next \in 1..next'-1 /\ next' \in 1..Len(file) + 1
  BY <1>2, SMT
<1>4. Entry = Given(next) /\ \A j : Given(j)' = Given(j)
  BY DEF Entry, Given
<1>5. file[next] \in Profile
  BY <1>2, <1>3
<1>6. Given(next) \in Profile
  BY <1>5, NormalizeType DEF Given
<1>7. \A j \in 1..next'-1 : j \in 1..next-1 \/ j = next
  BY <1>2, SMT
<1>8. \A j \in 1..next-1 : j \in 1..next'-1
  BY <1>2, SMT
<1>9. \A k : k \notin next+1..next'-1
  BY <1>2, SMT
<1>10. \A j : j = next => LastSoFar(j)'
  BY <1>9 DEF LastSoFar
<1>11. ASSUME NEW j \in 1..next-1
       PROVE  LastSoFar(j)' <=> LastSoFar(j) /\ Given(next).id # Given(j).id
  <2>1. \A k : k \in j+1..next'-1 <=> k \in j+1..next-1 \/ k = next
    BY <1>2, SMT
  <2> QED
    BY <2>1, <1>4 DEF LastSoFar
<1> QED
  BY <1>3, <1>4, <1>6, <1>7, <1>8, <1>10, <1>11

LEMMA ReplaceKeeps == ASSUME MergeInv, ReplaceProfile PROVE MergeInv'
<1>1. /\ mpc = "merge" /\ mpc' = mpc /\ next <= Len(file) /\ next' = next + 1
      /\ file' = file /\ profiles' = profiles /\ Valid(Entry)
  BY DEF ReplaceProfile
<1>2. Merging /\ file \in Files
  BY <1>1 DEF MergeInv
<1>3. PICK r \in 1..Len(out) : Holds(r, Entry.id) /\ out' = [out EXCEPT ![r] = Entry]
  BY DEF ReplaceProfile
<1>4. out \in Seq(Profile) /\ Len(out) \in Nat /\ Len(BuiltIn) \in Nat
  BY <1>2, BuiltInAssumption DEF Merging
<1>5. Entry = Given(next) /\ Given(next) \in Profile
  BY <1>1, EntryTaken
<1>6. out' \in Seq(Profile) /\ Len(out') = Len(out)
  BY <1>3, <1>4, <1>5
<1>7. /\ out'[r] = Given(next) /\ out[r].id = Given(next).id
      /\ \A i \in 1..Len(out) : i # r => out'[i] = out[i]
  BY <1>3, <1>4, <1>5 DEF Holds
<1>8. \A i \in 1..Len(out) : out'[i].id = out[i].id
  BY <1>7
<1>9. DistinctIds(out')
  BY <1>2, <1>6, <1>8, Zenon DEF Merging, DistinctIds
<1>10. \A i \in 1..Len(BuiltIn) : out'[i].id = Trim[BuiltIn[i].id]
  <2>1. \A i \in 1..Len(BuiltIn) : i \in 1..Len(out)
    BY <1>2, <1>4 DEF Merging
  <2> QED
    BY <1>2, <1>8, <2>1 DEF Merging
<1>11. \A j \in 1..next'-1 : Valid(Given(j)')
  BY <1>1, <1>2, EntryTaken, Zenon DEF Merging
<1>12. ASSUME NEW j \in 1..next'-1, LastSoFar(j)'
       PROVE  \E i \in 1..Len(out') : out'[i] = Given(j)'
  <2>1. Given(j)' = Given(j)
    BY <1>1, EntryTaken
  <2>2. CASE j = next
    BY <1>3, <1>6, <1>7, <2>1, <2>2
  <2>3. CASE j \in 1..next-1
    <3>1. LastSoFar(j) /\ Given(next).id # Given(j).id
      BY <1>1, <1>12, <2>3, EntryTaken
    <3>2. PICK i \in 1..Len(out) : out[i] = Given(j)
      BY <1>2, <2>3, <3>1 DEF Merging
    <3>3. i # r
      BY <1>7, <3>1, <3>2
    <3> QED
      BY <1>6, <1>7, <2>1, <3>2, <3>3
  <2> QED
    BY <1>1, <2>2, <2>3, EntryTaken
<1>13. ASSUME NEW i \in 1..Len(out') PROVE (FromFile(i) \/ Untouched(i))'
  <2>1. i \in 1..Len(out)
    BY <1>6
  <2>2. CASE i = r
    <3>1. \A j : j = next => j \in 1..next'-1 /\ LastSoFar(j)' /\ out'[i] = Given(j)'
      BY <1>1, <1>7, <2>2, EntryTaken
    <3> QED
      BY <3>1 DEF FromFile
  <2>3. CASE i # r
    <3>1. out'[i] = out[i] /\ out[i].id # Given(next).id
      <4>1. out'[i] = out[i]
        BY <1>7, <2>1, <2>3
      <4>2. out[i].id # out[r].id
        BY <1>2, <1>3, <2>1, <2>3, Zenon DEF Merging, DistinctIds
      <4> QED
        BY <1>7, <4>1, <4>2
    <3>2. CASE FromFile(i)
      <4>1. PICK j \in 1..next-1 : LastSoFar(j) /\ out[i] = Given(j)
        BY <3>2 DEF FromFile
      <4>2. LastSoFar(j)' /\ Given(j)' = Given(j) /\ j \in 1..next'-1
        BY <1>1, <3>1, <4>1, EntryTaken
      <4> QED
        BY <3>1, <4>1, <4>2 DEF FromFile
    <3>3. CASE Untouched(i)
      <4>1. \A j \in 1..next'-1 : Given(j)'.id # out[i].id
        BY <1>1, <3>1, <3>3, EntryTaken, Zenon DEF Untouched
      <4> QED
        BY <3>1, <3>3, <4>1 DEF Untouched
    <3> QED
      BY <1>2, <2>1, <3>2, <3>3 DEF Merging
  <2> QED
    BY <2>2, <2>3
<1>14. Merging'
  BY <1>1, <1>2, <1>6, <1>9, <1>10, <1>11, <1>12, <1>13, EntryTaken, Zenon DEF Merging
<1>15. UniqueIds' /\ MergedAsWhole'
  BY <1>1 DEF MergeInv, UniqueIds, MergedAsWhole
<1> QED
  BY <1>1, <1>14, <1>15 DEF MergeInv

LEMMA AddKeeps == ASSUME MergeInv, AddProfile PROVE MergeInv'
<1>1. /\ mpc = "merge" /\ mpc' = mpc /\ next <= Len(file) /\ next' = next + 1
      /\ file' = file /\ profiles' = profiles /\ Valid(Entry)
      /\ ~Known(Entry.id) /\ out' = Append(out, Entry)
  BY DEF AddProfile
<1>2. Merging /\ file \in Files
  BY <1>1 DEF MergeInv
<1>3. out \in Seq(Profile) /\ Len(out) \in Nat /\ Len(BuiltIn) \in Nat
  BY <1>2, BuiltInAssumption DEF Merging
<1>4. Entry = Given(next) /\ Given(next) \in Profile
  BY <1>1, EntryTaken
<1> DEFINE last == Len(out) + 1
<1>5. /\ out' \in Seq(Profile) /\ Len(out') = last
      /\ \A i \in 1..Len(out) : out'[i] = out[i]
      /\ out'[last] = Given(next)
  BY <1>1, <1>3, <1>4, AppendProperties
<1>6. /\ last \in 1..last
      /\ Len(out) >= Len(BuiltIn) => last >= Len(BuiltIn)
      /\ \A i \in 1..last : i \in 1..Len(out) \/ i = last
      /\ \A i \in 1..Len(out) : i \in 1..last
  BY <1>3, SMT
<1> HIDE DEF last
<1>7. \A i \in 1..Len(out) : out[i].id # Given(next).id
  BY <1>1, <1>4 DEF Known, Holds
<1>8. DistinctIds(out')
  <2>1. DistinctIds(out)
    BY <1>2 DEF Merging
  <2> QED
    BY <1>5, <1>6, <1>7, <2>1, Zenon DEF DistinctIds
<1>9. \A i \in 1..Len(BuiltIn) : out'[i].id = Trim[BuiltIn[i].id]
  <2>1. \A i \in 1..Len(BuiltIn) : i \in 1..Len(out)
    BY <1>2, <1>3 DEF Merging
  <2> QED
    BY <1>2, <1>5, <2>1 DEF Merging
<1>10. \A j \in 1..next'-1 : Valid(Given(j)')
  BY <1>1, <1>2, EntryTaken, Zenon DEF Merging
<1>11. ASSUME NEW j \in 1..next'-1, LastSoFar(j)'
       PROVE  \E i \in 1..Len(out') : out'[i] = Given(j)'
  <2>1. Given(j)' = Given(j)
    BY <1>1, EntryTaken
  <2>2. CASE j = next
    <3>1. last \in 1..Len(out')
      BY <1>5, <1>6
    <3>2. out'[last] = Given(j)'
      BY <1>5, <2>1, <2>2
    <3> QED
      BY <3>1, <3>2
  <2>3. CASE j \in 1..next-1
    <3>1. LastSoFar(j)
      BY <1>1, <1>11, <2>3, EntryTaken
    <3>2. PICK i \in 1..Len(out) : out[i] = Given(j)
      BY <1>2, <2>3, <3>1 DEF Merging
    <3> QED
      BY <1>5, <1>6, <2>1, <3>2
  <2> QED
    BY <1>1, <2>2, <2>3, EntryTaken
<1>12. ASSUME NEW i \in 1..Len(out') PROVE (FromFile(i) \/ Untouched(i))'
  <2>1. CASE i = last
    <3>1. \A j : j = next => j \in 1..next'-1 /\ LastSoFar(j)' /\ out'[i] = Given(j)'
      BY <1>1, <1>5, <2>1, EntryTaken
    <3> QED
      BY <3>1 DEF FromFile
  <2>2. CASE i \in 1..Len(out)
    <3>1. out'[i] = out[i] /\ out[i].id # Given(next).id
      BY <1>5, <1>7, <2>2
    <3>2. CASE FromFile(i)
      <4>1. PICK j \in 1..next-1 : LastSoFar(j) /\ out[i] = Given(j)
        BY <3>2 DEF FromFile
      <4>2. LastSoFar(j)' /\ Given(j)' = Given(j) /\ j \in 1..next'-1
        BY <1>1, <3>1, <4>1, EntryTaken
      <4> QED
        BY <3>1, <4>1, <4>2 DEF FromFile
    <3>3. CASE Untouched(i)
      <4>1. \A j \in 1..next'-1 : Given(j)'.id # out[i].id
        BY <1>1, <3>1, <3>3, EntryTaken, Zenon DEF Untouched
      <4> QED
        BY <3>1, <3>3, <4>1 DEF Untouched
    <3> QED
      BY <1>2, <2>2, <3>2, <3>3 DEF Merging
  <2>3. i \in 1..Len(out) \/ i = last
    <3>1. i \in 1..last
      BY <1>5
    <3> QED
      BY <1>6, <3>1
  <2> QED
    BY <2>1, <2>2, <2>3
<1>13. Merging'
  <2>1. Len(out') >= Len(BuiltIn)
    BY <1>2, <1>5, <1>6 DEF Merging
  <2> QED
    BY <1>1, <1>2, <1>5, <1>8, <1>9, <1>10, <1>11, <1>12, <2>1, EntryTaken, Zenon DEF Merging
<1>14. UniqueIds' /\ MergedAsWhole'
  BY <1>1 DEF MergeInv, UniqueIds, MergedAsWhole
<1> QED
  BY <1>1, <1>13, <1>14 DEF MergeInv

LEMMA FinishKeeps == ASSUME MergeInv, FinishMerge PROVE MergeInv'
<1>1. /\ mpc = "merge" /\ mpc' = "loaded" /\ next > Len(file)
      /\ file' = file /\ profiles' = out /\ Merging /\ file \in Files
  BY DEF MergeInv, FinishMerge
<1>2. next \in 1..Len(file) + 1 /\ Len(file) \in Nat
  BY <1>1 DEF Merging
<1>3. \A j : j \in 1..next-1 <=> j \in 1..Len(file)
  BY <1>1, <1>2, SMT
<1>4. \A j : Given(j)' = Given(j) /\ (LastOf(j)' <=> LastOf(j))
  BY <1>1 DEF Given, LastOf
<1>5. ASSUME NEW j \in 1..Len(file) PROVE LastSoFar(j) <=> LastOf(j)
  <2>1. \A k : k \in j+1..next-1 <=> k \in j+1..Len(file)
    BY <1>1, <1>2, SMT
  <2> QED
    BY <2>1 DEF LastSoFar, LastOf
<1>6. UniqueIds'
  <2>1. DistinctIds(out)
    BY <1>1 DEF Merging
  <2> QED
    BY <1>1, <2>1, Zenon DEF UniqueIds, DistinctIds
<1>7. MergedAsWhole'
  <2>1. file \notin {Absent, Garbled} /\ Len(out) >= Len(BuiltIn)
    BY <1>1 DEF Merging
  <2>2. \A j \in 1..Len(file) : Valid(Given(j))
    BY <1>1, <1>3 DEF Merging
  <2>3. \A i \in 1..Len(BuiltIn) : out[i].id = Trim[BuiltIn[i].id]
    BY <1>1 DEF Merging
  <2>4. \A j \in 1..Len(file) : LastOf(j) => \E i \in 1..Len(out) : out[i] = Given(j)
    BY <1>1, <1>3, <1>5 DEF Merging
  <2>5. \A i \in 1..Len(out) :
           \/ \E j \in 1..Len(file) : LastOf(j) /\ out[i] = Given(j)
           \/ /\ i <= Len(BuiltIn) /\ out[i] = Normalize(BuiltIn[i])
              /\ \A j \in 1..Len(file) : Given(j).id # out[i].id
    <3>1. \A i \in 1..Len(out) : FromFile(i) \/ Untouched(i)
      BY <1>1 DEF Merging
    <3> QED
      BY <1>3, <1>5, <3>1, Zenon DEF FromFile, Untouched
  <2> QED
    BY <1>1, <1>4, <2>1, <2>2, <2>3, <2>4, <2>5, Zenon DEF MergedAsWhole
<1>8. profiles' \in Seq(Profile)
  BY <1>1 DEF Merging
<1> QED
  BY <1>1, <1>6, <1>7, <1>8 DEF MergeInv

LEMMA LoadKeeps == ASSUME MergeInv, Load PROVE MergeInv'
  BY IgnoreKeeps, StartKeeps, RejectKeeps, ReplaceKeeps, AddKeeps, FinishKeeps DEF Load

LEMMA MergeUnchanged == MergeInv /\ UNCHANGED mergeVars => MergeInv'
<1> SUFFICES ASSUME MergeInv, UNCHANGED mergeVars PROVE MergeInv'
  OBVIOUS
<1>0. /\ file' = file /\ profiles' = profiles /\ out' = out /\ next' = next /\ mpc' = mpc
      /\ file \in Files /\ mpc \in {"read", "merge", "loaded"} /\ profiles \in Seq(Profile)
      /\ mpc # "loaded" => profiles = BuiltIn
      /\ mpc = "read" => next = 1
  BY DEF mergeVars, MergeInv
<1>1. \A j : /\ Given(j)' = Given(j)
             /\ (LastSoFar(j) <=> LastSoFar(j)') /\ (LastOf(j) <=> LastOf(j)')
  BY <1>0, Zenon DEF Given, LastSoFar, LastOf
<1>2. \A i : (FromFile(i) <=> FromFile(i)') /\ (Untouched(i) <=> Untouched(i)')
  BY <1>0, <1>1, Zenon DEF FromFile, Untouched
<1>3. mpc = "merge" => Merging'
  <2>1. ASSUME Merging PROVE Merging'
    BY <1>0, <1>1, <1>2, <2>1, Zenon DEF Merging
  <2> QED
    BY <2>1 DEF MergeInv
<1>4. UniqueIds' /\ MergedAsWhole'
  <2>1. UniqueIds /\ MergedAsWhole
    BY DEF MergeInv
  <2> QED
    BY <1>0, <1>1, <2>1, Zenon DEF UniqueIds, MergedAsWhole
<1> QED
  BY <1>0, <1>3, <1>4 DEF MergeInv

-----------------------------------------------------------------------------
(* What the checks of a profile amount to *)

Block == [at : Nat, text : BOOLEAN]

LEMMA LayoutChecksShape ==
  ASSUME NEW l \in Layout
  PROVE  /\ LayoutChecks(l) \in Seq(Block)
         /\ Len(LayoutChecks(l)) >= Len(l.blocks)
         /\ \A i \in 1..Len(l.blocks) :
              LayoutChecks(l)[i] = [at |-> l.blocks[i], text |-> TRUE]
         /\ l.selector = 0 => Len(LayoutChecks(l)) = Len(l.blocks)
         /\ l.selector # 0 =>
              /\ Len(LayoutChecks(l)) = Len(l.blocks) + 1
              /\ LayoutChecks(l)[Len(l.blocks) + 1] = [at |-> l.selector, text |-> FALSE]
<1> DEFINE texts == [i \in 1..Len(l.blocks) |-> [at |-> l.blocks[i], text |-> TRUE]]
           sel   == IF l.selector = 0 THEN <<>> ELSE <<[at |-> l.selector, text |-> FALSE]>>
<1>1. l.blocks \in Seq(Nat) /\ l.selector \in Nat /\ Len(l.blocks) \in Nat
  BY DEF Layout
<1>2. \A i \in 1..Len(l.blocks) : [at |-> l.blocks[i], text |-> TRUE] \in Block
  BY <1>1 DEF Block
<1>3. texts \in Seq(Block) /\ Len(texts) = Len(l.blocks)
  BY <1>1, <1>2
<1>5. LayoutChecks(l) = texts \o sel
  BY DEF LayoutChecks
<1>6. sel \in Seq(Block) /\ Len(sel) \in Nat
  <2>1. [at |-> l.selector, text |-> FALSE] \in Block
    BY <1>1 DEF Block
  <2>2. CASE l.selector = 0
    BY <2>2
  <2>3. CASE l.selector # 0
    <3>1. <<[at |-> l.selector, text |-> FALSE]>> \in Seq(Block)
      BY <2>1
    <3> QED
      BY <2>3, <3>1
  <2> QED
    BY <2>2, <2>3
<1>4. l.selector = 0 => Len(sel) = 0
  OBVIOUS
<1>7. l.selector # 0 => Len(sel) = 1 /\ sel[1] = [at |-> l.selector, text |-> FALSE]
  OBVIOUS
<1>8. \A i \in 1..Len(l.blocks) : texts[i] = [at |-> l.blocks[i], text |-> TRUE]
  OBVIOUS
<1> HIDE DEF texts, sel
<1>9. /\ texts \o sel \in Seq(Block)
      /\ Len(texts \o sel) = Len(texts) + Len(sel)
      /\ \A i \in 1..Len(texts) + Len(sel) :
           (texts \o sel)[i] = IF i <= Len(texts) THEN texts[i] ELSE sel[i - Len(texts)]
  BY <1>3, <1>6, ConcatProperties
<1>10. Len(texts \o sel) >= Len(l.blocks)
  BY <1>1, <1>3, <1>6, <1>9
<1>11. ASSUME NEW i \in 1..Len(l.blocks)
       PROVE  (texts \o sel)[i] = [at |-> l.blocks[i], text |-> TRUE]
  <2>1. i \in 1..Len(texts) + Len(sel) /\ i <= Len(texts)
    BY <1>1, <1>3, <1>6, SMT
  <2> QED
    BY <1>8, <1>9, <2>1
<1>12. ASSUME l.selector # 0
       PROVE  /\ Len(texts \o sel) = Len(l.blocks) + 1
              /\ (texts \o sel)[Len(l.blocks) + 1] = [at |-> l.selector, text |-> FALSE]
  <2>1. /\ Len(l.blocks) + 1 \in 1..Len(texts) + Len(sel) /\ ~(Len(l.blocks) + 1 <= Len(texts))
        /\ Len(l.blocks) + 1 - Len(texts) = 1
    BY <1>1, <1>3, <1>7, <1>12, SMT
  <2> QED
    BY <1>3, <1>7, <1>9, <1>12, <2>1
<1>13. l.selector = 0 => Len(texts \o sel) = Len(l.blocks)
  BY <1>1, <1>3, <1>4, <1>9, SMT
<1> QED
  BY <1>5, <1>9, <1>10, <1>11, <1>12, <1>13

LEMMA ChecksLength ==
  ASSUME NEW p \in Profile PROVE Len(Checks(p)) \in Nat
<1> DEFINE C == LayoutChecks(p.layout["captain"])
           F == LayoutChecks(p.layout["copilot"])
<1>1. p.layout["captain"] \in Layout /\ p.layout["copilot"] \in Layout
  BY DEF Profile, Side
<1>2. C \in Seq(Block) /\ F \in Seq(Block)
  <2>1. \A l \in Layout : LayoutChecks(l) \in Seq(Block)
    BY LayoutChecksShape
  <2> QED
    BY <1>1, <2>1
<1>3. Checks(p) = C \o F
  BY DEF Checks
<1> HIDE DEF C, F
<1> QED
  BY <1>2, <1>3

\* A memory that passes all checks has the blocks of both sides.
LEMMA ChecksCover ==
  ASSUME NEW p \in Profile, NEW b,
         \A k \in 1..Len(Checks(p)) : Passes(b, Checks(p)[k])
  PROVE  TextBlocks(p, b)
<1> DEFINE C == LayoutChecks(p.layout["captain"])
           F == LayoutChecks(p.layout["copilot"])
<1>1. p.layout["captain"] \in Layout /\ p.layout["copilot"] \in Layout
  BY DEF Profile, Side
<1>2. C \in Seq(Block) /\ F \in Seq(Block) /\ Len(C) \in Nat /\ Len(F) \in Nat
  <2>1. \A l \in Layout : LayoutChecks(l) \in Seq(Block)
    BY LayoutChecksShape
  <2>2. \A s \in Seq(Block) : Len(s) \in Nat
    OBVIOUS
  <2> QED
    BY <1>1, <2>1, <2>2
<1>3. Checks(p) = C \o F
  BY DEF Checks
<1> HIDE DEF C, F
<1>4. /\ Len(C \o F) = Len(C) + Len(F)
      /\ \A i \in 1..Len(C) + Len(F) :
           (C \o F)[i] = IF i <= Len(C) THEN C[i] ELSE F[i - Len(C)]
  BY <1>2, ConcatProperties
<1>5. ASSUME NEW i \in 1..Len(C) PROVE Passes(b, C[i])
  <2>1. i \in 1..Len(C) + Len(F) /\ i <= Len(C)
    BY <1>2, SMT
  <2> QED
    BY <1>3, <1>4, <2>1
<1>6. ASSUME NEW i \in 1..Len(F) PROVE Passes(b, F[i])
  <2> DEFINE k == Len(C) + i
  <2>1. k \in 1..Len(C) + Len(F) /\ ~(k <= Len(C)) /\ k - Len(C) = i
    BY <1>2, SMT
  <2> HIDE DEF k
  <2>2. (C \o F)[k] = F[i]
    BY <1>4, <2>1
  <2> QED
    BY <1>3, <1>4, <2>1, <2>2
<1>7. \A s \in Side : \A i \in 1..Len(LayoutChecks(p.layout[s])) :
         Passes(b, LayoutChecks(p.layout[s])[i])
  BY <1>5, <1>6 DEF C, F, Side
<1>8. ASSUME NEW s \in Side
      PROVE  /\ \A i \in 1..Len(p.layout[s].blocks) :
                  memory[b][p.layout[s].blocks[i]] = "text"
             /\ p.layout[s].selector # 0 => memory[b][p.layout[s].selector] # "gone"
  <2> DEFINE l == p.layout[s]
             L == LayoutChecks(l)
  <2>1. l \in Layout
    BY DEF Profile
  <2>2. /\ L \in Seq(Block) /\ Len(L) \in Nat /\ Len(l.blocks) \in Nat
        /\ Len(L) >= Len(l.blocks)
        /\ \A i \in 1..Len(l.blocks) : L[i] = [at |-> l.blocks[i], text |-> TRUE]
        /\ l.selector # 0 => /\ Len(L) = Len(l.blocks) + 1
                             /\ L[Len(l.blocks) + 1] = [at |-> l.selector, text |-> FALSE]
    BY <2>1, LayoutChecksShape DEF Layout
  <2>3. \A i \in 1..Len(L) : Passes(b, L[i])
    BY <1>7
  <2> HIDE DEF l, L
  <2>4. ASSUME NEW i \in 1..Len(l.blocks) PROVE memory[b][l.blocks[i]] = "text"
    <3>1. i \in 1..Len(L)
      BY <2>2, SMT
    <3>2. Passes(b, [at |-> l.blocks[i], text |-> TRUE])
      BY <2>2, <2>3, <3>1
    <3> QED
      BY <3>2 DEF Passes
  <2>5. ASSUME l.selector # 0 PROVE memory[b][l.selector] # "gone"
    <3>1. Len(l.blocks) + 1 \in 1..Len(L)
      BY <2>2, <2>5, SMT
    <3>2. Passes(b, [at |-> l.selector, text |-> FALSE])
      BY <2>2, <2>3, <2>5, <3>1
    <3> QED
      BY <3>2 DEF Passes
  <2> QED
    BY <2>4, <2>5 DEF l
<1> QED
  BY <1>8 DEF TextBlocks

\* And the other way round: what has the blocks of both sides passes every check.
LEMMA CoverChecks ==
  ASSUME NEW p \in Profile, NEW b, TextBlocks(p, b)
  PROVE  \A k \in 1..Len(Checks(p)) : Passes(b, Checks(p)[k])
<1> DEFINE C == LayoutChecks(p.layout["captain"])
           F == LayoutChecks(p.layout["copilot"])
<1>1. ASSUME NEW s \in Side
      PROVE  /\ LayoutChecks(p.layout[s]) \in Seq(Block)
             /\ \A i \in 1..Len(LayoutChecks(p.layout[s])) :
                  Passes(b, LayoutChecks(p.layout[s])[i])
  <2> DEFINE l == p.layout[s]
             L == LayoutChecks(l)
  <2>1. l \in Layout
    BY DEF Profile
  <2>2. /\ L \in Seq(Block) /\ Len(L) \in Nat /\ Len(l.blocks) \in Nat
        /\ \A i \in 1..Len(l.blocks) : L[i] = [at |-> l.blocks[i], text |-> TRUE]
        /\ l.selector = 0 => Len(L) = Len(l.blocks)
        /\ l.selector # 0 => /\ Len(L) = Len(l.blocks) + 1
                             /\ L[Len(l.blocks) + 1] = [at |-> l.selector, text |-> FALSE]
    BY <2>1, LayoutChecksShape DEF Layout
  <2>3. /\ \A i \in 1..Len(l.blocks) : memory[b][l.blocks[i]] = "text"
        /\ l.selector # 0 => memory[b][l.selector] # "gone"
    BY DEF TextBlocks
  <2> HIDE DEF l, L
  <2>4. ASSUME NEW i \in 1..Len(L) PROVE Passes(b, L[i])
    <3>1. CASE i \in 1..Len(l.blocks)
      <4>1. L[i] = [at |-> l.blocks[i], text |-> TRUE] /\ memory[b][l.blocks[i]] = "text"
        BY <2>2, <2>3, <3>1
      <4> QED
        BY <4>1 DEF Passes
    <3>2. CASE i \notin 1..Len(l.blocks)
      <4>1. l.selector # 0 /\ i = Len(l.blocks) + 1
        BY <2>2, <3>2, SMT
      <4> QED
        BY <2>2, <2>3, <4>1 DEF Passes
    <3> QED
      BY <3>1, <3>2
  <2> QED
    BY <2>2, <2>4 DEF L, l
<1>2. /\ C \in Seq(Block) /\ F \in Seq(Block)
      /\ \A i \in 1..Len(C) : Passes(b, C[i])
      /\ \A i \in 1..Len(F) : Passes(b, F[i])
  BY <1>1 DEF Side
<1>3. Checks(p) = C \o F
  BY DEF Checks
<1> HIDE DEF C, F
<1>4. /\ Len(C \o F) = Len(C) + Len(F) /\ Len(C) \in Nat /\ Len(F) \in Nat
      /\ \A i \in 1..Len(C) + Len(F) :
           (C \o F)[i] = IF i <= Len(C) THEN C[i] ELSE F[i - Len(C)]
  BY <1>2, ConcatProperties
<1>5. ASSUME NEW k \in 1..Len(C) + Len(F) PROVE Passes(b, (C \o F)[k])
  <2>1. k \in 1..Len(C) \/ (~(k <= Len(C)) /\ k - Len(C) \in 1..Len(F))
    BY <1>4, SMT
  <2>2. k \in 1..Len(C) => k <= Len(C)
    BY <1>4, SMT
  <2> QED
    BY <1>2, <1>4, <2>1, <2>2
<1> QED
  BY <1>3, <1>4, <1>5

-----------------------------------------------------------------------------
(* A candidate under validation *)

\* b was read through the module m, a candidate for the profile p.
Through(p, m, b) ==
  Fresh(m) => /\ Matches(image[m].exports, p)
              /\ Suits(p, m, image[m].exports) => b = cell[m]

Candidacy ==
  /\ pc \in {"module", "validate"} => pi \in 1..Len(profiles) /\ Current.adapter = Wasm
  /\ pc = "validate" =>
       /\ check \in Nat \ {0}
       /\ clean => /\ Through(Current, Here, linear)
                   /\ \A k \in 1..check-1 : Passes(linear, Checks(Current)[k])

ProbeInv ==
  /\ MergeInv
  /\ pc \in {"idle", "profile", "module", "validate", "attached"}
  /\ pi \in Nat \ {0}
  /\ pc # "idle" => mpc = "loaded"
  /\ pc # "attached" => att = Nil
  /\ Candidacy /\ AcceptsOnlyCompatible

\* A step that changes neither what was found nor what it was found in.
LEMMA Undisturbed ==
  ASSUME ProbeInv,
         profiles' = profiles /\ image' = image /\ cell' = cell /\ memory' = memory,
         cache' = cache /\ att' = att, clean' => clean
  PROVE  AcceptsOnlyCompatible'
<1>1. AcceptsOnlyCompatible
  BY DEF ProbeInv
<1> QED
  BY <1>1 DEF AcceptsOnlyCompatible, TextBlocks, Fresh, Suits

LEMMA HereStays ==
  ASSUME queue' = queue, profiles' = profiles, pi' = pi
  PROVE  Current' = Current /\ Here' = Here
<1>1. Current' = Current
  BY DEF Current
<1> QED
  BY <1>1 DEF Here

LEMMA ChangeKeeps ==
  ASSUME ProbeInv, Change \/ Settle PROVE ProbeInv'
<1>0. MergeInv'
  BY MergeUnchanged DEF ProbeInv, Change, Settle
<1>1. /\ profiles' = profiles /\ mpc' = mpc /\ pc' = pc /\ pi' = pi /\ queue' = queue
      /\ linear' = linear /\ check' = check /\ att' = att /\ cache' = cache
  BY DEF Change, Settle, probeVars, mergeVars
<1>2. CASE ~clean'
  <2>1. AcceptsOnlyCompatible'
    BY <1>2 DEF AcceptsOnlyCompatible
  <2>2. Candidacy'
    BY <1>1, <1>2 DEF ProbeInv, Candidacy, Current
  <2> QED
    BY <1>0, <1>1, <2>1, <2>2 DEF ProbeInv
<1>3. CASE Settle
  <2>1. image' = image /\ cell' = cell /\ memory' = memory /\ clean' = clean
    BY <1>3 DEF Settle
  <2>2. AcceptsOnlyCompatible'
    BY <1>1, <2>1, Undisturbed
  <2>3. Candidacy'
    BY <1>1, <2>1, HereStays DEF ProbeInv, Candidacy, Through, TextBlocks, Fresh, Suits, Passes
  <2> QED
    BY <1>0, <1>1, <2>2, <2>3 DEF ProbeInv
<1> QED
  BY <1>2, <1>3 DEF Change

LEMMA LoadStepKeeps ==
  ASSUME ProbeInv, LoadStep PROVE ProbeInv'
<1>0. MergeInv'
  BY LoadKeeps DEF ProbeInv, LoadStep
<1>1. mpc # "loaded"
  BY DEF LoadStep, Load, IgnoreFile, StartMerge, RejectFile, ReplaceProfile, AddProfile,
         FinishMerge
<1>2. pc = "idle" /\ att = Nil /\ pc' = pc /\ att' = att /\ pi' = pi
  BY <1>1 DEF ProbeInv, LoadStep, probeVars
<1>3. Candidacy' /\ AcceptsOnlyCompatible'
  BY <1>2 DEF Candidacy, AcceptsOnlyCompatible
<1> QED
  BY <1>0, <1>2, <1>3 DEF ProbeInv

\* What no step of the search touches.
LEMMA ProbeLeaves ==
  ASSUME Probe
  PROVE  /\ UNCHANGED mergeVars /\ UNCHANGED worldVars
         /\ profiles' = profiles /\ mpc' = mpc
         /\ image' = image /\ cell' = cell /\ memory' = memory
  BY DEF Probe, StartProbe, SkipProfile, TryProfile, NextProfile, NothingFound, ExportsFail,
         ReadExports, Mismatch, BadPointer, ReadPointer, BlockFails, BlockPasses, Accept, Detach,
         mergeVars, worldVars

\* The steps that look for a candidate, or give one up.
Search ==
  \/ StartProbe \/ SkipProfile \/ TryProfile \/ NextProfile \/ NothingFound
  \/ ExportsFail \/ ReadExports \/ Mismatch \/ BadPointer \/ BlockFails

LEMMA SearchKeeps ==
  ASSUME ProbeInv, Search PROVE ProbeInv'
<1>0. Probe
  BY DEF Search, Probe
<1>1. profiles' = profiles /\ mpc' = mpc /\ MergeInv'
  BY <1>0, ProbeLeaves, MergeUnchanged DEF ProbeInv
<1>2. /\ pc \in {"idle", "profile", "module", "validate"} /\ att' = att
      /\ pc' \in {"idle", "profile", "module"}
  BY DEF Search, StartProbe, SkipProfile, TryProfile, NextProfile, NothingFound, ExportsFail,
         ReadExports, Mismatch, BadPointer, BlockFails, Reject, NextModule, ProbeInv, probeVars
<1>3. att = Nil /\ AcceptsOnlyCompatible'
  BY <1>2 DEF ProbeInv, AcceptsOnlyCompatible
<1>4. pi \in Nat \ {0} /\ profiles \in Seq(Profile) /\ Len(profiles) \in Nat
  BY DEF ProbeInv, MergeInv
<1>5. pi' \in {pi, 1, pi + 1}
  BY DEF Search, StartProbe, SkipProfile, TryProfile, NextProfile, NothingFound, ExportsFail,
         ReadExports, Mismatch, BadPointer, BlockFails, probeVars
<1>6. pi' \in Nat \ {0}
  BY <1>4, <1>5, SMT
<1>7. pc' # "idle" => mpc = "loaded"
  BY DEF Search, StartProbe, SkipProfile, TryProfile, NextProfile, NothingFound, ExportsFail,
         ReadExports, Mismatch, BadPointer, BlockFails, ProbeInv
<1>8. ASSUME pc' = "module"
      PROVE  pi' \in 1..Len(profiles) /\ profiles[pi'].adapter = Wasm
  <2>1. CASE TryProfile
    <3>1. pi <= Len(profiles) /\ pi' = pi /\ Current.adapter = Wasm
      BY <2>1 DEF TryProfile
    <3>2. pi \in 1..Len(profiles)
      BY <1>4, <3>1, SMT
    <3> QED
      BY <3>1, <3>2 DEF Current
  <2>2. CASE ~TryProfile
    <3>1. pi' = pi /\ pc \in {"module", "validate"}
      BY <1>8, <2>2 DEF Search, StartProbe, SkipProfile, NextProfile, NothingFound, ExportsFail,
             ReadExports, Mismatch, BadPointer, BlockFails, probeVars
    <3> QED
      BY <3>1 DEF ProbeInv, Candidacy, Current
  <2> QED
    BY <2>1, <2>2
<1>9. Candidacy'
  BY <1>1, <1>2, <1>8 DEF Candidacy, Current
<1> QED
  BY <1>1, <1>2, <1>3, <1>6, <1>7, <1>9 DEF ProbeInv

LEMMA ReadPointerKeeps ==
  ASSUME ProbeInv, ReadPointer PROVE ProbeInv'
<1>0. Probe
  BY DEF Probe
<1>1. /\ profiles' = profiles /\ mpc' = mpc /\ MergeInv'
      /\ image' = image /\ cell' = cell /\ memory' = memory
  BY <1>0, ProbeLeaves, MergeUnchanged DEF ProbeInv
<1>2. /\ pc = "module" /\ pc' = "validate" /\ pi' = pi /\ queue' = queue /\ cache' = cache
      /\ check' = 1 /\ clean' = clean /\ att' = att /\ att = Nil /\ Candidate(Here, linear')
  BY DEF ReadPointer, Keep, ProbeInv
<1>3. AcceptsOnlyCompatible'
  BY <1>2 DEF AcceptsOnlyCompatible
<1>4. /\ pi \in 1..Len(profiles) /\ Current.adapter = Wasm /\ pi \in Nat \ {0}
      /\ mpc = "loaded"
  BY <1>2 DEF ProbeInv, Candidacy
<1>5. Current' = Current /\ Here' = Here
  BY <1>1, <1>2, HereStays
<1>6. ASSUME Fresh(Here) PROVE Matches(image[Here].exports, Current)
  BY <1>2, <1>6 DEF Candidate, Fresh
<1>7. ASSUME Fresh(Here), Suits(Current, Here, image[Here].exports)
      PROVE  linear' = cell[Here]
  <2>1. cache[Here] = image[Here].exports /\ image[Here] # Nil
    BY <1>7 DEF Fresh
  <2>2. PICK n \in WithSuffix(cache[Here], Current.linear) :
               linear' \in Pointers(Here, cache[Here][n])
    BY <1>2 DEF Candidate
  <2>3. cache[Here][n] = "cell"
    BY <1>7, <2>1, <2>2 DEF Suits
  <2>4. Pointers(Here, cache[Here][n]) = {cell[Here]}
    BY <2>1, <2>3 DEF Pointers
  <2> QED
    BY <2>2, <2>4
<1>8. Through(Current, Here, linear)'
  BY <1>1, <1>2, <1>5, <1>6, <1>7 DEF Through, Fresh, Suits, TextBlocks
<1>9. \A k : k \notin 1..check'-1
  BY <1>2, SMT
<1>10. Candidacy'
  BY <1>1, <1>2, <1>4, <1>5, <1>8, <1>9 DEF Candidacy
<1> QED
  BY <1>1, <1>2, <1>3, <1>4, <1>10 DEF ProbeInv

LEMMA BlockPassesKeeps ==
  ASSUME ProbeInv, BlockPasses PROVE ProbeInv'
<1>0. Probe
  BY DEF Probe
<1>1. /\ profiles' = profiles /\ mpc' = mpc /\ MergeInv'
      /\ image' = image /\ cell' = cell /\ memory' = memory
  BY <1>0, ProbeLeaves, MergeUnchanged DEF ProbeInv
<1>2. /\ pc = "validate" /\ pc' = pc /\ pi' = pi /\ queue' = queue /\ cache' = cache
      /\ linear' = linear /\ check' = check + 1 /\ clean' = clean /\ att' = att /\ att = Nil
      /\ Passes(linear, Checks(Current)[check])
  BY DEF BlockPasses, Keep, ProbeInv
<1>3. AcceptsOnlyCompatible'
  BY <1>2 DEF AcceptsOnlyCompatible
<1>4. /\ pi \in 1..Len(profiles) /\ Current.adapter = Wasm /\ pi \in Nat \ {0}
      /\ mpc = "loaded" /\ check \in Nat \ {0}
      /\ clean => /\ Through(Current, Here, linear)
                  /\ \A k \in 1..check-1 : Passes(linear, Checks(Current)[k])
  BY <1>2 DEF ProbeInv, Candidacy
<1>5. Current' = Current /\ Here' = Here
  BY <1>1, <1>2, HereStays
<1>6. clean' => Through(Current, Here, linear)'
  BY <1>1, <1>2, <1>4, <1>5 DEF Through, Fresh, Suits, TextBlocks
<1>7. \A k \in 1..check'-1 : k \in 1..check-1 \/ k = check
  BY <1>2, <1>4, SMT
<1>8. check' \in Nat \ {0}
  BY <1>2, <1>4, SMT
<1>9. clean' => \A k \in 1..check'-1 : Passes(linear, Checks(Current)[k])'
  BY <1>1, <1>2, <1>4, <1>5, <1>7 DEF Passes
<1>10. Candidacy'
  BY <1>1, <1>2, <1>4, <1>5, <1>6, <1>8, <1>9 DEF Candidacy
<1> QED
  BY <1>1, <1>2, <1>3, <1>4, <1>10 DEF ProbeInv

LEMMA AcceptKeeps ==
  ASSUME ProbeInv, Accept PROVE ProbeInv'
<1>0. Probe
  BY DEF Probe
<1>1. /\ profiles' = profiles /\ mpc' = mpc /\ MergeInv'
      /\ image' = image /\ cell' = cell /\ memory' = memory
  BY <1>0, ProbeLeaves, MergeUnchanged DEF ProbeInv
<1>2. PICK s \in Side :
        att' = [profile |-> pi, module |-> Here, linear |-> linear, side |-> s]
  BY DEF Accept
<1>3. /\ pc = "validate" /\ pc' = "attached" /\ pi' = pi /\ cache' = cache /\ clean' = clean
      /\ check > Len(Checks(Current))
      /\ att'.profile = pi /\ att'.module = Here /\ att'.linear = linear
  BY <1>2 DEF Accept, Keep
<1>4. /\ pi \in 1..Len(profiles) /\ Current.adapter = Wasm /\ pi \in Nat \ {0}
      /\ mpc = "loaded" /\ check \in Nat \ {0}
      /\ clean => /\ Through(Current, Here, linear)
                  /\ \A k \in 1..check-1 : Passes(linear, Checks(Current)[k])
  BY <1>3 DEF ProbeInv, Candidacy
<1>5. Current \in Profile
  BY <1>4 DEF ProbeInv, MergeInv, Current
<1>6. ASSUME clean PROVE TextBlocks(Current, linear)
  <2>1. Len(Checks(Current)) \in Nat
    BY <1>5, ChecksLength
  <2>2. \A k \in 1..Len(Checks(Current)) : k \in 1..check-1
    BY <1>3, <1>4, <2>1, SMT
  <2>3. \A k \in 1..Len(Checks(Current)) : Passes(linear, Checks(Current)[k])
    BY <1>4, <1>6, <2>2
  <2> QED
    BY <1>5, <2>3, ChecksCover
<1>7. AcceptsOnlyCompatible'
  <2>1. profiles'[att'.profile] = Current
    BY <1>1, <1>3 DEF Current
  <2>2. clean => Through(Current, Here, linear) /\ TextBlocks(Current, linear)
    BY <1>4, <1>6
  <2> QED
    BY <1>1, <1>3, <1>4, <2>1, <2>2 DEF AcceptsOnlyCompatible, Through, Fresh, Suits, TextBlocks
<1>8. Candidacy'
  BY <1>3 DEF Candidacy
<1> QED
  BY <1>1, <1>3, <1>4, <1>7, <1>8 DEF ProbeInv

LEMMA DetachKeeps ==
  ASSUME ProbeInv, Detach PROVE ProbeInv'
<1>0. Probe
  BY DEF Probe
<1>1. profiles' = profiles /\ mpc' = mpc /\ MergeInv'
  BY <1>0, ProbeLeaves, MergeUnchanged DEF ProbeInv
<1>2. pc' = "idle" /\ att' = Nil /\ pi' = pi
  BY DEF Detach
<1> QED
  BY <1>1, <1>2 DEF ProbeInv, Candidacy, AcceptsOnlyCompatible

LEMMA StutterKeeps ==
  ASSUME ProbeInv, UNCHANGED vars PROVE ProbeInv'
<1>0. MergeInv'
  BY MergeUnchanged DEF ProbeInv, vars
<1>1. /\ profiles' = profiles /\ mpc' = mpc /\ pc' = pc /\ pi' = pi /\ queue' = queue
      /\ linear' = linear /\ check' = check /\ att' = att /\ cache' = cache
      /\ image' = image /\ cell' = cell /\ memory' = memory /\ clean' = clean
  BY DEF vars, probeVars, mergeVars, worldVars
<1>2. AcceptsOnlyCompatible'
  BY <1>1, Undisturbed
<1>3. Candidacy'
  BY <1>1, HereStays DEF ProbeInv, Candidacy, Through, TextBlocks, Fresh, Suits, Passes
<1> QED
  BY <1>0, <1>1, <1>2, <1>3 DEF ProbeInv

-----------------------------------------------------------------------------
(* The order of the search *)

LEMMA MinExists ==
  ASSUME NEW S \in SUBSET Nat, S # {}
  PROVE  \E k \in S : \A j \in S : k <= j
<1>1. PICK k \in S : \A j \in S : ~(<<j, k>> \in OpToRel(<, Nat))
  BY NatLessThanWellFounded, WFMin
<1>2. ASSUME NEW j \in S PROVE k <= j
  <2>1. k \in Nat /\ j \in Nat /\ ~(j < k)
    BY <1>1, <1>2 DEF OpToRel
  <2> QED
    BY <2>1, SMT
<1> QED
  BY <1>2

\* Some module of those left comes before all others, whatever the hints are.
LEMMA FirstExists ==
  ASSUME NEW p, NEW Q \in SUBSET Module, Q # {}
  PROVE  \E m \in Q : \A n \in Q \ {m} : TriedBefore(p, m, n)
<1>1. /\ \A m \in Module : Place[m] \in Nat /\ Rank(p, m) \in Nat
      /\ \A m, n \in Module : Place[m] = Place[n] => m = n
  BY WorldAssumption DEF Rank
<1>2. ASSUME NEW R \in SUBSET Module, R # {}
      PROVE  \E m \in R : \A n \in R \ {m} : Place[m] < Place[n]
  <2> DEFINE S == {Place[m] : m \in R}
  <2>1. S \in SUBSET Nat /\ S # {}
    BY <1>1, <1>2
  <2>2. PICK k \in S : \A j \in S : k <= j
    BY <2>1, MinExists
  <2>3. PICK m \in R : k = Place[m]
    BY <2>2
  <2>4. ASSUME NEW n \in R \ {m} PROVE Place[m] < Place[n]
    <3>1. Place[m] <= Place[n] /\ Place[m] # Place[n]
      BY <1>1, <1>2, <2>2, <2>3, <2>4
    <3> QED
      BY <1>1, <1>2, <3>1
  <2> QED
    BY <2>4
<1>3. CASE p.hints = {}
  BY <1>2, <1>3 DEF TriedBefore
<1>4. CASE p.hints # {}
  <2> DEFINE S == {Rank(p, m) : m \in Q}
  <2>1. S \in SUBSET Nat /\ S # {}
    BY <1>1
  <2>2. PICK k \in S : \A j \in S : k <= j
    BY <2>1, MinExists
  <2> DEFINE R == {m \in Q : Rank(p, m) = k}
  <2>3. R \in SUBSET Module /\ R # {}
    BY <2>2
  <2>4. PICK m \in R : \A n \in R \ {m} : Place[m] < Place[n]
    BY <1>2, <2>3
  <2>5. ASSUME NEW n \in Q \ {m} PROVE TriedBefore(p, m, n)
    <3>1. CASE n \in R
      BY <2>4, <2>5, <3>1 DEF TriedBefore
    <3>2. CASE n \notin R
      <4>1. Rank(p, m) <= Rank(p, n) /\ Rank(p, m) # Rank(p, n)
        BY <2>2, <2>4, <2>5, <3>2
      <4>2. Rank(p, m) < Rank(p, n)
        BY <1>1, <2>4, <2>5, <4>1
      <4> QED
        BY <1>4, <4>1, <4>2 DEF TriedBefore
    <3> QED
      BY <3>1, <3>2
  <2> QED
    BY <2>4, <2>5
<1> QED
  BY <1>3, <1>4

LEMMA HereIsFirst ==
  ASSUME queue \in SUBSET Module, queue # {}
  PROVE  /\ Here \in queue /\ Here \in Module
         /\ \A n \in queue \ {Here} : TriedBefore(Current, Here, n)
<1>1. \E m \in queue : \A n \in queue \ {m} : TriedBefore(Current, m, n)
  BY FirstExists
<1> QED
  BY <1>1 DEF Here

LEMMA TriedBeforeAsymmetric ==
  ASSUME NEW p, NEW m \in Module, NEW n \in Module, TriedBefore(p, m, n)
  PROVE  m # n /\ ~TriedBefore(p, n, m)
<1>1. Place[m] \in Nat /\ Place[n] \in Nat /\ Rank(p, m) \in Nat /\ Rank(p, n) \in Nat
  BY WorldAssumption DEF Rank
<1> QED
  BY <1>1, SMT DEF TriedBefore

-----------------------------------------------------------------------------
(* Types *)

TypeInv ==
  /\ TypeOK
  /\ mpc # "loaded" => pi = 1
  /\ pc = "validate" => linear \in Base /\ queue # {}
  /\ pc = "attached" => att # Nil

LEMMA ReadableType == ASSUME NEW i \in Image PROVE Readable(i) \in List
<1>1. PICK N \in SUBSET Names : i.exports \in [N -> {"cell", "other"}]
  BY DEF Image, List
<1>2. Readable(i) \in [N \ i.hidden -> {"cell", "other"}] /\ N \ i.hidden \in SUBSET Names
  BY <1>1 DEF Readable
<1> QED
  BY <1>2 DEF List

LEMMA TypesChange == ASSUME TypeInv, Change \/ Settle PROVE TypeInv'
<1>1. /\ UNCHANGED <<profiles, mpc, cache, pc, pi, queue, linear, check, closest, mods, att,
                     verdict>>
      /\ TypeOK
  BY DEF Change, Settle, probeVars, mergeVars, TypeInv
<1>2. /\ image' \in [Module -> Images \cup {Nil}] /\ cell' \in [Module -> Pointer]
      /\ memory' \in [Base -> Contents] /\ steady' \in BOOLEAN /\ clean' \in BOOLEAN
  <2>1. CASE Change
    BY <1>1, <2>1 DEF Change, TypeOK
  <2>2. CASE Settle
    BY <1>1, <2>2 DEF Settle, TypeOK
  <2> QED
    BY <2>1, <2>2
<1>3. TypeOK'
  BY <1>1, <1>2 DEF TypeOK
<1> QED
  BY <1>1, <1>3 DEF TypeInv

LEMMA TypesLoad == ASSUME ProbeInv, TypeInv, LoadStep PROVE TypeInv'
<1>1. mpc # "loaded" /\ TypeOK
  BY DEF TypeInv, LoadStep, Load, IgnoreFile, StartMerge, RejectFile, ReplaceProfile, AddProfile,
         FinishMerge
<1>2. /\ UNCHANGED <<image, cell, memory, steady, cache, pc, pi, queue, linear, check, closest,
                     mods, att, verdict, clean>>
      /\ pi = 1 /\ pc = "idle" /\ att = Nil
  BY <1>1 DEF LoadStep, worldVars, probeVars, TypeInv, ProbeInv
<1>3. profiles' \in Seq(Profile) /\ Len(profiles') \in Nat
  BY LoadKeeps DEF LoadStep, ProbeInv, MergeInv
<1>4. pi' \in 1..Len(profiles') + 1
  BY <1>2, <1>3, SMT
<1>5. TypeOK'
  BY <1>1, <1>2, <1>4 DEF TypeOK
<1> QED
  BY <1>2, <1>5 DEF TypeInv

LEMMA TypesProbe == ASSUME ProbeInv, TypeInv, Probe PROVE TypeInv'
<1>1. /\ profiles' = profiles /\ mpc' = mpc
      /\ UNCHANGED <<image, cell, memory, steady>>
  BY ProbeLeaves DEF worldVars
<1>2. TypeOK /\ (mpc # "loaded" => pi = 1) /\ (pc = "validate" => linear \in Base /\ queue # {})
  BY DEF TypeInv
<1>3. /\ profiles \in Seq(Profile) /\ Len(profiles) \in Nat /\ pi \in Nat \ {0}
      /\ mpc = "loaded" \/ pc = "idle"
      /\ pc \in {"module", "validate"} => pi \in 1..Len(profiles)
  BY DEF ProbeInv, MergeInv, Candidacy
<1>4. queue # {} => Here \in Module /\ Here \in queue
  BY <1>2, HereIsFirst DEF TypeOK
<1>5. clean' \in BOOLEAN
  BY <1>2 DEF TypeOK, Probe, StartProbe, SkipProfile, TryProfile, NextProfile, NothingFound,
         ExportsFail, ReadExports, Mismatch, BadPointer, ReadPointer, BlockFails, BlockPasses,
         Accept, Detach, Keep, Chance
<1>6. cache' \in [Module -> List \cup {Nil}]
  <2>1. CASE ReadExports
    <3>1. image[Here] \in Image
      BY <1>2, <1>4, <2>1, WorldAssumption DEF ReadExports, TypeOK
    <3> QED
      BY <1>2, <1>4, <2>1, <3>1, ReadableType DEF ReadExports, TypeOK
  <2>2. CASE ~ReadExports
    <3>1. cache' = cache
      BY <2>2 DEF Probe, StartProbe, SkipProfile, TryProfile, NextProfile, NothingFound,
         ExportsFail, Mismatch, BadPointer, ReadPointer, BlockFails, BlockPasses, Accept, Detach
    <3> QED
      BY <1>2, <3>1 DEF TypeOK
  <2> QED
    BY <2>1, <2>2
<1>7. pi' \in 1..Len(profiles) + 1 /\ (mpc # "loaded" => pi' = 1)
  <2>1. CASE pi' = pi \/ pi' = 1
    BY <1>2, <1>3, <2>1 DEF TypeOK
  <2>2. CASE SkipProfile \/ NextProfile
    BY <1>3, <2>2 DEF SkipProfile, NextProfile
  <2> QED
    BY <2>1, <2>2 DEF Probe, StartProbe, TryProfile, NothingFound, ExportsFail, ReadExports,
         Mismatch, BadPointer, ReadPointer, BlockFails, BlockPasses, Accept, Detach, probeVars
<1>8. queue' \in SUBSET Module /\ mods' \in SUBSET Module
  BY <1>2 DEF TypeOK, Probe, StartProbe, SkipProfile, TryProfile, NextProfile, NothingFound,
         ExportsFail, ReadExports, Mismatch, BadPointer, ReadPointer, BlockFails, BlockPasses,
         Accept, Detach, probeVars, Snapshot, Reject, NextModule
<1>9. /\ linear' \in Base \cup {Nil} /\ check' \in Nat \ {0}
      /\ pc' = "validate" => linear' \in Base /\ queue' # {}
  BY <1>2 DEF TypeOK, Probe, StartProbe, SkipProfile, TryProfile, NextProfile, NothingFound,
         ExportsFail, ReadExports, Mismatch, BadPointer, ReadPointer, BlockFails, BlockPasses,
         Accept, Detach, probeVars, Reject, NextModule, Forget
<1>10. /\ pc' \in {"idle", "profile", "module", "validate", "attached"} /\ closest' \in BOOLEAN
       /\ verdict' \in {"waiting", "rejected", "scanning", "attached"}
  BY <1>2 DEF TypeOK, Probe, StartProbe, SkipProfile, TryProfile, NextProfile, NothingFound,
         ExportsFail, ReadExports, Mismatch, BadPointer, ReadPointer, BlockFails, BlockPasses,
         Accept, Detach, probeVars, Reject, NextModule
<1>11. /\ att' \in Attachment \cup {Nil}
       /\ pc' = "attached" => att' # Nil
  <2>1. CASE Accept
    <3>1. PICK s \in Side :
            att' = [profile |-> pi, module |-> Here, linear |-> linear, side |-> s]
      BY <2>1 DEF Accept
    <3>2. pi \in Nat /\ linear \in Base /\ Here \in Module
      BY <1>2, <1>3, <1>4, <2>1 DEF Accept
    <3>3. att' \in Attachment
      BY <3>1, <3>2 DEF Attachment
    <3> QED
      BY <3>3, WorldAssumption
  <2>2. CASE ~Accept
    <3>1. pc' # "attached" /\ att' \in {att, Nil}
      BY <2>2, <1>2 DEF Probe, StartProbe, SkipProfile, TryProfile, NextProfile, NothingFound,
         ExportsFail, ReadExports, Mismatch, BadPointer, ReadPointer, BlockFails, BlockPasses,
         Detach, probeVars, Reject, NextModule
    <3> QED
      BY <1>2, <3>1 DEF TypeOK
  <2> QED
    BY <2>1, <2>2
<1>12. TypeOK'
  BY <1>1, <1>2, <1>5, <1>6, <1>7, <1>8, <1>9, <1>10, <1>11 DEF TypeOK
<1> QED
  BY <1>1, <1>7, <1>9, <1>11, <1>12 DEF TypeInv

-----------------------------------------------------------------------------
(* What a search has shown *)

SearchTypes ==
  /\ mpc # "loaded" => ~clean
  /\ pc \in {"module", "validate"} => queue \subseteq mods
  /\ pc = "validate" => cache[Here] # Nil /\ Matches(cache[Here], Current)
  /\ pc = "attached" => verdict = "attached"

\* The profile i has been given up for the module m, for a reason that lasts.
Excluded(i, m) ==
  \/ profiles[i].adapter # Wasm
  \/ image[m] = Nil
  \/ /\ cache[m] # Nil /\ PassedOver(profiles[i], m)
     /\ Matches(cache[m], profiles[i]) => closest

\* As long as nothing changes, the search leaves behind only what is excluded.
Scanned ==
  clean /\ pc \in {"profile", "module", "validate"} =>
    /\ mods = Snapshot
    /\ \A i \in 1..pi-1, m \in Module : Excluded(i, m)
    /\ pc # "profile" => \A m \in Module \ queue : Excluded(pi, m)
    /\ closest => Candidates # {}

SearchInv ==
  SearchTypes /\ Scanned /\ RejectionExplained /\ EarlierProfileWins

\* A change of the world, or a read that fails by chance, ends what was shown.
LEMMA DirtyShowsNothing ==
  ASSUME ~clean' PROVE Scanned' /\ RejectionExplained' /\ EarlierProfileWins'
  BY DEF Scanned, RejectionExplained, EarlierProfileWins

\* The reasons last: lists are only added, and a rejection is not taken back.
LEMMA ReasonsLast ==
  ASSUME profiles' = profiles, image' = image, cell' = cell, memory' = memory,
         \A m \in Module : cache[m] # Nil => cache'[m] = cache[m]
  PROVE  /\ \A i, m : m \in Module /\ Excluded(i, m) /\ (closest => closest') => Excluded(i, m)'
         /\ Candidates \subseteq Candidates'
         /\ Snapshot' = Snapshot
<1>1. ASSUME NEW m \in Module, cache[m] # Nil
      PROVE  /\ cache'[m] = cache[m] /\ (Fresh(m)' <=> Fresh(m))
             /\ \A p : PassedOver(p, m)' <=> PassedOver(p, m)
  <2>1. cache'[m] = cache[m] /\ (Fresh(m)' <=> Fresh(m))
    BY <1>1 DEF Fresh
  <2> QED
    BY <2>1 DEF PassedOver, Suits, TextBlocks
<1>2. ASSUME NEW i, NEW m \in Module, Excluded(i, m), closest => closest'
      PROVE  Excluded(i, m)'
  BY <1>1, <1>2, Zenon DEF Excluded
<1>3. Candidates \subseteq Candidates'
  BY <1>1 DEF Candidates
<1> QED
  BY <1>2, <1>3 DEF Snapshot

\* A step that touches nothing a search has shown.
LEMMA SearchUndisturbed ==
  ASSUME SearchInv, profiles' = profiles, mpc' = mpc, image' = image, cell' = cell,
         memory' = memory, cache' = cache, pc' = pc, pi' = pi, queue' = queue,
         closest' = closest, att' = att, verdict' = verdict, mods' = mods, clean' = clean
  PROVE  SearchInv'
<1>1. Current' = Current /\ Here' = Here
  BY HereStays
<1>2. SearchTypes'
  BY <1>1 DEF SearchInv, SearchTypes, Matches, WithSuffix
<1>3. \A i, m : (Excluded(i, m)' <=> Excluded(i, m))
  BY DEF Excluded, PassedOver, Fresh, Suits, TextBlocks
<1>4. Scanned'
  BY <1>3 DEF SearchInv, Scanned, Snapshot, Candidates
<1>5. RejectionExplained' /\ EarlierProfileWins'
  BY DEF SearchInv, RejectionExplained, Candidates, EarlierProfileWins, PassedOver, Fresh, Suits,
         TextBlocks
<1> QED
  BY <1>2, <1>4, <1>5 DEF SearchInv

LEMMA ChangeKeepsSearch ==
  ASSUME SearchInv, Change \/ Settle PROVE SearchInv'
<1>1. /\ profiles' = profiles /\ mpc' = mpc /\ pc' = pc /\ pi' = pi /\ queue' = queue
      /\ att' = att /\ cache' = cache /\ closest' = closest /\ verdict' = verdict /\ mods' = mods
  BY DEF Change, Settle, probeVars, mergeVars
<1>2. CASE Change
  <2>1. ~clean'
    BY <1>2 DEF Change
  <2>2. SearchTypes'
    BY <1>1, <2>1, HereStays DEF SearchInv, SearchTypes, Matches, WithSuffix
  <2> QED
    BY <2>1, <2>2, DirtyShowsNothing DEF SearchInv
<1>3. CASE Settle
  BY <1>1, <1>3, SearchUndisturbed DEF Settle
<1> QED
  BY <1>2, <1>3

LEMMA LoadKeepsSearch ==
  ASSUME ProbeInv, TypeInv, SearchInv, LoadStep PROVE SearchInv'
<1>1. mpc # "loaded"
  BY DEF LoadStep, Load, IgnoreFile, StartMerge, RejectFile, ReplaceProfile, AddProfile,
         FinishMerge
<1>2. pc = "idle" /\ pc' = pc /\ ~clean /\ clean' = clean
  BY <1>1 DEF ProbeInv, SearchInv, SearchTypes, LoadStep, probeVars
<1>3. SearchTypes'
  BY <1>2 DEF SearchInv, SearchTypes
<1> QED
  BY <1>2, <1>3, DirtyShowsNothing DEF SearchInv

\* The pointer read through a module that suits the profile is the right one.
LEMMA PointerOfSuitable ==
  ASSUME NEW m \in Module, NEW ptr, Candidate(m, ptr),
         Fresh(m), Suits(Current, m, image[m].exports)
  PROVE  ptr = cell[m]
<1>1. cache[m] = image[m].exports /\ image[m] # Nil
  BY DEF Fresh
<1>2. PICK n \in WithSuffix(cache[m], Current.linear) : ptr \in Pointers(m, cache[m][n])
  BY DEF Candidate
<1>3. cache[m][n] = "cell"
  BY <1>1, <1>2 DEF Suits
<1>4. Pointers(m, cache[m][n]) = {cell[m]}
  BY <1>1, <1>3 DEF Pointers
<1> QED
  BY <1>2, <1>4

\* A module that is given up for a reason that lasts.
LEMMA GivenUp ==
  ASSUME ProbeInv, TypeInv, SearchInv, Probe, pc \in {"module", "validate"}, NextModule,
         pi' = pi, mods' = mods, cache' = cache, att' = att, closest => closest',
         clean' => /\ clean /\ (closest' => Candidates # {})
                   /\ \A i, m : i = pi /\ m = Here => Excluded(i, m)'
  PROVE  SearchInv'
<1>1. /\ profiles' = profiles /\ mpc' = mpc
      /\ image' = image /\ cell' = cell /\ memory' = memory
  BY ProbeLeaves
<1>2. /\ att' = Nil /\ mpc = "loaded" /\ pc' = "module" /\ queue' = queue \ {Here}
      /\ queue \in SUBSET Module /\ queue \subseteq mods
  BY DEF ProbeInv, TypeInv, TypeOK, SearchInv, SearchTypes, NextModule
<1>3. SearchTypes'
  BY <1>1, <1>2 DEF SearchTypes
<1>4. RejectionExplained' /\ EarlierProfileWins'
  BY <1>2 DEF RejectionExplained, EarlierProfileWins
<1>5. ASSUME clean' PROVE Scanned'
  <2>1. /\ mods = Snapshot
        /\ \A i \in 1..pi-1, m \in Module : Excluded(i, m)
        /\ pc # "profile" => \A m \in Module \ queue : Excluded(pi, m)
    BY <1>5 DEF SearchInv, Scanned
  <2>2. /\ \A i, m : m \in Module /\ Excluded(i, m) => Excluded(i, m)'
        /\ Candidates \subseteq Candidates' /\ Snapshot' = Snapshot
    BY <1>1, ReasonsLast
  <2>3. \A m \in Module \ queue' : m \in Module \ queue \/ m = Here
    BY <1>2
  <2>4. \A i, m : i = pi /\ m = Here => Excluded(i, m)'
    BY <1>5
  <2>5. pc # "profile"
    OBVIOUS
  <2>6. \A i \in 1..pi'-1, m \in Module : Excluded(i, m)'
    BY <2>1, <2>2
  <2>7. \A i : i = pi => \A m \in Module \ queue' : Excluded(i, m)'
    BY <2>1, <2>2, <2>3, <2>4, <2>5
  <2>8. mods' = Snapshot' /\ (closest' => Candidates' # {})
    BY <1>5, <2>1, <2>2
  <2> QED
    BY <2>6, <2>7, <2>8 DEF Scanned
<1> QED
  BY <1>3, <1>4, <1>5, DirtyShowsNothing DEF SearchInv

\* A step of the search that goes on to another place of it.
LEMMA GoesOn ==
  ASSUME ProbeInv, SearchInv, Probe, pc' \in {"profile", "module", "validate"},
         SearchTypes', att' = Nil, closest' = closest,
         \A m \in Module : cache[m] # Nil => cache'[m] = cache[m],
         clean' => /\ clean /\ pc \in {"profile", "module", "validate"} /\ mods' = mods
                   /\ \A i \in 1..pi'-1, m \in Module : Excluded(i, m)
                   /\ \A i : i = pi' /\ pc' # "profile" =>
                        \A m \in Module \ queue' : Excluded(i, m)
  PROVE  SearchInv'
<1>1. /\ profiles' = profiles /\ image' = image /\ cell' = cell /\ memory' = memory
  BY ProbeLeaves
<1>2. RejectionExplained' /\ EarlierProfileWins'
  BY DEF RejectionExplained, EarlierProfileWins
<1>3. ASSUME clean' PROVE Scanned'
  <2>1. mods = Snapshot /\ (closest => Candidates # {})
    BY <1>3 DEF SearchInv, Scanned
  <2>2. /\ \A i, m : m \in Module /\ Excluded(i, m) => Excluded(i, m)'
        /\ Candidates \subseteq Candidates' /\ Snapshot' = Snapshot
    BY <1>1, ReasonsLast
  <2>3. \A i \in 1..pi'-1, m \in Module : Excluded(i, m)'
    BY <1>3, <2>2
  <2>4. \A i : i = pi' /\ pc' # "profile" => \A m \in Module \ queue' : Excluded(i, m)'
    BY <1>3, <2>2
  <2>5. mods' = Snapshot' /\ (closest' => Candidates' # {})
    BY <1>3, <2>1, <2>2
  <2> QED
    BY <2>3, <2>4, <2>5 DEF Scanned
<1> QED
  BY <1>2, <1>3, DirtyShowsNothing DEF SearchInv

LEMMA StartKeepsSearch ==
  ASSUME ProbeInv, SearchInv, StartProbe PROVE SearchInv'
<1>1. /\ profiles' = profiles /\ image' = image /\ cell' = cell /\ memory' = memory
      /\ mpc' = mpc /\ mpc = "loaded" /\ pc' = "profile" /\ pi' = 1 /\ ~closest'
      /\ att' = att /\ att = Nil /\ mods' = Snapshot
  BY ProbeLeaves DEF Probe, StartProbe, ProbeInv
<1>2. Snapshot' = Snapshot /\ \A i : i \notin 1..pi'-1
  BY <1>1 DEF Snapshot
<1>3. SearchTypes' /\ Scanned'
  BY <1>1, <1>2 DEF SearchTypes, Scanned
<1>4. RejectionExplained' /\ EarlierProfileWins'
  BY <1>1 DEF RejectionExplained, EarlierProfileWins
<1> QED
  BY <1>3, <1>4 DEF SearchInv

\* The profile is given up for all modules.
LEMMA ProfileKeepsSearch ==
  ASSUME ProbeInv, TypeInv, SearchInv, SkipProfile \/ TryProfile \/ NextProfile
  PROVE  SearchInv'
<1>1. Probe
  BY DEF Probe
<1>2. /\ mpc' = mpc /\ mpc = "loaded" /\ att' = Nil /\ cache' = cache /\ closest' = closest
      /\ mods' = mods /\ clean' = clean /\ pc' \in {"profile", "module"}
      /\ pc \in {"profile", "module"}
  BY <1>1, ProbeLeaves DEF SkipProfile, TryProfile, NextProfile, Keep, ProbeInv
<1>3. pi \in Nat \ {0}
  BY DEF ProbeInv
<1>4. SearchTypes'
  BY <1>2 DEF SearchTypes, SkipProfile, TryProfile, NextProfile
<1>5. ASSUME clean
      PROVE  /\ mods = Snapshot
             /\ \A i \in 1..pi-1, m \in Module : Excluded(i, m)
             /\ pc # "profile" => \A m \in Module \ queue : Excluded(pi, m)
  BY <1>2, <1>5 DEF SearchInv, Scanned
<1>6. CASE TryProfile
  <2>1. pi' = pi /\ queue' = mods
    BY <1>6 DEF TryProfile
  <2>2. clean => \A m \in Module \ queue' : Excluded(pi, m)
    BY <1>5, <2>1 DEF Snapshot, Excluded
  <2> QED
    BY <1>1, <1>2, <1>4, <1>5, <2>1, <2>2, GoesOn
<1>7. CASE SkipProfile \/ NextProfile
  <2>1. pi' = pi + 1 /\ pc' = "profile"
    BY <1>7 DEF SkipProfile, NextProfile
  <2>2. clean => \A m \in Module : Excluded(pi, m)
    BY <1>5, <1>7 DEF SkipProfile, NextProfile, Current, Excluded
  <2>3. \A i \in 1..pi'-1 : i \in 1..pi-1 \/ i = pi
    BY <1>3, <2>1, SMT
  <2>4. clean => \A i \in 1..pi'-1, m \in Module : Excluded(i, m)
    BY <1>5, <2>2, <2>3
  <2> QED
    BY <1>1, <1>2, <1>4, <2>1, <2>4, GoesOn
<1> QED
  BY <1>6, <1>7

LEMMA NothingKeepsSearch ==
  ASSUME ProbeInv, SearchInv, NothingFound PROVE SearchInv'
<1>1. /\ profiles' = profiles /\ image' = image /\ mpc' = mpc /\ cache' = cache /\ att' = Nil
      /\ pc' = "idle" /\ mpc = "loaded" /\ pc = "profile" /\ clean' = clean /\ pi > Len(profiles)
      /\ verdict' = IF closest THEN "rejected" ELSE "scanning"
  BY ProbeLeaves DEF Probe, NothingFound, Keep, ProbeInv
<1>2. pi \in Nat /\ Len(profiles) \in Nat
  BY DEF ProbeInv, MergeInv
<1>3. SearchTypes' /\ Scanned' /\ EarlierProfileWins'
  BY <1>1 DEF SearchTypes, Scanned, EarlierProfileWins
<1>4. Candidates' = Candidates
  BY <1>1 DEF Candidates, Matches, WithSuffix
<1>5. ASSUME clean, ~closest, NEW m \in Candidates PROVE FALSE
  <2>1. PICK i \in 1..Len(profiles) :
          profiles[i].adapter = Wasm /\ Matches(cache[m], profiles[i])
    BY <1>5 DEF Candidates
  <2>2. i \in 1..pi-1 /\ m \in Module /\ image[m] # Nil
    BY <1>1, <1>2, <1>5 DEF Candidates
  <2>3. Excluded(i, m)
    BY <1>1, <1>5, <2>2 DEF SearchInv, Scanned
  <2> QED
    BY <1>5, <2>1, <2>2, <2>3 DEF Excluded
<1>6. clean /\ closest => Candidates # {}
  BY <1>1 DEF SearchInv, Scanned
<1>7. RejectionExplained'
  BY <1>1, <1>4, <1>5, <1>6 DEF RejectionExplained
<1> QED
  BY <1>3, <1>7 DEF SearchInv

LEMMA ExportsFailKeepsSearch ==
  ASSUME ProbeInv, TypeInv, SearchInv, ExportsFail PROVE SearchInv'
<1>1. Probe
  BY DEF Probe
<1>2. /\ pc = "module" /\ NextModule /\ pi' = pi /\ mods' = mods /\ cache' = cache
      /\ att' = att /\ closest' = closest /\ image' = image /\ queue # {}
      /\ clean' => clean /\ image[Here] = Nil
  BY <1>1, ProbeLeaves DEF ExportsFail, Keep, Chance
<1>3. ~clean'
  <2>1. Here \in queue /\ queue \subseteq mods
    BY <1>2, HereIsFirst DEF SearchInv, SearchTypes, TypeInv, TypeOK
  <2>2. clean => mods = Snapshot
    BY <1>2 DEF SearchInv, Scanned
  <2> QED
    BY <1>2, <2>1, <2>2 DEF Snapshot
<1> QED
  BY <1>1, <1>2, <1>3, GivenUp

\* A module that is no candidate does not suit the profile.
LEMMA MismatchKeepsSearch ==
  ASSUME ProbeInv, TypeInv, SearchInv, Mismatch PROVE SearchInv'
<1>1. Probe
  BY DEF Probe
<1>2. /\ pc = "module" /\ NextModule /\ pi' = pi /\ mods' = mods /\ cache' = cache
      /\ att' = att /\ closest' = closest /\ clean' = clean
      /\ profiles' = profiles /\ image' = image /\ cell' = cell /\ memory' = memory
      /\ cache[Here] # Nil /\ ~Matches(cache[Here], Current)
  BY <1>1, ProbeLeaves DEF Mismatch, Keep
<1>3. PassedOver(Current, Here)
  BY <1>2 DEF PassedOver, Fresh, Suits
<1>4. \A i, m : i = pi /\ m = Here => Excluded(i, m)'
  BY <1>2, <1>3 DEF Excluded, PassedOver, Current, Fresh, Suits, TextBlocks
<1>5. clean' => (closest' => Candidates # {})
  BY <1>2 DEF SearchInv, Scanned
<1> QED
  BY <1>1, <1>2, <1>4, <1>5, GivenUp

\* A candidate is rejected, for a reason that shows it does not suit the profile.
LEMMA RejectKeepsSearch ==
  ASSUME ProbeInv, TypeInv, SearchInv, BadPointer \/ BlockFails,
         Here \in Module, cache[Here] # Nil, Matches(cache[Here], Current),
         clean' => PassedOver(Current, Here)
  PROVE  SearchInv'
<1>1. Probe
  BY DEF Probe
<1>2. /\ pc \in {"module", "validate"} /\ NextModule /\ pi' = pi /\ mods' = mods
      /\ cache' = cache /\ att' = att /\ closest' /\ (clean' => clean)
      /\ profiles' = profiles /\ image' = image /\ cell' = cell /\ memory' = memory
  BY <1>1, ProbeLeaves DEF BadPointer, BlockFails, Reject, Keep, Chance
<1>3. pi \in 1..Len(profiles) /\ Current.adapter = Wasm
  BY <1>2 DEF ProbeInv, Candidacy
<1>4. clean' => \A i, m : i = pi /\ m = Here => Excluded(i, m)'
  BY <1>2 DEF Excluded, PassedOver, Current, Fresh, Suits, TextBlocks
<1>5. ASSUME clean' PROVE Candidates # {}
  <2>1. mods = Snapshot /\ \A m \in Module \ queue : pc # "profile" => Excluded(pi, m)
    BY <1>2, <1>5 DEF SearchInv, Scanned
  <2>2. Here \in queue \/ queue = {}
    BY HereIsFirst DEF TypeInv, TypeOK
  <2>3. CASE Here \in queue
    <3>1. Here \in Snapshot
      BY <1>2, <2>1, <2>3 DEF SearchInv, SearchTypes
    <3>2. Here \in Candidates
      BY <1>3, <3>1 DEF Candidates, Snapshot, Current
    <3> QED
      BY <3>2
  <2>4. queue # {}
    BY DEF TypeInv, BadPointer, BlockFails
  <2> QED
    BY <2>2, <2>3, <2>4
<1> QED
  BY <1>1, <1>2, <1>4, <1>5, GivenUp

LEMMA BadPointerKeepsSearch ==
  ASSUME ProbeInv, TypeInv, SearchInv, BadPointer PROVE SearchInv'
<1>1. Here \in Module /\ cache[Here] # Nil /\ Matches(cache[Here], Current)
  BY HereIsFirst DEF BadPointer, TypeInv, TypeOK, Candidate
<1>2. ASSUME clean', Fresh(Here), Suits(Current, Here, image[Here].exports) PROVE FALSE
  <2>1. Candidate(Here, Nil) \/ Candidate(Here, Low)
    BY <1>2 DEF BadPointer, Chance
  <2>2. cell[Here] = Nil \/ cell[Here] = Low
    BY <1>1, <1>2, <2>1, PointerOfSuitable
  <2> QED
    BY <1>2, <2>2, WorldAssumption DEF Suits
<1> QED
  BY <1>1, <1>2, RejectKeepsSearch DEF PassedOver

LEMMA BlockFailsKeepsSearch ==
  ASSUME ProbeInv, TypeInv, SearchInv, BlockFails PROVE SearchInv'
<1>1. /\ Here \in Module /\ cache[Here] # Nil /\ Matches(cache[Here], Current)
      /\ pc = "validate" /\ check <= Len(Checks(Current)) /\ check \in Nat \ {0}
  BY HereIsFirst DEF BlockFails, TypeInv, TypeOK, SearchInv, SearchTypes
<1>2. Current \in Profile
  BY <1>1 DEF ProbeInv, MergeInv, Candidacy, Current
<1>3. ASSUME clean', Fresh(Here), Suits(Current, Here, image[Here].exports) PROVE FALSE
  <2>1. clean /\ ~Passes(linear, Checks(Current)[check])
    BY <1>3 DEF BlockFails, Chance, Keep
  <2>2. linear = cell[Here]
    BY <1>1, <1>3, <2>1 DEF ProbeInv, Candidacy, Through
  <2>3. TextBlocks(Current, linear)
    BY <1>3, <2>2 DEF Suits
  <2>4. check \in 1..Len(Checks(Current))
    BY <1>1, <1>2, ChecksLength, SMT
  <2> QED
    BY <1>2, <2>1, <2>3, <2>4, CoverChecks
<1> QED
  BY <1>1, <1>3, RejectKeepsSearch DEF PassedOver

LEMMA ReadExportsKeepsSearch ==
  ASSUME ProbeInv, TypeInv, SearchInv, ReadExports PROVE SearchInv'
<1>1. Probe
  BY DEF Probe
<1>2. /\ mpc' = mpc /\ mpc = "loaded" /\ att' = Nil /\ closest' = closest /\ pi' = pi
      /\ mods' = mods /\ clean' = clean /\ pc' = "module" /\ pc = "module" /\ queue' = queue
      /\ cache[Here] = Nil /\ cache' = [cache EXCEPT ![Here] = Readable(image[Here])]
  BY <1>1, ProbeLeaves DEF ReadExports, Keep, ProbeInv, probeVars
<1>3. SearchTypes'
  BY <1>2 DEF SearchInv, SearchTypes
<1>4. \A m \in Module : cache[m] # Nil => cache'[m] = cache[m]
  BY <1>2 DEF TypeInv, TypeOK
<1>5. ASSUME clean
      PROVE  /\ \A i \in 1..pi-1, m \in Module : Excluded(i, m)
             /\ \A m \in Module \ queue : Excluded(pi, m)
  BY <1>2, <1>5 DEF SearchInv, Scanned
<1> QED
  BY <1>1, <1>2, <1>3, <1>4, <1>5, GoesOn

LEMMA ReadPointerKeepsSearch ==
  ASSUME ProbeInv, TypeInv, SearchInv, ReadPointer PROVE SearchInv'
<1>1. Probe
  BY DEF Probe
<1>2. /\ profiles' = profiles /\ mpc' = mpc /\ mpc = "loaded" /\ att' = Nil /\ cache' = cache
      /\ closest' = closest /\ pi' = pi /\ mods' = mods /\ clean' = clean
      /\ pc' = "validate" /\ pc = "module" /\ queue' = queue
      /\ cache[Here] # Nil /\ Matches(cache[Here], Current)
  BY <1>1, ProbeLeaves DEF ReadPointer, Keep, ProbeInv, Candidate
<1>3. SearchTypes'
  BY <1>2, HereStays DEF SearchInv, SearchTypes, Matches, WithSuffix
<1>4. ASSUME clean
      PROVE  /\ \A i \in 1..pi-1, m \in Module : Excluded(i, m)
             /\ \A m \in Module \ queue : Excluded(pi, m)
  BY <1>2, <1>4 DEF SearchInv, Scanned
<1> QED
  BY <1>1, <1>2, <1>3, <1>4, GoesOn

LEMMA BlockPassesKeepsSearch ==
  ASSUME SearchInv, BlockPasses PROVE SearchInv'
<1>1. Probe
  BY DEF Probe
<1> QED
  BY <1>1, ProbeLeaves, SearchUndisturbed DEF BlockPasses, Keep

\* What is taken is the first: all that is tried before it has been excluded.
LEMMA AcceptKeepsSearch ==
  ASSUME ProbeInv, TypeInv, SearchInv, Accept PROVE SearchInv'
<1>1. Probe
  BY DEF Probe
<1>2. PICK s \in Side :
        att' = [profile |-> pi, module |-> Here, linear |-> linear, side |-> s]
  BY DEF Accept
<1>3. /\ profiles' = profiles /\ image' = image /\ cell' = cell /\ memory' = memory
      /\ cache' = cache /\ clean' = clean /\ pc = "validate" /\ pc' = "attached"
      /\ verdict' = "attached" /\ mpc' = mpc /\ mpc = "loaded" /\ queue # {}
      /\ att'.profile = pi /\ att'.module = Here
  BY <1>1, <1>2, ProbeLeaves DEF Accept, Keep, ProbeInv, TypeInv
<1>4. SearchTypes' /\ Scanned' /\ RejectionExplained'
  BY <1>3 DEF SearchTypes, Scanned, RejectionExplained
<1>5. ASSUME clean
      PROVE  /\ \A i \in 1..pi-1, m \in Module : PassedOver(profiles[i], m)
             /\ \A m \in Module : TriedBefore(Current, m, Here) => PassedOver(Current, m)
  <2>1. /\ \A i \in 1..pi-1, m \in Module : Excluded(i, m)
        /\ \A m \in Module \ queue : Excluded(pi, m)
    BY <1>3, <1>5 DEF SearchInv, Scanned
  <2>2. \A i, m : Excluded(i, m) => PassedOver(profiles[i], m)
    BY DEF Excluded, PassedOver, Fresh, Suits
  <2>3. ASSUME NEW m \in Module, TriedBefore(Current, m, Here) PROVE m \notin queue
    <3>1. /\ Here \in Module
          /\ \A n \in queue \ {Here} : TriedBefore(Current, Here, n)
      BY <1>3, HereIsFirst DEF TypeInv, TypeOK
    <3>2. m # Here /\ ~TriedBefore(Current, Here, m)
      BY <2>3, <3>1, TriedBeforeAsymmetric
    <3> QED
      BY <3>1, <3>2
  <2> QED
    BY <2>1, <2>2, <2>3 DEF Current
<1>6. \A p, m : PassedOver(p, m)' <=> PassedOver(p, m)
  BY <1>3 DEF PassedOver, Fresh, Suits, TextBlocks
<1>7. EarlierProfileWins'
  BY <1>3, <1>5, <1>6 DEF EarlierProfileWins, Current
<1> QED
  BY <1>4, <1>7 DEF SearchInv

LEMMA DetachKeepsSearch ==
  ASSUME ProbeInv, SearchInv, Detach PROVE SearchInv'
<1>1. Probe
  BY DEF Probe
<1>2. /\ pc = "attached" /\ pc' = "idle" /\ att' = Nil /\ verdict' = verdict /\ mpc' = mpc
      /\ verdict = "attached" /\ mpc = "loaded"
  BY <1>1, ProbeLeaves DEF Detach, ProbeInv, SearchInv, SearchTypes
<1> QED
  BY <1>2 DEF SearchInv, SearchTypes, Scanned, RejectionExplained, EarlierProfileWins

-----------------------------------------------------------------------------
(* The theorems *)

\* The inductive invariant of the start-up and of the search holds in every
\* reachable state.
THEOREM ProbeInvariant == Spec => []ProbeInv
<1>1. Init => ProbeInv
  BY MergeStart DEF Init, ProbeInv, Candidacy, AcceptsOnlyCompatible
<1>2. ProbeInv /\ [Next]_vars => ProbeInv'
  <2> SUFFICES ASSUME ProbeInv, [Next]_vars PROVE ProbeInv'
    OBVIOUS
  <2>1. ASSUME Probe PROVE ProbeInv'
    BY <2>1, SearchKeeps, ReadPointerKeeps, BlockPassesKeeps, AcceptKeeps, DetachKeeps
       DEF Probe, Search
  <2> QED
    BY <2>1, LoadStepKeeps, ChangeKeeps, StutterKeeps DEF Next
<1> QED
  BY <1>1, <1>2, PTL DEF Spec

\* No two profiles have one ID, whatever profiles.json holds (profiles.go:159-175).
THEOREM ProfilesUnique == Spec => []UniqueIds
<1>1. ProbeInv => UniqueIds
  BY DEF ProbeInv, MergeInv
<1> QED
  BY <1>1, ProbeInvariant, PTL

\* profiles.json counts as a whole or not at all, its later entries before its
\* earlier ones, and a built-in profile keeps its place (profiles.go:153-177).
THEOREM MergeCorrect == Spec => []MergedAsWhole
<1>1. ProbeInv => MergedAsWhole
  BY DEF ProbeInv, MergeInv
<1> QED
  BY <1>1, ProbeInvariant, PTL

\* What is attached has passed the requirements of its profile, for every profile,
\* module and memory (adapter_wasm_windows.go:95-188).
THEOREM OnlyCompatible == Spec => []AcceptsOnlyCompatible
<1>1. ProbeInv => AcceptsOnlyCompatible
  BY DEF ProbeInv
<1> QED
  BY <1>1, ProbeInvariant, PTL

\* Every reachable state is of its type.
THEOREM ProbeTypes == Spec => []TypeInv
<1>1. Init => TypeInv
  <2> SUFFICES ASSUME Init PROVE TypeInv
    OBVIOUS
  <2>1. Len(profiles) \in Nat
    BY BuiltInAssumption DEF Init, MergeInit
  <2>2. pi \in 1..Len(profiles) + 1
    BY <2>1, SMT DEF Init
  <2>3. cache \in [Module -> List \cup {Nil}] /\ {} \subseteq Module
    BY DEF Init
  <2>4. /\ image \in [Module -> Images \cup {Nil}] /\ cell \in [Module -> Pointer]
        /\ memory \in [Base -> Contents] /\ steady = FALSE /\ clean = FALSE
        /\ pc = "idle" /\ queue = {} /\ mods = {} /\ linear = Nil /\ check = 1
        /\ closest = FALSE /\ verdict = "waiting" /\ att = Nil
    BY DEF Init
  <2>5. TypeOK
    <3>1. queue \subseteq Module /\ mods \subseteq Module /\ linear \in Base \cup {Nil}
          /\ check \in Nat \ {0} /\ att \in Attachment \cup {Nil}
      BY <2>4
    <3> QED
      BY <2>2, <2>3, <2>4, <3>1 DEF TypeOK
  <2>6. mpc # "loaded" => pi = 1
    BY DEF Init
  <2> QED
    BY <2>4, <2>5, <2>6 DEF TypeInv
<1>2. ProbeInv /\ TypeInv /\ [Next]_vars => TypeInv'
  <2> SUFFICES ASSUME ProbeInv, TypeInv, [Next]_vars PROVE TypeInv'
    OBVIOUS
  <2>1. CASE UNCHANGED vars
    BY <2>1 DEF TypeInv, TypeOK, vars, mergeVars, worldVars, probeVars, Pointer
  <2> QED
    BY <2>1, TypesChange, TypesLoad, TypesProbe DEF Next
<1> QED
  BY <1>1, <1>2, ProbeInvariant, PTL DEF Spec

\* The inductive invariant of the search: while nothing changes, what lies behind
\* it has been given up for reasons that last.
THEOREM SearchInvariant == Spec => []SearchInv
<1>1. Init => SearchInv
  BY WorldAssumption
     DEF Init, SearchInv, SearchTypes, Scanned, RejectionExplained, EarlierProfileWins
<1>2. ProbeInv /\ TypeInv /\ SearchInv /\ [Next]_vars => SearchInv'
  <2> SUFFICES ASSUME ProbeInv, TypeInv, SearchInv, [Next]_vars PROVE SearchInv'
    OBVIOUS
  <2>1. CASE UNCHANGED vars
    BY <2>1, SearchUndisturbed DEF vars, mergeVars, worldVars, probeVars
  <2>2. ASSUME Probe PROVE SearchInv'
    BY <2>2, StartKeepsSearch, ProfileKeepsSearch, NothingKeepsSearch, ExportsFailKeepsSearch,
       ReadExportsKeepsSearch, MismatchKeepsSearch, BadPointerKeepsSearch,
       ReadPointerKeepsSearch, BlockFailsKeepsSearch, BlockPassesKeepsSearch,
       AcceptKeepsSearch, DetachKeepsSearch DEF Probe
  <2> QED
    BY <2>1, <2>2, ChangeKeepsSearch, LoadKeepsSearch DEF Next
<1> QED
  BY <1>1, <1>2, ProbeInvariant, ProbeTypes, PTL DEF Spec

\* While nothing changes, the profile attached is the first of the list that suits
\* a module, and the module the first that suits it (engine_windows.go:535-605,
\* adapter_wasm_windows.go:41-62).
THEOREM FirstWins == Spec => []EarlierProfileWins
<1>1. SearchInv => EarlierProfileWins
  BY DEF SearchInv
<1> QED
  BY <1>1, SearchInvariant, PTL

\* A rejected candidate is reported exactly if there was one
\* (engine_windows.go:608-622, adapter_wasm_windows.go:97-125).
THEOREM RejectionsExplained == Spec => []RejectionExplained
<1>1. SearchInv => RejectionExplained
  BY DEF SearchInv
<1> QED
  BY <1>1, SearchInvariant, PTL

-----------------------------------------------------------------------------
(* A search ends *)

Searching == pc \in {"profile", "module", "validate"}

\* Less is left of the search: of the profiles; of the modules, for one profile; of
\* the exports to be read and of the blocks to be validated, for one module.
Closer ==
  \/ pi' = pi + 1 /\ pi' <= Len(profiles) + 1
  \/ pi' = pi /\ pc = "profile" /\ pc' = "module"
  \/ /\ pi' = pi /\ {pc, pc'} \subseteq {"module", "validate"}
     /\ \/ queue' \subseteq queue /\ queue' # queue
        \/ /\ queue' = queue
           /\ \/ /\ pc = "module" /\ pc' = "module" /\ cache[Here] = Nil
                 /\ \A m \in Module : (cache'[m] = Nil) <=> (cache[m] = Nil /\ m # Here)
              \/ pc = "module" /\ pc' = "validate"
              \/ /\ pc = "validate" /\ pc' = "validate"
                 /\ check' = check + 1 /\ check' <= Len(Checks(Current)) + 1

\* The rest of the search stays as it is.
SearchStands == UNCHANGED <<profiles, cache, pc, pi, queue, check>>

\* Every step of a search leaves less of it to do, and no step of the simulator
\* gives it more: it comes to an end whatever it is shown, no module being looked at
\* twice for one profile (engine_windows.go:535-605, adapter_wasm_windows.go:95-188).
\* This is the half of Recognised that is safety.
THEOREM SearchEnds == Spec => [][Searching /\ Searching' => IF Probe THEN Closer ELSE SearchStands]_vars
<1>1. ProbeInv /\ TypeInv /\ [Next]_vars =>
        (Searching /\ Searching' => IF Probe THEN Closer ELSE SearchStands)
  <2> SUFFICES ASSUME ProbeInv, TypeInv, [Next]_vars, Searching, Searching'
               PROVE  IF Probe THEN Closer ELSE SearchStands
    OBVIOUS
  <2>1. /\ mpc = "loaded" /\ pi \in Nat /\ Len(profiles) \in Nat /\ check \in Nat
        /\ pc \in {"module", "validate"} => pi <= Len(profiles)
    BY DEF ProbeInv, TypeInv, TypeOK, MergeInv, Candidacy, Searching
  <2>2. queue # {} => Here \in queue /\ Here \in Module
    BY HereIsFirst DEF TypeInv, TypeOK
  <2>3. ASSUME SkipProfile PROVE Closer
    BY <2>1, <2>3 DEF SkipProfile, Closer
  <2>4. ASSUME TryProfile PROVE Closer
    BY <2>4 DEF TryProfile, Closer
  <2>5. ASSUME NextProfile PROVE Closer
    BY <2>1, <2>5 DEF NextProfile, Closer
  <2>6. ASSUME ExportsFail \/ Mismatch \/ BadPointer \/ BlockFails PROVE Closer
    <3>1. /\ pi' = pi /\ pc \in {"module", "validate"} /\ pc' = "module"
          /\ queue # {} /\ queue' = queue \ {Here}
      BY <2>6 DEF ExportsFail, Mismatch, BadPointer, BlockFails, Reject, NextModule, TypeInv
    <3> QED
      BY <2>2, <3>1 DEF Closer
  <2>7. ASSUME ReadExports PROVE Closer
    <3>1. /\ pi' = pi /\ pc = "module" /\ pc' = "module" /\ queue' = queue /\ queue # {}
          /\ cache[Here] = Nil /\ image[Here] # Nil
          /\ cache' = [cache EXCEPT ![Here] = Readable(image[Here])]
      BY <2>7 DEF ReadExports, probeVars
    <3>2. Readable(image[Here]) # Nil
      BY <2>2, <3>1, ReadableType, WorldAssumption DEF TypeInv, TypeOK
    <3>3. cache \in [Module -> List \cup {Nil}]
      BY DEF TypeInv, TypeOK
    <3>4. \A m \in Module : (cache'[m] = Nil) <=> (cache[m] = Nil /\ m # Here)
      BY <2>2, <3>1, <3>2, <3>3
    <3> QED
      BY <3>1, <3>4 DEF Closer
  <2>8. ASSUME ReadPointer PROVE Closer
    BY <2>8 DEF ReadPointer, Closer
  <2>9. ASSUME BlockPasses PROVE Closer
    <3>1. check + 1 <= Len(Checks(Current)) + 1
      <4>1. Len(Checks(Current)) \in Nat
        BY <2>1, <2>9, ChecksLength DEF BlockPasses, ProbeInv, MergeInv, Candidacy
      <4> QED
        BY <2>1, <2>9, <4>1 DEF BlockPasses
    <3> QED
      BY <2>9, <3>1 DEF BlockPasses, Closer
  <2>10. ~(StartProbe \/ NothingFound \/ Accept \/ Detach)
    BY DEF StartProbe, NothingFound, Accept, Detach, Searching
  <2>11. ~LoadStep
    BY <2>1 DEF LoadStep, Load, IgnoreFile, StartMerge, RejectFile, ReplaceProfile, AddProfile,
                FinishMerge
  <2>12. Probe => Closer
    BY <2>3, <2>4, <2>5, <2>6, <2>7, <2>8, <2>9, <2>10 DEF Probe
  <2>13. Change \/ Settle \/ UNCHANGED vars => SearchStands
    BY DEF Change, Settle, vars, mergeVars, probeVars, SearchStands
  <2> QED
    BY <2>11, <2>12, <2>13 DEF Next
<1> QED
  BY <1>1, ProbeInvariant, ProbeTypes, PTL DEF Spec
=============================================================================
