---- MODULE CareerLedgerProofs ----
(***************************************************************************)
(* Proofs about CareerLedger, for any number of matches, crashes and       *)
(* reinstallations: no entry precedes its match file, and every entry      *)
(* whose ledger could be read links to the complete line before it.        *)
(***************************************************************************)
EXTENDS CareerLedger, TLAPS

\* The matches in the ledger are earlier ones than the one being collected.
LinesBehind ==
    \A i \in DOMAIN lines :
      lines[i].match <= match /\ (pc # "idle" => lines[i].match < match)

\* What collect holds in hand when it comes to append: the match file stands,
\* and prevHash is still that of the last complete line.
InHand ==
    /\ pc \in {"chain", "append"} => sgf[match] = "whole"
    /\ pc = "append" /\ match \notin unread => prev = LastLineHash

IInv == TypeOK /\ LinesBehind /\ InHand /\ ChainLinks /\ EntriesAreFiled

\* As long as the app was never reinstalled there is one key, and the ledger and the
\* folder have it.
FirstOnly ==
    /\ {kp, privKey, pubKey, pemKey} \subseteq {Absent, 1}
    /\ \A i \in DOMAIN lines : lines[i].key = 1
    /\ pem = "written" => pemKey # Absent

KeysOfFirst == faults.reinstalls = 0 => FirstOnly

-----------------------------------------------------------------------------

LEMMA InitIInv == Init => IInv
<1> SUFFICES ASSUME Init PROVE IInv
  OBVIOUS
<1>1. TypeOK
  <2>1. lines \in Seq(Line)
    BY DEF Init
  <2>2. faults \in [crashes : 0..MaxCrashes, reinstalls : 0..MaxReinstalls]
    BY LedgerBounds DEF Init
  <2>3. sgf \in [Match -> {"absent", "partial", "whole"}]
    BY DEF Init
  <2>4. /\ kp \in {Absent} /\ privKey \in {Absent} /\ pubKey \in {Absent}
        /\ pemKey \in {Absent} /\ prev \in {Genesis}
    BY DEF Init
  <2>5. /\ pc = "idle" /\ pem = "absent" /\ tail = FALSE /\ unread = {}
        /\ match = 0 /\ 0 \in 0..MaxMatches
    BY LedgerBounds DEF Init
  <2> QED
    BY <2>1, <2>2, <2>3, <2>4, <2>5 DEF TypeOK
<1>2. DOMAIN lines = {}
  BY DEF Init
<1>3. LinesBehind /\ ChainLinks /\ EntriesAreFiled
  BY <1>2 DEF LinesBehind, ChainLinks, EntriesAreFiled
<1>4. InHand
  BY DEF Init, InHand
<1> QED
  BY <1>1, <1>3, <1>4 DEF IInv

\* The last line's hash is a match's number or genesis.
LEMMA LastLineHashType == ASSUME TypeOK PROVE LastLineHash \in Match \cup {Genesis}
<1>1. CASE lines = <<>>
  BY <1>1 DEF LastLineHash
<1>2. CASE lines # <<>>
  <2>1. lines[Len(lines)] \in Line
    BY <1>2 DEF TypeOK
  <2> QED
    BY <1>2, <2>1 DEF LastLineHash, Line
<1> QED
  BY <1>1, <1>2

\* A line names a match.
LEMMA LineNamesMatch ==
  ASSUME TypeOK, NEW i \in DOMAIN lines
  PROVE  lines[i].match \in Match /\ lines[i].match \in Nat
<1>1. lines[i] \in Line
  BY DEF TypeOK
<1>2. lines[i].match \in Match
  BY <1>1 DEF Line
<1> QED
  BY <1>2 DEF Match

\* A step that leaves the ledger, the match files and the match alone keeps what
\* is said of the lines.
LEMMA LinesUntouched ==
  ASSUME LinesBehind, ChainLinks, EntriesAreFiled,
         UNCHANGED <<match, sgf, fileVars>>, pc # "idle" \/ pc' = "idle"
  PROVE  LinesBehind' /\ ChainLinks' /\ EntriesAreFiled'
  BY DEF LinesBehind, ChainLinks, EntriesAreFiled, LinkOk, fileVars

-----------------------------------------------------------------------------
(* Types.                                                                  *)

LEMMA TypeStep == TypeOK /\ [Next]_vars => TypeOK'
<1> SUFFICES ASSUME TypeOK, [Next]_vars PROVE TypeOK'
  OBVIOUS
<1> USE LedgerBounds DEF TypeOK
<1>1. CASE Collect
  BY <1>1 DEF Collect, keyVars, pemVars, fileVars
<1>2. CASE LoadKey
  BY <1>2 DEF LoadKey, keyVars, pemVars, fileVars, Absent
<1>3. CASE CreateKey
  <2>1. faults.reinstalls + 1 \in Key /\ faults.reinstalls + 1 # Absent
    BY DEF Key, Absent
  <2> QED
    BY <1>3, <2>1 DEF CreateKey, pemVars, fileVars
<1>4. CASE StorePublic
  BY <1>4 DEF StorePublic, pemVars, fileVars
<1>5. CASE FindPem
  BY <1>5 DEF FindPem, keyVars, fileVars
<1>6. CASE WritePem
  BY <1>6 DEF WritePem, keyVars, pemVars, fileVars
<1>7. CASE CreateSgf
  BY <1>7 DEF CreateSgf, keyVars, pemVars, fileVars
<1>8. CASE WriteSgf
  BY <1>8 DEF WriteSgf, keyVars, pemVars, fileVars
<1>9. CASE ReadLedger
  <2>1. match \in Match
    BY <1>9 DEF ReadLedger, Match
  <2> QED
    BY <1>9, <2>1, LastLineHashType DEF ReadLedger, keyVars, pemVars
<1>10. CASE AppendLine
  <2>1. [match |-> match, prev |-> prev, key |-> kp, marred |-> tail] \in Line
    BY <1>10 DEF AppendLine, Line, Match
  <2>2. lines' \in Seq(Line)
    BY <1>10, <2>1 DEF AppendLine
  <2> QED
    BY <1>10, <2>2 DEF AppendLine, keyVars, pemVars
<1>11. CASE Crash
  <2>1. faults' \in [crashes : 0..MaxCrashes, reinstalls : 0..MaxReinstalls]
    BY <1>11 DEF Crash
  <2> QED
    BY <1>11, <2>1 DEF Crash, keyVars, pemVars, fileVars
<1>12. CASE Reinstall
  <2>1. faults' \in [crashes : 0..MaxCrashes, reinstalls : 0..MaxReinstalls]
    BY <1>12 DEF Reinstall
  <2> QED
    BY <1>12, <2>1 DEF Reinstall, pemVars, fileVars
<1>13. CASE UNCHANGED vars
  BY <1>13 DEF vars, keyVars, pemVars, fileVars
<1> QED
  BY <1>1, <1>2, <1>3, <1>4, <1>5, <1>6, <1>7, <1>8, <1>9, <1>10, <1>11, <1>12, <1>13
  DEF Next

-----------------------------------------------------------------------------
(* The ledger's lines.                                                     *)

\* The appended line links to the last one; those before it stay as they were.
LEMMA AppendKeeps ==
  ASSUME IInv, AppendLine
  PROVE  LinesBehind' /\ ChainLinks' /\ EntriesAreFiled'
<1> DEFINE new == [match |-> match, prev |-> prev, key |-> kp, marred |-> tail]
<1>1. CASE lines' = lines
  BY <1>1, LinesUntouched DEF AppendLine, IInv, LinesBehind, ChainLinks, EntriesAreFiled,
     LinkOk
<1>2. CASE lines' = Append(lines, new)
  <2>1. /\ lines \in Seq(Line) /\ match \in Nat
        /\ pc = "append" /\ pc' = "idle" /\ match' = match /\ sgf' = sgf /\ unread' = unread
    BY <1>2 DEF AppendLine, IInv, TypeOK
  <2>2. /\ Len(lines') = Len(lines) + 1 /\ Len(lines) \in Nat
        /\ DOMAIN lines = 1..Len(lines) /\ DOMAIN lines' = 1..(Len(lines) + 1)
        /\ \A i \in 1..Len(lines) : lines'[i] = lines[i]
        /\ lines'[Len(lines) + 1] = new
    BY <1>2, <2>1
  <2>3. new.match = match /\ new.prev = prev
    OBVIOUS
  <2> HIDE DEF new
  <2>4. LinesBehind'
    BY <2>1, <2>2, <2>3 DEF LinesBehind, IInv
  <2>5. EntriesAreFiled'
    BY <2>1, <2>2, <2>3 DEF EntriesAreFiled, InHand, IInv
  <2>6. ChainLinks'
    <3> SUFFICES ASSUME NEW i \in DOMAIN lines', lines'[i].match \notin unread'
                 PROVE  LinkOk(i)'
      BY DEF ChainLinks
    <3>1. CASE i \in DOMAIN lines
      <4>1. LinkOk(i) /\ lines'[i] = lines[i]
        BY <3>1, <2>1, <2>2 DEF ChainLinks, IInv
      <4>2. i = 1 \/ lines'[i - 1] = lines[i - 1]
        BY <3>1, <2>2
      <4> QED
        BY <4>1, <4>2 DEF LinkOk
    <3>2. CASE i = Len(lines) + 1
      <4>1. prev = LastLineHash /\ lines'[i].prev = prev
        BY <3>2, <2>1, <2>2, <2>3 DEF InHand, IInv
      <4>2. CASE i = 1
        <5>1. Len(lines) = 0
          BY <3>2, <4>2, <2>2
        <5>2. lines = <<>>
          BY <5>1, <2>1
        <5>3. lines'[i].prev = Genesis
          BY <4>1, <5>2 DEF LastLineHash
        <5> QED
          BY <4>2, <5>3 DEF LinkOk
      <4>3. CASE i # 1
        <5>1. Len(lines) # 0 /\ i - 1 = Len(lines) /\ Len(lines) \in 1..Len(lines)
          BY <3>2, <4>3, <2>2
        <5>2. lines # <<>>
          BY <5>1
        <5>3. lines'[i].prev = lines[Len(lines)].match
          BY <4>1, <5>2 DEF LastLineHash
        <5>4. lines'[i - 1] = lines[Len(lines)]
          BY <5>1, <2>2
        <5> QED
          BY <4>3, <5>3, <5>4 DEF LinkOk
      <4> QED
        BY <4>2, <4>3
    <3> QED
      BY <3>1, <3>2, <2>2
  <2> QED
    BY <2>4, <2>5, <2>6
<1> QED
  BY <1>1, <1>2 DEF AppendLine

LEMMA LinesStep ==
  IInv /\ [Next]_vars => LinesBehind' /\ ChainLinks' /\ EntriesAreFiled'
<1> SUFFICES ASSUME IInv, [Next]_vars
             PROVE  LinesBehind' /\ ChainLinks' /\ EntriesAreFiled'
  OBVIOUS
<1> USE DEF IInv
<1>1. CASE Collect
  <2>1. /\ sgf' = sgf /\ lines' = lines /\ unread' = unread
        /\ match' = match + 1 /\ match \in Nat
    BY <1>1 DEF Collect, TypeOK, fileVars
  <2>2. LinesBehind'
    <3> SUFFICES ASSUME NEW i \in DOMAIN lines
                 PROVE  lines[i].match <= match + 1 /\ lines[i].match < match + 1
      BY <2>1 DEF LinesBehind
    <3>1. lines[i].match <= match
      BY DEF LinesBehind
    <3>2. lines[i].match \in Nat
      BY LineNamesMatch
    <3> QED
      BY <3>1, <3>2, <2>1
  <2>3. ChainLinks' /\ EntriesAreFiled'
    BY <2>1 DEF ChainLinks, EntriesAreFiled, LinkOk
  <2> QED
    BY <2>2, <2>3
<1>2. CASE \/ LoadKey \/ CreateKey \/ StorePublic \/ FindPem \/ WritePem \/ Crash
  <2>1. UNCHANGED <<match, sgf, fileVars>> /\ pc # "idle"
    BY <1>2 DEF LoadKey, CreateKey, StorePublic, FindPem, WritePem, Crash
  <2> QED
    BY <2>1, LinesUntouched
<1>3. CASE Reinstall \/ UNCHANGED vars
  <2>1. UNCHANGED <<pc, match, sgf, fileVars>>
    BY <1>3 DEF Reinstall, vars
  <2> QED
    BY <2>1, LinesUntouched
<1>4. CASE CreateSgf \/ WriteSgf
  <2>1. /\ UNCHANGED <<match, fileVars>> /\ pc # "idle"
        /\ \A m \in Match : m # match => sgf'[m] = sgf[m]
    BY <1>4 DEF CreateSgf, WriteSgf, TypeOK
  <2>2. \A i \in DOMAIN lines : lines[i].match \in Match
    BY LineNamesMatch
  <2>3. \A i \in DOMAIN lines : lines[i].match # match
    BY <2>1, LineNamesMatch DEF LinesBehind, TypeOK
  <2> QED
    BY <2>1, <2>2, <2>3 DEF LinesBehind, ChainLinks, EntriesAreFiled, LinkOk, fileVars
<1>5. CASE ReadLedger
  <2>1. /\ UNCHANGED <<match, sgf, lines>> /\ pc # "idle" /\ unread \subseteq unread'
    BY <1>5 DEF ReadLedger
  <2> QED
    BY <2>1 DEF LinesBehind, ChainLinks, EntriesAreFiled, LinkOk
<1>6. CASE AppendLine
  BY <1>6, AppendKeeps
<1> QED
  BY <1>1, <1>2, <1>3, <1>4, <1>5, <1>6 DEF Next

LEMMA InHandStep == IInv /\ [Next]_vars => InHand'
<1> SUFFICES ASSUME IInv, [Next]_vars PROVE InHand'
  OBVIOUS
<1> USE DEF IInv, InHand, LastLineHash
<1>1. CASE Collect \/ LoadKey \/ CreateKey \/ StorePublic \/ FindPem \/ WritePem \/ CreateSgf
  BY <1>1 DEF Collect, LoadKey, CreateKey, StorePublic, FindPem, WritePem, CreateSgf
<1>2. CASE WriteSgf
  <2>1. match \in DOMAIN sgf
    BY <1>2 DEF WriteSgf, TypeOK, Match
  <2> QED
    BY <1>2, <2>1 DEF WriteSgf
<1>3. CASE ReadLedger
  BY <1>3 DEF ReadLedger
<1>4. CASE AppendLine \/ Crash
  BY <1>4 DEF AppendLine, Crash
<1>5. CASE Reinstall \/ UNCHANGED vars
  BY <1>5 DEF Reinstall, vars, fileVars
<1> QED
  BY <1>1, <1>2, <1>3, <1>4, <1>5 DEF Next

\* Every step keeps the keys: one is generated per installation, and the others are copies.
LEMMA KeysStep == IInv /\ KeysOfFirst /\ [Next]_vars => KeysOfFirst'
<1> SUFFICES ASSUME IInv, KeysOfFirst, [Next]_vars, faults'.reinstalls = 0 PROVE FirstOnly'
  BY DEF KeysOfFirst
<1>1. faults.reinstalls \in Nat /\ faults \in [crashes : 0..MaxCrashes, reinstalls : 0..MaxReinstalls]
  BY LedgerBounds DEF IInv, TypeOK
<1>2. CASE AppendLine
  <2>1. FirstOnly /\ UNCHANGED <<kp, privKey, pubKey, pem, pemKey>> /\ pc = "append"
    BY <1>2 DEF AppendLine, KeysOfFirst, keyVars, pemVars
  <2>2. kp = 1
    BY <2>1 DEF IInv, TypeOK, FirstOnly, Absent
  <2>3. ASSUME NEW i \in DOMAIN lines' PROVE lines'[i].key = 1
    <3> DEFINE new == [match |-> match, prev |-> prev, key |-> kp, marred |-> tail]
    <3>1. CASE lines' = lines
      BY <2>1, <3>1 DEF FirstOnly
    <3>2. CASE lines' = Append(lines, new)
      <4>1. lines \in Seq(Line) /\ new.key = 1
        BY <2>2 DEF IInv, TypeOK
      <4> HIDE DEF new
      <4>2. (i \in DOMAIN lines /\ lines'[i] = lines[i]) \/ lines'[i] = new
        BY <3>2, <4>1
      <4> QED
        BY <2>1, <4>1, <4>2 DEF FirstOnly
    <3> QED
      BY <1>2, <3>1, <3>2 DEF AppendLine
  <2> QED
    BY <2>1, <2>3 DEF FirstOnly
<1>3. CASE Crash
  BY <1>1, <1>3 DEF Crash, KeysOfFirst, FirstOnly, keyVars, pemVars, fileVars
<1>4. CASE Reinstall
  <2>1. faults'.reinstalls = faults.reinstalls + 1
    BY <1>1, <1>4 DEF Reinstall
  <2> QED
    BY <1>1, <2>1
<1>5. CASE CreateKey
  BY <1>5 DEF CreateKey, KeysOfFirst, FirstOnly, pemVars, fileVars
<1>6. CASE WritePem
  <2>1. kp # Absent
    BY <1>6 DEF WritePem, IInv, TypeOK
  <2> QED
    BY <1>6, <2>1 DEF WritePem, KeysOfFirst, FirstOnly, keyVars, pemVars, fileVars
<1>7. CASE \/ Collect \/ LoadKey \/ StorePublic \/ FindPem \/ CreateSgf \/ WriteSgf \/ ReadLedger
           \/ UNCHANGED vars
  BY <1>7 DEF Collect, LoadKey, StorePublic, FindPem, CreateSgf, WriteSgf, ReadLedger, vars,
              KeysOfFirst, FirstOnly, keyVars, pemVars, fileVars
<1> QED
  BY <1>2, <1>3, <1>4, <1>5, <1>6, <1>7 DEF Next

\* With one key, no fragment in front of an entry and every read done, no line is named.
LEMMA CleanFromInvariants == IInv /\ KeysOfFirst => CleanRecordIsIntact
<1> SUFFICES ASSUME IInv, KeysOfFirst, \A i \in DOMAIN lines : ~lines[i].marred,
                    unread = {}, pem = "written", faults.reinstalls = 0
             PROVE  Findings = {}
  BY DEF CleanRecordIsIntact
<1>1. ASSUME NEW i \in DOMAIN lines
      PROVE  SignatureOk(i) /\ LinkOk(i) /\ sgf[lines[i].match] = "whole"
  <2>1. pemKey = 1 /\ lines[i].key = 1
    BY DEF KeysOfFirst, FirstOnly, Absent
  <2> QED
    BY <2>1 DEF SignatureOk, IInv, ChainLinks, EntriesAreFiled
<1> QED
  BY <1>1 DEF Findings, Said

LEMMA IInvStep == IInv /\ [Next]_vars => IInv'
  BY TypeStep, LinesStep, InHandStep DEF IInv

LEMMA Invariance == Spec => []IInv
  BY InitIInv, IInvStep, PTL DEF Spec

-----------------------------------------------------------------------------
(* The theorems.                                                           *)

\* Every variable stays in its type, a key being in hand from the moment one is
\* needed on: collect never signs without one (CareerLedger.collect).
THEOREM TypeCorrect == Spec => []TypeOK
<1>1. IInv => TypeOK
  BY DEF IInv
<1> QED
  BY <1>1, Invariance, PTL

\* Through any number of broken writes, crashes and reinstallations each entry
\* whose ledger could be read links to the complete line before it, whatever
\* fragments lie between (lastLineHash).
THEOREM ChainCorrect == Spec => []ChainLinks
<1>1. IInv => ChainLinks
  BY DEF IInv
<1> QED
  BY <1>1, Invariance, PTL

\* No entry stands in the ledger without its whole match file (the order of the
\* writes in CareerLedger.collect).
THEOREM FiledCorrect == Spec => []EntriesAreFiled
<1>1. IInv => EntriesAreFiled
  BY DEF IInv
<1> QED
  BY <1>1, Invariance, PTL

\* Nothing is said against a record whose writes and reads all succeeded, through any
\* number of matches and crashes: the verifier raises no false alarm (CareerVerify.run).
THEOREM CleanCorrect == Spec => []CleanRecordIsIntact
<1>1. Init => KeysOfFirst
  BY DEF Init, KeysOfFirst, FirstOnly
<1>2. Spec => []KeysOfFirst
  BY <1>1, KeysStep, Invariance, PTL DEF Spec
<1> QED
  BY <1>2, Invariance, CleanFromInvariants, PTL
====
