----------------------------- MODULE VaultProofs -----------------------------
(***************************************************************************)
(* Proofs about the vault: the catalogue of styles, for any themes and any *)
(* number of requests at a time (an approved theme has grounds, whatever   *)
(* overlaps), and the index of the notes, for any notes, contents and runs *)
(* (the live graph shows the index, and a reindex repairs it).             *)
(***************************************************************************)
EXTENDS StyleThemes, VaultIndex, FiniteSetTheorems, SequenceTheorems, TLAPS

-----------------------------------------------------------------------------
(* Styles: the inductive invariant *)

\* Why a name is what it is.  The column approved_by is right whatever the status:
\* a write that keeps it may restore the status of another write.
Grounds(n) ==
  /\ theme[n].status = "approved" \/ n \in doc => ground[n] # {}
  /\ theme[n].by \in {"gate", "builtin"} => theme[n].by \in ground[n]

\* A document is about to be written only for a theme with grounds.
DocumentsWithGrounds ==
  \A o \in Ops : op[o].pc = "doc" => \A n \in op[o].of : ground[n] # {}

SInv ==
  /\ StylesTypeOK
  /\ \A n \in Names : Grounds(n)
  /\ DocumentsWithGrounds

Operation == [pc: {"idle", "load", "save", "doc"}, kind: Kinds, of: SUBSET Names,
              seen: [Names -> Theme], overtaken: BOOLEAN]

LEMMA TypeParts ==
  ASSUME StylesTypeOK
  PROVE  /\ theme \in [Names -> Theme] /\ doc \subseteq Names /\ op \in [Ops -> Operation]
         /\ ground \in [Names -> SUBSET {"gate", "owner", "builtin"}]
BY DEF StylesTypeOK, Operation

LEMMA FreeIsFree == Free \in Operation /\ Free.pc = "idle" /\ Free.of = {}
BY DEF Free, Operation, Kinds, NoTheme, Theme, Statuses

-----------------------------------------------------------------------------
(* A write over a row that may have changed since it was loaded *)

\* Every column of the row written is the one that was there or the new one, and the
\* new one where it differs from what was loaded.
LEMMA WrittenRow ==
  ASSUME NEW n \in Names, NEW seen \in Theme, NEW new \in Theme, theme \in [Names -> Theme]
  PROVE  LET w == Written(n, seen, new)
         IN /\ w \in Theme
            /\ w.status = IF new.status = seen.status THEN theme[n].status ELSE new.status
            /\ w.by = IF new.by = seen.by THEN theme[n].by ELSE new.by
<1>1. theme[n] \in Theme
  OBVIOUS
<1>2. DOMAIN new = {"status", "by", "problems"}
  BY DEF Theme
<1> DEFINE w == Written(n, seen, new)
<1>3. w = [c \in {"status", "by", "problems"} |->
             IF new[c] = seen[c] THEN theme[n][c] ELSE new[c]]
  BY <1>2 DEF Written
<1>4. w = [status |-> IF new.status = seen.status THEN theme[n].status ELSE new.status,
           by |-> IF new.by = seen.by THEN theme[n].by ELSE new.by,
           problems |-> IF new.problems = seen.problems THEN theme[n].problems ELSE new.problems]
  BY <1>3
<1>5. QED
  BY <1>1, <1>4 DEF Theme

-----------------------------------------------------------------------------
(* The first state, and the steps that leave the rows alone *)

LEMMA StylesInitInv == ASSUME StylesInit PROVE SInv
<1>1. StylesTypeOK
  BY FreeIsFree DEF StylesInit, StylesTypeOK, Operation, NoTheme, Theme, Statuses
<1>2. \A n \in Names : Grounds(n)
  BY DEF StylesInit, Grounds, NoTheme
<1>3. DocumentsWithGrounds
  BY FreeIsFree DEF StylesInit, DocumentsWithGrounds
<1>4. QED
  BY <1>1, <1>2, <1>3 DEF SInv

\* A step that leaves rows, documents and grounds alone, and begins no document.
LEMMA OpStep ==
  ASSUME SInv, NEW o \in Ops, NEW x \in Operation, x.pc # "doc",
         op' = [op EXCEPT ![o] = x], UNCHANGED <<theme, doc, ground>>
  PROVE  SInv'
<1>1. /\ op' \in [Ops -> Operation] /\ op'[o] = x
      /\ \A p \in Ops : p # o => op'[p] = op[p]
  BY TypeParts DEF SInv
<1>2. StylesTypeOK'
  BY <1>1, TypeParts DEF SInv, StylesTypeOK, Operation
<1>3. \A n \in Names : Grounds(n)'
  BY DEF SInv, Grounds
<1>4. DocumentsWithGrounds'
  BY <1>1 DEF SInv, DocumentsWithGrounds
<1>5. QED
  BY <1>2, <1>3, <1>4 DEF SInv

LEMMA Loading ==
  ASSUME NEW kind \in Kinds, NEW names \in SUBSET Names
  PROVE  LET x == [Free EXCEPT !.pc = "load", !.kind = kind, !.of = names]
         IN x \in Operation /\ x.pc = "load"
BY FreeIsFree DEF Operation

LEMMA RequestStep == ASSUME SInv, NEW o \in Ops, Request(o) PROVE SInv'
<1>1. PICK kind \in Kinds, names \in SUBSET Names : Begin(o, kind, names)
  BY StylesAssumption DEF Request, Kinds
<1>2. QED
  BY <1>1, Loading, OpStep DEF Request, Begin

LEMMA LoadRowStep == ASSUME SInv, NEW o \in Ops, LoadRow(o) PROVE SInv'
<1> DEFINE seen == [n \in Names |-> IF n \in op[o].of THEN theme[n] ELSE NoTheme]
           x == [op[o] EXCEPT !.pc = "save", !.seen = seen]
<1>1. seen \in [Names -> Theme]
  BY TypeParts DEF SInv, NoTheme, Theme, Statuses
<1>2. op[o] \in Operation
  BY TypeParts DEF SInv
<1> HIDE DEF seen
<1>3. x \in Operation /\ x.pc = "save"
  BY <1>1, <1>2 DEF Operation
<1>4. op' = [op EXCEPT ![o] = x]
  BY TypeParts DEF LoadRow, SInv, seen
<1> HIDE DEF x
<1>5. QED
  BY <1>3, <1>4, OpStep DEF LoadRow

LEMMA DropStep == ASSUME SInv, NEW o \in Ops, Drop(o) PROVE SInv'
BY FreeIsFree, OpStep DEF Drop

-----------------------------------------------------------------------------
(* The steps that write *)

LEMMA ProposeStep == ASSUME SInv, NEW o \in Ops, ProposeStyle(o) PROVE SInv'
<1>1. PICK n \in Names : /\ theme' = [theme EXCEPT ![n].status = "candidate"]
                         /\ Begin(o, "gate", {n})
  BY DEF ProposeStyle
<1> DEFINE x == [Free EXCEPT !.pc = "load", !.kind = "gate", !.of = {n}]
<1>2. x \in Operation /\ x.pc = "load"
  BY Loading DEF Kinds
<1>3. op' = [op EXCEPT ![o] = x] /\ UNCHANGED <<doc, ground>>
  BY <1>1 DEF Begin, ProposeStyle
<1> HIDE DEF x
<1>4. theme' \in [Names -> Theme]
  <2>1. theme[n] \in Theme
    BY TypeParts DEF SInv
  <2>2. [theme[n] EXCEPT !.status = "candidate"] \in Theme
    BY <2>1 DEF Theme, Statuses
  <2>3. QED
    BY <1>1, <2>2, TypeParts DEF SInv
<1>5. \A m \in Names : theme'[m].by = theme[m].by /\ (theme'[m].status = theme[m].status \/ theme'[m].status = "candidate")
  BY <1>1, TypeParts DEF SInv, Theme
<1>6. op' \in [Ops -> Operation] /\ \A p \in Ops : op'[p] = op[p] \/ op'[p].pc = "load"
  BY <1>2, <1>3, TypeParts DEF SInv
<1>7. StylesTypeOK'
  BY <1>3, <1>4, <1>6, TypeParts DEF SInv, StylesTypeOK, Operation
<1>8. \A m \in Names : Grounds(m)'
  BY <1>3, <1>5 DEF SInv, Grounds
<1>9. DocumentsWithGrounds'
  BY <1>3, <1>6 DEF SInv, DocumentsWithGrounds
<1>10. QED
  BY <1>7, <1>8, <1>9 DEF SInv

\* What the operation at work becomes when it has written the row of n.
LEMMA Documented ==
  ASSUME NEW n \in Names, NEW status
  PROVE  LET x == Document(n, status)
         IN /\ x \in Operation /\ x.pc \in {"idle", "doc"}
            /\ x.pc = "doc" => status = "approved" /\ x.of = {n}
<1>1. CASE status = "approved"
  <2> DEFINE x == [Free EXCEPT !.pc = "doc", !.of = {n}]
  <2>1. x \in Operation /\ x.pc = "doc" /\ x.of = {n}
    BY FreeIsFree DEF Operation
  <2>2. Document(n, status) = x
    BY <1>1 DEF Document
  <2>3. QED
    BY <1>1, <2>1, <2>2
<1>2. CASE status # "approved"
  BY <1>2, FreeIsFree DEF Document
<1>3. QED
  BY <1>1, <1>2

\* A decision on n writes its row with grounds, and documents it only if approved.
LEMMA DecisionStep ==
  ASSUME SInv, NEW o \in Ops, NEW n \in Names, NEW row \in Theme,
         NEW g \in SUBSET {"gate", "owner", "builtin"}, ground[n] \subseteq g,
         row.status = "approved" => theme[n].status = "approved" \/ g # {},
         row.by \in {"gate", "builtin"} => row.by \in g \/ row.by = theme[n].by,
         theme' = [theme EXCEPT ![n] = row], ground' = [ground EXCEPT ![n] = g],
         op' \in [Ops -> Operation],
         op'[o].pc = "doc" => op'[o].of = {n} /\ g # {},
         \A p \in Ops \ {o} : op'[p].pc = op[p].pc /\ op'[p].of = op[p].of,
         UNCHANGED doc
  PROVE  SInv'
<1>1. theme' \in [Names -> Theme] /\ theme'[n] = row /\ \A m \in Names \ {n} : theme'[m] = theme[m]
  BY TypeParts DEF SInv
<1>2. /\ ground' \in [Names -> SUBSET {"gate", "owner", "builtin"}] /\ ground'[n] = g
      /\ \A m \in Names \ {n} : ground'[m] = ground[m]
  BY TypeParts DEF SInv
<1>3. \A m \in Names : ground[m] \subseteq ground'[m]
  BY <1>2
<1>4. StylesTypeOK'
  BY <1>1, <1>2, TypeParts DEF SInv, StylesTypeOK, Operation
<1>5. \A m \in Names : Grounds(m)'
  BY <1>1, <1>2, <1>3 DEF SInv, Grounds
<1>6. DocumentsWithGrounds'
  BY <1>2, <1>3, TypeParts DEF SInv, DocumentsWithGrounds, Operation
<1>7. QED
  BY <1>4, <1>5, <1>6 DEF SInv

LEMMA SaveGateStep == ASSUME SInv, NEW o \in Ops, SaveGate(o) PROVE SInv'
<1>1. PICK n \in op[o].of, v \in Verdicts :
        /\ Save(o, n, [status |-> IF v.passes THEN "approved" ELSE "rejected",
                       by |-> IF v.passes THEN "gate" ELSE op[o].seen[n].by,
                       problems |-> v.problems])
        /\ ground' = [ground EXCEPT ![n] = IF v.passes THEN @ \cup {"gate"} ELSE @]
        /\ op' = [op EXCEPT ![o] = Document(n, theme'[n].status)]
  BY DEF SaveGate
<1>2. op[o] \in Operation /\ n \in Names /\ v.passes \in BOOLEAN /\ v.problems \in BOOLEAN
  <2>1. PICK e \in Evaluation : v = [passes |-> Passes(e), problems |-> Problems(e)]
    BY DEF Verdicts
  <2>2. Passes(e) \in BOOLEAN /\ Problems(e) \in BOOLEAN
    BY Zenon DEF Passes, Problems
  <2>3. v.passes = Passes(e) /\ v.problems = Problems(e)
    BY <2>1
  <2>4. QED
    BY <1>1, <2>2, <2>3, TypeParts DEF SInv, Operation
<1> DEFINE seen == op[o].seen[n]
           new == [status |-> IF v.passes THEN "approved" ELSE "rejected",
                   by |-> IF v.passes THEN "gate" ELSE seen.by, problems |-> v.problems]
           row == Written(n, seen, new)
           g == IF v.passes THEN ground[n] \cup {"gate"} ELSE ground[n]
<1>3. seen \in Theme
  BY <1>2 DEF Operation
<1>4. new \in Theme
  BY <1>2, <1>3 DEF Theme, Statuses
<1>5. theme' = [theme EXCEPT ![n] = row] /\ ground' = [ground EXCEPT ![n] = g]
  BY <1>1 DEF Save
<1>6. theme \in [Names -> Theme] /\ ground[n] \in SUBSET {"gate", "owner", "builtin"} /\ Grounds(n)
  BY <1>2, TypeParts DEF SInv
<1>7. /\ row \in Theme
      /\ row.status = IF new.status = seen.status THEN theme[n].status ELSE new.status
      /\ row.by = IF new.by = seen.by THEN theme[n].by ELSE new.by
  BY <1>2, <1>3, <1>4, <1>6, WrittenRow
<1>8. /\ new.status = "approved" => v.passes
      /\ new.by = seen.by \/ (v.passes /\ new.by = "gate")
      /\ v.passes => "gate" \in g
      /\ g \in SUBSET {"gate", "owner", "builtin"} /\ ground[n] \subseteq g
  BY <1>2, <1>6
<1> HIDE DEF row, new, seen, g
<1>9. /\ row.status = "approved" => theme[n].status = "approved" \/ g # {}
      /\ row.by \in {"gate", "builtin"} => row.by \in g \/ row.by = theme[n].by
  BY <1>7, <1>8
<1>10. row.status = "approved" => g # {}
  BY <1>6, <1>8, <1>9 DEF Grounds
<1> DEFINE x == Document(n, row.status)
<1>11. x \in Operation /\ (x.pc = "doc" => row.status = "approved" /\ x.of = {n})
  BY <1>2, Documented
<1>12. theme'[n] = row
  BY <1>2, <1>5, <1>6
<1>13. op' = [op EXCEPT ![o] = x]
  BY <1>1, <1>12
<1> HIDE DEF x
<1>14. /\ op' \in [Ops -> Operation]
       /\ op'[o].pc = "doc" => op'[o].of = {n} /\ g # {}
       /\ \A p \in Ops \ {o} : op'[p].pc = op[p].pc /\ op'[p].of = op[p].of
  BY <1>10, <1>11, <1>13, TypeParts DEF SInv
<1>15. UNCHANGED doc
  BY DEF SaveGate
<1>16. QED
  BY <1>2, <1>5, <1>7, <1>8, <1>9, <1>14, <1>15, DecisionStep

LEMMA SaveOwnerStep == ASSUME SInv, NEW o \in Ops, SaveOwner(o) PROVE SInv'
<1> DEFINE yes == op[o].kind = "approve"
<1>1. PICK n \in op[o].of, reason \in BOOLEAN :
        /\ Save(o, n, [status |-> IF yes THEN "approved" ELSE "rejected", by |-> "owner",
                       problems |-> op[o].seen[n].problems \/ (reason /\ ~yes)])
        /\ ground' = [ground EXCEPT ![n] = IF yes THEN @ \cup {"owner"} ELSE @]
        /\ op' = [p \in Ops |->
              IF p = o THEN Document(n, IF yes THEN "approved" ELSE "rejected")
              ELSE [op[p] EXCEPT !.overtaken = @ \/ (op[p].pc = "save" /\ n \in op[p].of)]]
  BY DEF SaveOwner
<1>2. op[o] \in Operation /\ n \in Names /\ yes \in BOOLEAN
  BY <1>1, TypeParts DEF SInv, Operation
<1> DEFINE seen == op[o].seen[n]
           status == IF yes THEN "approved" ELSE "rejected"
           new == [status |-> status, by |-> "owner", problems |-> seen.problems \/ (reason /\ ~yes)]
           row == Written(n, seen, new)
           g == IF yes THEN ground[n] \cup {"owner"} ELSE ground[n]
           x == Document(n, status)
<1>3. seen \in Theme
  BY <1>2 DEF Operation
<1>4. new \in Theme
  <2>1. seen.problems \/ (reason /\ ~yes) \in BOOLEAN
    BY <1>3 DEF Theme
  <2>2. QED
    BY <2>1 DEF Theme, Statuses
<1>5. theme' = [theme EXCEPT ![n] = row] /\ ground' = [ground EXCEPT ![n] = g]
  BY <1>1 DEF Save
<1>6. theme \in [Names -> Theme] /\ ground[n] \in SUBSET {"gate", "owner", "builtin"}
  BY <1>2, TypeParts DEF SInv
<1>7. /\ row \in Theme
      /\ row.status = IF new.status = seen.status THEN theme[n].status ELSE new.status
      /\ row.by = IF new.by = seen.by THEN theme[n].by ELSE new.by
  BY <1>2, <1>3, <1>4, <1>6, WrittenRow
<1>8. /\ new.by = "owner" /\ new.status = status /\ (status = "approved" => g # {})
      /\ g \in SUBSET {"gate", "owner", "builtin"} /\ ground[n] \subseteq g
  BY <1>6
<1>9. x \in Operation /\ (x.pc = "doc" => status = "approved" /\ x.of = {n})
  BY <1>2, Documented
<1>10. op' = [p \in Ops |->
         IF p = o THEN x
         ELSE [op[p] EXCEPT !.overtaken = @ \/ (op[p].pc = "save" /\ n \in op[p].of)]]
  BY <1>1
<1> HIDE DEF row, new, seen, g, x, status
<1>11. /\ row.status = "approved" => theme[n].status = "approved" \/ g # {}
       /\ row.by \in {"gate", "builtin"} => row.by \in g \/ row.by = theme[n].by
  BY <1>7, <1>8
<1>12. \A p \in Ops \ {o} : op'[p] \in Operation /\ op'[p].pc = op[p].pc /\ op'[p].of = op[p].of
  <2> TAKE p \in Ops \ {o}
  <2>1. op[p] \in Operation
    BY TypeParts DEF SInv
  <2>2. (op[p].overtaken \/ (op[p].pc = "save" /\ n \in op[p].of)) \in BOOLEAN
    BY <2>1 DEF Operation
  <2> DEFINE late == op[p].overtaken \/ (op[p].pc = "save" /\ n \in op[p].of)
  <2>3. op'[p] = [op[p] EXCEPT !.overtaken = late]
    BY <1>10
  <2> HIDE DEF late
  <2>4. late \in BOOLEAN
    BY <2>2 DEF late
  <2>5. QED
    BY <2>1, <2>3, <2>4 DEF Operation
<1>13. /\ op' \in [Ops -> Operation]
       /\ op'[o].pc = "doc" => op'[o].of = {n} /\ g # {}
  <2>1. op'[o] = x
    BY <1>10
  <2>2. DOMAIN op' = Ops /\ \A p \in Ops : op'[p] \in Operation
    BY <1>9, <1>10, <1>12, <2>1
  <2>3. op' \in [Ops -> Operation]
    BY <1>10, <2>2
  <2>4. QED
    BY <1>8, <1>9, <2>1, <2>3
<1>14. UNCHANGED doc
  BY DEF SaveOwner
<1>15. QED
  BY <1>2, <1>5, <1>6, <1>7, <1>8, <1>11, <1>12, <1>13, <1>14, DecisionStep

LEMMA SaveImportStep == ASSUME SInv, NEW o \in Ops, SaveImport(o) PROVE SInv'
<1> DEFINE new == {n \in op[o].of : op[o].seen[n].status = "none"}
           row(n) == [status |-> "approved", problems |-> FALSE,
                      by |-> IF n \in new THEN "builtin" ELSE op[o].seen[n].by]
<1>1. op[o] \in Operation /\ op' = [op EXCEPT ![o] = Free] /\ UNCHANGED doc
  BY TypeParts DEF SInv, SaveImport
<1>2. CASE UNCHANGED <<theme, ground>>
  BY <1>1, <1>2, FreeIsFree, OpStep
<1>3. CASE /\ theme' = [n \in Names |-> IF n \notin op[o].of THEN theme[n]
                                      ELSE Written(n, op[o].seen[n], row(n))]
           /\ ground' = [n \in Names |-> ground[n] \cup IF n \in op[o].of THEN {"builtin"} ELSE {}]
  <2>1. ASSUME NEW n \in Names
        PROVE  /\ theme'[n] \in Theme /\ ground'[n] \in SUBSET {"gate", "owner", "builtin"}
               /\ ground[n] \subseteq ground'[n] /\ Grounds(n)'
    <3>1. theme[n] \in Theme /\ ground[n] \in SUBSET {"gate", "owner", "builtin"} /\ Grounds(n)
      BY TypeParts DEF SInv
    <3>2. CASE n \notin op[o].of
      <4>1. theme'[n] = theme[n] /\ ground'[n] = ground[n]
        BY <1>3, <3>1, <3>2
      <4>2. QED
        BY <1>1, <3>1, <4>1 DEF Grounds
    <3>3. CASE n \in op[o].of
      <4> DEFINE seen == op[o].seen[n]
      <4>1. theme'[n] = Written(n, seen, row(n)) /\ ground'[n] = ground[n] \cup {"builtin"}
        BY <1>3, <3>3
      <4>2. seen \in Theme
        BY <1>1 DEF Operation
      <4>3. /\ row(n) \in Theme
            /\ row(n).by = seen.by \/ row(n).by = "builtin"
        BY <4>2 DEF Theme, Statuses
      <4>4. /\ theme'[n] \in Theme
            /\ theme'[n].by = IF row(n).by = seen.by THEN theme[n].by ELSE row(n).by
        BY <4>1, <4>2, <4>3, TypeParts, WrittenRow DEF SInv
      <4>5. theme'[n].by = theme[n].by \/ theme'[n].by = "builtin"
        BY <4>3, <4>4
      <4> HIDE DEF row
      <4>6. Grounds(n)'
        BY <3>1, <4>1, <4>5 DEF Grounds
      <4>7. QED
        BY <3>1, <4>1, <4>4, <4>6
    <3>4. QED
      BY <3>2, <3>3
  <2>2. /\ theme' \in [Names -> Theme]
        /\ ground' \in [Names -> SUBSET {"gate", "owner", "builtin"}]
    <3>1. DOMAIN theme' = Names /\ theme' = [n \in Names |-> theme'[n]]
      BY <1>3
    <3>2. DOMAIN ground' = Names /\ ground' = [n \in Names |-> ground'[n]]
      BY <1>3
    <3>3. QED
      BY <2>1, <3>1, <3>2
  <2>3. /\ op' \in [Ops -> Operation] /\ op'[o].pc = "idle"
        /\ \A p \in Ops \ {o} : op'[p] = op[p]
    BY <1>1, FreeIsFree, TypeParts DEF SInv
  <2>4. StylesTypeOK'
    BY <1>1, <2>2, <2>3, TypeParts DEF SInv, StylesTypeOK, Operation
  <2>5. DocumentsWithGrounds'
    BY <2>1, <2>3, TypeParts DEF SInv, DocumentsWithGrounds, Operation
  <2>6. QED
    BY <2>1, <2>4, <2>5 DEF SInv
<1>4. QED
  BY <1>2, <1>3 DEF SaveImport

LEMMA WriteDocStep == ASSUME SInv, NEW o \in Ops, WriteDoc(o) PROVE SInv'
<1>1. /\ op[o] \in Operation /\ op[o].pc = "doc" /\ op' = [op EXCEPT ![o] = Free]
      /\ doc' = doc \cup op[o].of /\ UNCHANGED <<theme, ground>>
  BY TypeParts DEF SInv, WriteDoc
<1>2. \A n \in op[o].of : ground[n] # {}
  BY <1>1 DEF SInv, DocumentsWithGrounds
<1>3. /\ op' \in [Ops -> Operation] /\ op'[o].pc = "idle"
      /\ \A p \in Ops \ {o} : op'[p] = op[p]
  BY <1>1, FreeIsFree, TypeParts DEF SInv
<1>4. StylesTypeOK'
  BY <1>1, <1>3, TypeParts DEF SInv, StylesTypeOK, Operation
<1>5. \A n \in Names : Grounds(n)'
  BY <1>1, <1>2 DEF SInv, Grounds
<1>6. DocumentsWithGrounds'
  BY <1>1, <1>3 DEF SInv, DocumentsWithGrounds
<1>7. QED
  BY <1>4, <1>5, <1>6 DEF SInv

-----------------------------------------------------------------------------
(* Styles: the theorems *)

LEMMA StylesStutter == ASSUME SInv, UNCHANGED styleVars PROVE SInv'
BY DEF styleVars, SInv, StylesTypeOK, Grounds, DocumentsWithGrounds

\* Every step of every request keeps the invariant.
LEMMA StylesStep == ASSUME SInv, [StylesNext]_styleVars PROVE SInv'
<1>1. ASSUME NEW o \in Ops, ProposeStyle(o) \/ Request(o) \/ LoadRow(o) \/ Drop(o) PROVE SInv'
  BY <1>1, ProposeStep, RequestStep, LoadRowStep, DropStep
<1>2. ASSUME NEW o \in Ops, SaveGate(o) \/ SaveOwner(o) \/ SaveImport(o) \/ WriteDoc(o)
      PROVE  SInv'
  BY <1>2, SaveGateStep, SaveOwnerStep, SaveImportStep, WriteDocStep
<1>3. CASE UNCHANGED styleVars
  BY <1>3, StylesStutter
<1>4. QED
  BY <1>1, <1>2, <1>3 DEF StylesNext

\* Every state of the catalogue has the inductive invariant.
THEOREM StylesInvariant == StylesSpec => []SInv
<1>1. StylesInit => SInv
  BY StylesInitInv
<1>2. SInv /\ [StylesNext]_styleVars => SInv'
  BY StylesStep
<1>3. QED
  BY <1>1, <1>2, PTL DEF StylesSpec

\* The rows, the documents and the requests keep their types (style_theme, vault/styles).
THEOREM StylesTypeCorrect == StylesSpec => []StylesTypeOK
<1>1. SInv => StylesTypeOK
  BY DEF SInv
<1>2. QED
  BY <1>1, StylesInvariant, PTL

\* Whatever runs of the gate, answers of the owner and imports overlap, for any themes
\* and any number of them, an approved or documented theme passed the gate, was approved
\* by the owner, or came with the renderer, and approved_by does not lie about it.
THEOREM ApprovalsHaveGrounds == StylesSpec => []ApprovedOnGrounds
<1>1. SInv => ApprovedOnGrounds
  BY DEF SInv, Grounds, ApprovedOnGrounds
<1>2. QED
  BY <1>1, StylesInvariant, PTL

-----------------------------------------------------------------------------
(* The index: the inductive invariant *)

\* A run announces only what it changes or removes, once it has read the rows; and one
\* that nothing has overlapped is alone, with the rows it has read.
RunOf(i) ==
  /\ ix[i].pc # "index" => ix[i].done = {}
  /\ ix[i].done \subseteq Changed(ix[i]) \cup Removed(ix[i])
  /\ ix[i].alone => ix[i].pc # "idle" /\ \A j \in Indexers \ {i} : ix[j].pc = "idle"
  /\ ix[i].alone /\ ix[i].pc = "index" => ix[i].old = rows

\* While the page has missed nothing: a row that a run of the API has announced is the one
\* that run has read and gets the title announced, and the only others to touch it are
\* removals of the worker that come too late to find it.
OneAnnounces ==
  \A i \in Indexers : \A n \in ix[i].done : ix[i].place = "api" =>
    /\ rows[n].id = ix[i].old[n].id
    /\ TitleFlushed(ix[i], n) = TitleOf(ix[i].scan[n])
    /\ \A j \in Indexers \ {i} : n \in ix[j].done =>
         ix[j].place = "worker" /\ rows[n].id # ix[j].old[n].id

\* What a page shows of a note once all that was sent has arrived and faded: what the
\* last event about it says, and without one what it shows now.
Shows(p, n, v) ==
  \/ \E k \in DOMAIN p.queue :
       /\ p.queue[k] = [note |-> n, title |-> v]
       /\ \A m \in DOMAIN p.queue : m > k => p.queue[m].note # n
  \/ /\ \A k \in DOMAIN p.queue : p.queue[k].note # n
     /\ v = IF n \in p.fading THEN Gone ELSE p.nodes[n]

\* It shows what a run of the API has announced, and of the other notes the rows.
PageFollows ==
  /\ \A i \in Indexers : \A n \in ix[i].done :
       ix[i].place = "api" => Shows(page, n, TitleOf(ix[i].scan[n]))
  /\ \A n \in Notes :
       (\A i \in Indexers : ix[i].place = "api" => n \notin ix[i].done) => Shows(page, n, rows[n].title)

VInv ==
  /\ VaultTypeOK
  /\ \A i \in Indexers : RunOf(i)
  /\ \A n \in Notes : rows[n].id = 0 => rows[n].hash = Gone /\ rows[n].title = Gone
  /\ page.pc # "live" => page.queue = <<>>
  /\ ~missed => OneAnnounces
  /\ ~missed /\ page.pc # "off" => PageFollows

Run == [pc: {"idle", "read", "index"}, place: {"api", "worker"},
        scan: [Notes -> File], old: [Notes -> Row],
        done: SUBSET Notes, alone: BOOLEAN]
Page == [pc: {"off", "sent", "live"}, nodes: [Notes -> Node], queue: Seq(Event),
         fading: SUBSET Notes, rest: {"none", "asked", "read"}, answer: [Notes -> Node]]

LEMMA VaultTypes ==
  VaultTypeOK <=>
    /\ rows \in [Notes -> Row] /\ ids \in 0..MaxIds
    /\ ix \in [Indexers -> Run] /\ page \in Page /\ missed \in BOOLEAN
BY DEF VaultTypeOK, Run, Page

LEMMA StillIsRun == Still \in Run /\ Still.pc = "idle" /\ Still.done = {} /\ ~Still.alone
BY VaultAssumption DEF Still, Run, Nothing, NoRows, NoRow, Row, File, Node

LEMMA TitleType == \A f \in File : TitleOf(f) \in Node
BY DEF File, Node, TitleOf

LEMMA PageParts ==
  ASSUME NEW p \in Page
  PROVE  /\ p.queue \in Seq(Event) /\ Len(p.queue) \in Nat /\ DOMAIN p.queue = 1..Len(p.queue)
         /\ \A k \in DOMAIN p.queue : p.queue[k] \in Event
         /\ p.nodes \in [Notes -> Node] /\ p.fading \subseteq Notes
<1>1. p.queue \in Seq(Event)
  BY DEF Page
<1>2. Len(p.queue) \in Nat /\ DOMAIN p.queue = 1..Len(p.queue) /\ p.queue \in [1..Len(p.queue) -> Event]
  BY <1>1, LenProperties
<1>3. QED
  BY <1>1, <1>2 DEF Page

-----------------------------------------------------------------------------
(* The index: what a page shows *)

\* Only the queue, the fades and the nodes count.
LEMMA ShowsSame ==
  ASSUME NEW p, NEW q, q.queue = p.queue, q.fading = p.fading, q.nodes = p.nodes, NEW n, NEW v
  PROVE  Shows(p, n, v) <=> Shows(q, n, v)
BY DEF Shows

\* An event settles its note, and leaves the others alone.
LEMMA ShowsAppend ==
  ASSUME NEW p \in Page, NEW q, NEW e \in Event,
         q.queue = Append(p.queue, e), q.fading = p.fading, q.nodes = p.nodes
  PROVE  /\ Shows(q, e.note, e.title)
         /\ \A n, v : n # e.note /\ Shows(p, n, v) => Shows(q, n, v)
<1>. DEFINE N == Len(p.queue)
<1>1. p.queue \in Seq(Event) /\ N \in Nat /\ DOMAIN p.queue = 1..N
  BY PageParts
<1>2. /\ q.queue \in Seq(Event) /\ Len(q.queue) = N + 1
      /\ \A k \in 1..N : q.queue[k] = p.queue[k]
      /\ q.queue[N + 1] = e
  BY <1>1, AppendProperties
<1>3. DOMAIN q.queue = 1..(N + 1)
  BY <1>2, LenProperties
<1>. HIDE DEF N
<1>4. Shows(q, e.note, e.title)
  <2>1. e = [note |-> e.note, title |-> e.title]
    BY DEF Event
  <2>2. N + 1 \in DOMAIN q.queue /\ ~ \E m \in DOMAIN q.queue : m > N + 1
    BY <1>1, <1>3
  <2>3. QED
    BY <1>2, <2>1, <2>2 DEF Shows
<1>5. ASSUME NEW n, NEW v, n # e.note, Shows(p, n, v) PROVE Shows(q, n, v)
  <2>1. CASE \E k \in DOMAIN p.queue : /\ p.queue[k] = [note |-> n, title |-> v]
                                       /\ \A m \in DOMAIN p.queue : m > k => p.queue[m].note # n
    <3>1. PICK k \in 1..N : /\ p.queue[k] = [note |-> n, title |-> v]
                            /\ \A m \in 1..N : m > k => p.queue[m].note # n
      BY <1>1, <2>1
    <3>2. k \in DOMAIN q.queue /\ q.queue[k] = [note |-> n, title |-> v]
      BY <1>1, <1>2, <1>3, <3>1
    <3>3. \A m \in DOMAIN q.queue : m > k => q.queue[m].note # n
      BY <1>1, <1>2, <1>3, <1>5, <3>1
    <3>4. QED
      BY <3>2, <3>3 DEF Shows
  <2>2. CASE /\ \A k \in DOMAIN p.queue : p.queue[k].note # n
             /\ v = IF n \in p.fading THEN Gone ELSE p.nodes[n]
    <3>1. \A k \in DOMAIN q.queue : q.queue[k].note # n
      BY <1>1, <1>2, <1>3, <1>5, <2>2
    <3>2. QED
      BY <2>2, <3>1 DEF Shows
  <2>3. QED
    BY <1>5, <2>1, <2>2 DEF Shows
<1>6. QED
  BY <1>4, <1>5

\* The first event is applied: what the page will show stays, if the node of an event
\* that is not a removal is not fading.
LEMMA ShowsDeliver ==
  ASSUME NEW p \in Page, p.queue # <<>>, NEW q, q.queue = Tail(p.queue),
         LET e == Head(p.queue)
         IN IF e.title # Gone
            THEN q.nodes = [p.nodes EXCEPT ![e.note] = e.title] /\ q.fading = p.fading /\ e.note \notin p.fading
            ELSE IF p.nodes[e.note] = Gone THEN q.nodes = p.nodes /\ q.fading = p.fading
            ELSE q.nodes = p.nodes /\ q.fading = p.fading \cup {e.note},
         NEW n \in Notes, NEW v, Shows(p, n, v)
  PROVE  Shows(q, n, v)
<1>. DEFINE N == Len(p.queue)
            e == Head(p.queue)
<1>1. p.queue \in Seq(Event) /\ N \in Nat /\ DOMAIN p.queue = 1..N /\ N # 0
  BY PageParts, EmptySeq
<1>2. /\ q.queue \in Seq(Event) /\ Len(q.queue) = N - 1
      /\ \A k \in 1..(N - 1) : q.queue[k] = p.queue[k + 1]
  BY <1>1, HeadTailProperties
<1>3. DOMAIN q.queue = 1..(N - 1) /\ e = p.queue[1] /\ e \in Event
  BY <1>1, <1>2, LenProperties, PageParts
<1>4. e.note \in Notes /\ e = [note |-> e.note, title |-> e.title] /\ p.nodes \in [Notes -> Node]
  BY <1>3, PageParts DEF Event
<1>5. (IF e.note \in q.fading THEN Gone ELSE q.nodes[e.note]) = e.title
  BY <1>4
<1>6. n # e.note => (n \in q.fading <=> n \in p.fading) /\ q.nodes[n] = p.nodes[n]
  BY <1>4
<1>. HIDE DEF N, e
<1>7. CASE \E k \in 2..N : /\ p.queue[k] = [note |-> n, title |-> v]
                           /\ \A m \in 1..N : m > k => p.queue[m].note # n
  <2>1. PICK k \in 2..N : /\ p.queue[k] = [note |-> n, title |-> v]
                          /\ \A m \in 1..N : m > k => p.queue[m].note # n
    BY <1>7
  <2>2. k - 1 \in DOMAIN q.queue /\ q.queue[k - 1] = [note |-> n, title |-> v]
    <3>1. k - 1 \in 1..(N - 1) /\ (k - 1) + 1 = k
      BY <1>1
    <3>2. QED
      BY <1>2, <1>3, <2>1, <3>1
  <2>3. ASSUME NEW m \in DOMAIN q.queue, m > k - 1 PROVE q.queue[m].note # n
    <3>1. m \in 1..(N - 1) /\ m + 1 \in 1..N /\ m + 1 > k
      BY <1>1, <1>3, <2>3
    <3>2. QED
      BY <1>2, <2>1, <3>1
  <2>4. QED
    BY <2>2, <2>3 DEF Shows
<1>8. CASE p.queue[1] = [note |-> n, title |-> v] /\ \A m \in 1..N : m > 1 => p.queue[m].note # n
  <2>1. n = e.note /\ v = e.title
    BY <1>3, <1>8
  <2>2. \A m \in DOMAIN q.queue : q.queue[m].note # n
    BY <1>1, <1>2, <1>3, <1>8
  <2>3. QED
    BY <1>5, <2>1, <2>2 DEF Shows
<1>9. CASE /\ \A k \in 1..N : p.queue[k].note # n
           /\ v = IF n \in p.fading THEN Gone ELSE p.nodes[n]
  <2>1. n # e.note /\ \A m \in DOMAIN q.queue : q.queue[m].note # n
    BY <1>1, <1>2, <1>3, <1>9
  <2>2. QED
    BY <1>6, <1>9, <2>1 DEF Shows
<1>10. QED
  <2>1. \/ \E k \in 1..N : /\ p.queue[k] = [note |-> n, title |-> v]
                           /\ \A m \in 1..N : m > k => p.queue[m].note # n
        \/ /\ \A k \in 1..N : p.queue[k].note # n
           /\ v = IF n \in p.fading THEN Gone ELSE p.nodes[n]
    BY <1>1 DEF Shows
  <2>2. \A k \in 1..N : k = 1 \/ k \in 2..N
    BY <1>1
  <2>3. QED
    BY <1>7, <1>8, <1>9, <2>1, <2>2

\* A fade that ends changes nothing to come.
LEMMA ShowsFaded ==
  ASSUME NEW p \in Page, NEW f \in p.fading, NEW q, q.queue = p.queue,
         q.fading = p.fading \ {f}, q.nodes = [p.nodes EXCEPT ![f] = Gone],
         NEW n \in Notes, NEW v
  PROVE  Shows(p, n, v) => Shows(q, n, v)
<1>1. p.nodes \in [Notes -> Node]
  BY PageParts
<1>2. (IF n \in q.fading THEN Gone ELSE q.nodes[n]) = (IF n \in p.fading THEN Gone ELSE p.nodes[n])
  BY <1>1
<1>3. QED
  BY <1>2 DEF Shows

-----------------------------------------------------------------------------
(* The index: every step keeps the invariant *)

\* A step that leaves the rows and what the runs have announced, and what the page will
\* show.
LEMMA RowsStay ==
  ASSUME VInv, rows' = rows, ~missed' => ~missed, page'.pc # "off" => page.pc # "off",
         \A j \in Indexers :
           /\ ix'[j].done = ix[j].done
           /\ ix[j].done # {} => /\ ix'[j].place = ix[j].place /\ ix'[j].scan = ix[j].scan
                                 /\ ix'[j].old = ix[j].old,
         \A n \in Notes : \A v : Shows(page, n, v) => Shows(page', n, v)
  PROVE  (~missed' => OneAnnounces') /\ (~missed' /\ page'.pc # "off" => PageFollows')
<1>1. \A j \in Indexers : ix[j].done \subseteq Notes
  BY VaultTypes DEF VInv, Run
<1>2. ASSUME ~missed PROVE OneAnnounces'
  <2>1. OneAnnounces
    BY <1>2 DEF VInv
  <2>2. QED
    BY <2>1 DEF OneAnnounces, TitleFlushed
<1>3. ASSUME ~missed, page.pc # "off" PROVE PageFollows'
  <2>1. PageFollows
    BY <1>3 DEF VInv
  <2>2. ASSUME NEW i \in Indexers, NEW n \in ix'[i].done, ix'[i].place = "api"
        PROVE  Shows(page', n, TitleOf(ix'[i].scan[n]))
    <3>1. n \in ix[i].done /\ ix[i].place = "api" /\ ix'[i].scan = ix[i].scan /\ n \in Notes
      BY <1>1, <2>2
    <3>2. QED
      BY <2>1, <3>1 DEF PageFollows
  <2>3. ASSUME NEW n \in Notes, \A i \in Indexers : ix'[i].place = "api" => n \notin ix'[i].done
        PROVE  Shows(page', n, rows'[n].title)
    <3>1. \A i \in Indexers : ix[i].place = "api" => n \notin ix[i].done
      BY <2>3
    <3>2. QED
      BY <2>1, <3>1 DEF PageFollows
  <2>4. QED
    BY <2>2, <2>3 DEF PageFollows
<1>4. QED
  BY <1>2, <1>3

\* A run that ends.
LEMMA RunEnds ==
  ASSUME VInv, NEW i \in Indexers, ix[i].pc # "idle", ix' = [ix EXCEPT ![i] = Still]
  PROVE  /\ ix' \in [Indexers -> Run] /\ ix'[i] = Still /\ \A j \in Indexers \ {i} : ix'[j] = ix[j]
         /\ \A j \in Indexers : RunOf(j)'
<1>1. ix \in [Indexers -> Run]
  BY VaultTypes DEF VInv
<1>2. ix' \in [Indexers -> Run] /\ ix'[i] = Still /\ \A j \in Indexers \ {i} : ix'[j] = ix[j]
  BY <1>1, StillIsRun
<1>3. ASSUME NEW j \in Indexers PROVE RunOf(j)'
  <2>1. CASE j = i
    BY <1>2, <2>1, StillIsRun DEF RunOf
  <2>2. CASE j # i
    <3>1. ix'[j] = ix[j] /\ RunOf(j) /\ ~ix[j].alone
      BY <1>2, <2>2 DEF VInv, RunOf
    <3>2. QED
      BY <3>1 DEF RunOf, Changed, Removed
  <2>3. QED
    BY <2>1, <2>2
<1>4. QED
  BY <1>2, <1>3

LEMMA StartIndexKeeps == ASSUME VInv, NEW i \in Indexers, StartIndex(i) PROVE VInv'
<1>1. /\ rows \in [Notes -> Row] /\ ids \in 0..MaxIds
      /\ ix \in [Indexers -> Run] /\ page \in Page /\ missed \in BOOLEAN
  BY VaultTypes DEF VInv
<1>2. UNCHANGED <<rows, ids, page, missed>> /\ ix[i].pc = "idle"
  BY DEF StartIndex
<1>. DEFINE free == \A k \in Indexers : ix[k].pc = "idle"
<1>3. PICK place \in {"api", "worker"}, files \in [Notes -> File] :
        ix' = [j \in Indexers |->
                 IF j = i THEN [Still EXCEPT !.pc = "read", !.place = place, !.scan = files, !.alone = free]
                 ELSE [ix[j] EXCEPT !.alone = FALSE]]
  BY DEF StartIndex
<1>4. /\ ix'[i] \in Run /\ ix'[i].pc = "read" /\ ix'[i].done = {} /\ ix'[i].alone = free
  <2>1. ix'[i] = [Still EXCEPT !.pc = "read", !.place = place, !.scan = files, !.alone = free]
    BY <1>3
  <2>2. Still \in Run /\ Still.done = {} /\ free \in BOOLEAN
    BY StillIsRun
  <2>. HIDE DEF free
  <2>3. QED
    BY <1>1, <2>1, <2>2 DEF Run
<1>5. ASSUME NEW j \in Indexers, j # i
      PROVE  /\ ix'[j] \in Run /\ ~ix'[j].alone /\ ix'[j].pc = ix[j].pc /\ ix'[j].done = ix[j].done
             /\ ix'[j].place = ix[j].place /\ ix'[j].scan = ix[j].scan /\ ix'[j].old = ix[j].old
  <2>1. ix'[j] = [ix[j] EXCEPT !.alone = FALSE] /\ ix[j] \in Run
    BY <1>1, <1>3, <1>5
  <2>2. QED
    BY <2>1 DEF Run
<1>6. ix' \in [Indexers -> Run]
  <2>1. \A j \in Indexers : ix'[j] \in Run
    BY <1>4, <1>5
  <2>2. ix' = [j \in Indexers |-> ix'[j]]
    BY <1>3
  <2>3. QED
    BY <2>1, <2>2
<1>7. VaultTypeOK'
  BY <1>1, <1>2, <1>6, VaultTypes DEF VaultTypeOK, Run, Page
<1>8. ASSUME NEW j \in Indexers PROVE RunOf(j)'
  <2>1. CASE j = i
    <3>1. ix'[i].alone => \A k \in Indexers \ {i} : ix'[k].pc = "idle"
      BY <1>4, <1>5
    <3>2. QED
      BY <1>4, <2>1, <3>1 DEF RunOf
  <2>2. CASE j # i
    <3>1. RunOf(j)
      BY DEF VInv
    <3>2. Changed(ix'[j]) = Changed(ix[j]) /\ Removed(ix'[j]) = Removed(ix[j])
      BY <1>5, <2>2 DEF Changed, Removed
    <3>3. QED
      BY <1>5, <2>2, <3>1, <3>2 DEF RunOf
  <2>3. QED
    BY <2>1, <2>2
<1>9. ix[i].done = {}
  BY <1>2 DEF VInv, RunOf
<1>10. (~missed' => OneAnnounces') /\ (~missed' /\ page'.pc # "off" => PageFollows')
  <2>1. \A j \in Indexers :
           /\ ix'[j].done = ix[j].done
           /\ ix[j].done # {} => /\ ix'[j].place = ix[j].place /\ ix'[j].scan = ix[j].scan
                                 /\ ix'[j].old = ix[j].old
    BY <1>4, <1>5, <1>9
  <2>2. \A n \in Notes : \A v : Shows(page, n, v) => Shows(page', n, v)
    BY <1>2
  <2>3. QED
    BY <1>2, <2>1, <2>2, RowsStay
<1>11. QED
  BY <1>2, <1>7, <1>8, <1>10 DEF VInv

LEMMA ReadRowsKeeps == ASSUME VInv, NEW i \in Indexers, ReadRows(i) PROVE VInv'
<1>1. /\ rows \in [Notes -> Row] /\ ids \in 0..MaxIds
      /\ ix \in [Indexers -> Run] /\ page \in Page /\ missed \in BOOLEAN
  BY VaultTypes DEF VInv
<1>2. UNCHANGED <<rows, ids, page, missed>> /\ ix[i].pc = "read"
  BY DEF ReadRows
<1>. DEFINE r == [[ix[i] EXCEPT !.pc = "index"] EXCEPT !.old = rows]
<1>3. ix' = [ix EXCEPT ![i] = r]
  BY <1>1 DEF ReadRows, Run
<1>4. /\ r \in Run /\ r.pc = "index" /\ r.old = rows /\ r.done = ix[i].done /\ r.alone = ix[i].alone
      /\ r.place = ix[i].place /\ r.scan = ix[i].scan
  BY <1>1 DEF Run
<1>. HIDE DEF r
<1>5. ix' \in [Indexers -> Run] /\ ix'[i] = r /\ \A j \in Indexers \ {i} : ix'[j] = ix[j]
  BY <1>1, <1>3, <1>4
<1>6. VaultTypeOK'
  BY <1>1, <1>2, <1>5, VaultTypes DEF VaultTypeOK, Run, Page
<1>7. ix[i].done = {}
  BY <1>2 DEF VInv, RunOf
<1>8. ASSUME NEW j \in Indexers PROVE RunOf(j)'
  <2>1. CASE j = i
    <3>1. ix[i].alone => \A k \in Indexers \ {i} : ix[k].pc = "idle"
      BY DEF VInv, RunOf
    <3>2. QED
      BY <1>2, <1>4, <1>5, <1>7, <2>1, <3>1 DEF RunOf
  <2>2. CASE j # i
    <3>1. RunOf(j) /\ ix'[j] = ix[j] /\ ~ix[j].alone
      BY <1>2, <1>5, <2>2 DEF VInv, RunOf
    <3>2. QED
      BY <3>1 DEF RunOf
  <2>3. QED
    BY <2>1, <2>2
<1>9. (~missed' => OneAnnounces') /\ (~missed' /\ page'.pc # "off" => PageFollows')
  <2>1. \A j \in Indexers :
           /\ ix'[j].done = ix[j].done
           /\ ix[j].done # {} => /\ ix'[j].place = ix[j].place /\ ix'[j].scan = ix[j].scan
                                 /\ ix'[j].old = ix[j].old
    BY <1>4, <1>5, <1>7
  <2>2. \A n \in Notes : \A v : Shows(page, n, v) => Shows(page', n, v)
    BY <1>2
  <2>3. QED
    BY <1>2, <2>1, <2>2, RowsStay
<1>10. QED
  BY <1>2, <1>6, <1>8, <1>9 DEF VInv

LEMMA AbortKeeps == ASSUME VInv, NEW i \in Indexers, Abort(i) PROVE VInv'
<1>1. /\ rows \in [Notes -> Row] /\ ids \in 0..MaxIds
      /\ ix \in [Indexers -> Run] /\ page \in Page /\ missed \in BOOLEAN
  BY VaultTypes DEF VInv
<1>2. /\ ix[i].pc # "idle" /\ ix' = [ix EXCEPT ![i] = Still]
      /\ missed' = (missed \/ ix[i].done # {}) /\ UNCHANGED <<rows, ids, page>>
  BY DEF Abort
<1>3. /\ ix' \in [Indexers -> Run] /\ ix'[i] = Still /\ \A j \in Indexers \ {i} : ix'[j] = ix[j]
      /\ \A j \in Indexers : RunOf(j)'
  BY <1>2, RunEnds
<1>4. missed' \in BOOLEAN
  BY <1>2
<1>5. VaultTypeOK'
  BY <1>1, <1>2, <1>3, <1>4, VaultTypes DEF VaultTypeOK, Run, Page
<1>6. (~missed' => OneAnnounces') /\ (~missed' /\ page'.pc # "off" => PageFollows')
  <2>1. CASE missed'
    BY <2>1
  <2>2. CASE ~missed'
    <3>1. ~missed /\ ix[i].done = {}
      BY <1>2, <2>2
    <3>2. \A j \in Indexers :
             /\ ix'[j].done = ix[j].done
             /\ ix[j].done # {} => /\ ix'[j].place = ix[j].place /\ ix'[j].scan = ix[j].scan
                                   /\ ix'[j].old = ix[j].old
      BY <1>3, <3>1, StillIsRun
    <3>3. \A n \in Notes : \A v : Shows(page, n, v) => Shows(page', n, v)
      BY <1>2
    <3>4. QED
      BY <1>2, <3>1, <3>2, <3>3, RowsStay
  <2>3. QED
    BY <2>1, <2>2
<1>7. QED
  BY <1>2, <1>3, <1>5, <1>6 DEF VInv

\* A step of the page alone.
LEMMA PageSteps ==
  ASSUME VInv, page' \in Page, missed' \in BOOLEAN, UNCHANGED <<rows, ids, ix>>,
         page'.pc # "live" => page'.queue = <<>>,
         ~missed' => ~missed, page'.pc # "off" => page.pc # "off",
         ~missed' /\ page'.pc # "off" => \A n \in Notes : \A v : Shows(page, n, v) => Shows(page', n, v)
  PROVE  VInv'
<1>1. VaultTypeOK'
  BY VaultTypes DEF VInv, VaultTypeOK, Run, Page
<1>2. \A j \in Indexers : RunOf(j)'
  BY DEF VInv, RunOf
<1>3. ~missed' => OneAnnounces'
  BY DEF VInv, OneAnnounces, TitleFlushed
<1>4. ~missed' /\ page'.pc # "off" => PageFollows'
  <2>1. SUFFICES ASSUME ~missed', page'.pc # "off" PROVE PageFollows'
    OBVIOUS
  <2>2. \A n \in Notes : \A v : Shows(page, n, v) => Shows(page', n, v)
    BY <2>1
  <2>3. QED
    BY <2>1, <2>2, RowsStay
<1>5. QED
  BY <1>1, <1>2, <1>3, <1>4 DEF VInv

LEMMA ConnectKeeps == ASSUME VInv, Connect PROVE VInv'
<1>1. /\ rows \in [Notes -> Row] /\ ids \in 0..MaxIds
      /\ ix \in [Indexers -> Run] /\ page \in Page /\ missed \in BOOLEAN
  BY VaultTypes DEF VInv
<1>2. /\ page.pc = "off" /\ UNCHANGED <<rows, ids, ix>>
      /\ missed' = (page.fading # {} \/ \E i \in Indexers : ix[i].done # {})
      /\ page' = [[page EXCEPT !.pc = "sent"] EXCEPT !.nodes = Snapshot]
  BY <1>1 DEF Connect, Page
<1>3. Snapshot \in [Notes -> Node] /\ \A n \in Notes : Snapshot[n] = rows[n].title
  BY <1>1 DEF Snapshot, Row
<1>4. page' \in Page /\ page'.nodes = Snapshot /\ page'.queue = page.queue /\ page'.fading = page.fading
  BY <1>1, <1>2, <1>3 DEF Page
<1>5. page.queue = <<>>
  BY <1>2 DEF VInv
<1>6. missed' \in BOOLEAN
  BY <1>2
<1>7. VaultTypeOK'
  BY <1>1, <1>2, <1>4, <1>6, VaultTypes DEF VaultTypeOK, Run, Page
<1>8. ASSUME ~missed' PROVE OneAnnounces' /\ PageFollows'
  <2>1. page.fading = {} /\ \A j \in Indexers : ix'[j].done = {}
    BY <1>2, <1>8
  <2>2. DOMAIN page'.queue = {}
    BY <1>4, <1>5, PageParts, EmptySeq
  <2>3. \A n \in Notes : Shows(page', n, rows[n].title)
    BY <1>3, <1>4, <2>1, <2>2 DEF Shows
  <2>4. QED
    BY <1>2, <2>1, <2>3 DEF OneAnnounces, PageFollows
<1>9. \A j \in Indexers : RunOf(j)'
  BY <1>2 DEF VInv, RunOf
<1>10. QED
  BY <1>2, <1>4, <1>5, <1>7, <1>8, <1>9 DEF VInv

LEMMA SubscribeKeeps == ASSUME VInv, Subscribe PROVE VInv'
<1>1. page \in Page /\ missed \in BOOLEAN
  BY VaultTypes DEF VInv
<1>2. /\ page.pc = "sent" /\ page' = [page EXCEPT !.pc = "live"] /\ UNCHANGED <<rows, ids, ix, missed>>
  BY DEF Subscribe
<1>3. page' \in Page /\ page'.pc = "live" /\ page'.queue = page.queue /\ page'.fading = page.fading
      /\ page'.nodes = page.nodes
  BY <1>1, <1>2 DEF Page
<1>4. \A n \in Notes : \A v : Shows(page, n, v) => Shows(page', n, v)
  BY <1>3, ShowsSame
<1>5. QED
  BY <1>1, <1>2, <1>3, <1>4, PageSteps

LEMMA DeliverKeeps == ASSUME VInv, Deliver PROVE VInv'
<1>1. page \in Page /\ missed \in BOOLEAN
  BY VaultTypes DEF VInv
<1>. DEFINE e == Head(page.queue)
            rest == [page EXCEPT !.queue = Tail(page.queue)]
<1>2. /\ page.pc = "live" /\ page.queue # <<>> /\ UNCHANGED <<rows, ids, ix>>
      /\ page' = IF e.title # Gone THEN [rest EXCEPT !.nodes[e.note] = e.title]
                 ELSE IF page.nodes[e.note] = Gone THEN rest
                 ELSE [rest EXCEPT !.fading = page.fading \cup {e.note}]
      /\ missed' = (missed \/ (e.title # Gone /\ e.note \in page.fading))
  BY <1>1 DEF Deliver, Page
<1>3. e \in Event /\ Tail(page.queue) \in Seq(Event)
  BY <1>1, <1>2, PageParts, HeadTailProperties
<1>4. rest \in Page /\ rest.pc = "live" /\ rest.queue = Tail(page.queue) /\ rest.fading = page.fading
      /\ rest.nodes = page.nodes
  BY <1>1, <1>2, <1>3 DEF Page
<1>. HIDE DEF e, rest
<1>5. e.note \in Notes /\ e.title \in Node
  BY <1>3 DEF Event
<1>6. /\ page' \in Page /\ page'.pc = "live" /\ page'.queue = Tail(page.queue)
      /\ IF e.title # Gone THEN page'.nodes = [page.nodes EXCEPT ![e.note] = e.title] /\ page'.fading = page.fading
         ELSE IF page.nodes[e.note] = Gone THEN page'.nodes = page.nodes /\ page'.fading = page.fading
         ELSE page'.nodes = page.nodes /\ page'.fading = page.fading \cup {e.note}
  <2>1. CASE e.title # Gone
    BY <1>2, <1>4, <1>5, <2>1 DEF Page
  <2>2. CASE e.title = Gone /\ page.nodes[e.note] = Gone
    BY <1>2, <1>4, <1>5, <2>2 DEF Page
  <2>3. CASE e.title = Gone /\ page.nodes[e.note] # Gone
    BY <1>2, <1>4, <1>5, <2>3 DEF Page
  <2>4. QED
    BY <2>1, <2>2, <2>3
<1>7. ASSUME ~missed', NEW n \in Notes, NEW v, Shows(page, n, v) PROVE Shows(page', n, v)
  <2>1. e.title # Gone => e.note \notin page.fading
    BY <1>2, <1>7
  <2>2. IF e.title # Gone
        THEN page'.nodes = [page.nodes EXCEPT ![e.note] = e.title] /\ page'.fading = page.fading
             /\ e.note \notin page.fading
        ELSE IF page.nodes[e.note] = Gone THEN page'.nodes = page.nodes /\ page'.fading = page.fading
        ELSE page'.nodes = page.nodes /\ page'.fading = page.fading \cup {e.note}
    BY <1>6, <2>1
  <2>3. QED
    BY <1>1, <1>2, <1>6, <1>7, <2>2, ShowsDeliver DEF e
<1>8. missed' \in BOOLEAN /\ (~missed' => ~missed)
  BY <1>1, <1>2
<1>9. QED
  BY <1>2, <1>6, <1>7, <1>8, PageSteps

LEMMA FadedKeeps == ASSUME VInv, Faded PROVE VInv'
<1>1. page \in Page /\ missed \in BOOLEAN
  BY VaultTypes DEF VInv
<1>2. PICK f \in page.fading :
        page' = [[page EXCEPT !.fading = page.fading \ {f}] EXCEPT !.nodes = [page.nodes EXCEPT ![f] = Gone]]
  BY <1>1 DEF Faded, Page
<1>3. UNCHANGED <<rows, ids, ix, missed>>
  BY DEF Faded
<1>4. page' \in Page /\ page'.pc = page.pc /\ page'.queue = page.queue /\ page'.fading = page.fading \ {f}
      /\ page'.nodes = [page.nodes EXCEPT ![f] = Gone]
  <2>1. [page.nodes EXCEPT ![f] = Gone] \in [Notes -> Node]
    BY <1>1, PageParts DEF Node
  <2>2. QED
    BY <1>1, <1>2, <2>1 DEF Page
<1>5. \A n \in Notes : \A v : Shows(page, n, v) => Shows(page', n, v)
  BY <1>1, <1>4, ShowsFaded
<1>6. page'.pc # "live" => page'.queue = <<>>
  BY <1>4 DEF VInv
<1>7. QED
  BY <1>1, <1>3, <1>4, <1>5, <1>6, PageSteps

LEMMA DisconnectKeeps == ASSUME VInv, Disconnect PROVE VInv'
<1>1. page \in Page /\ missed \in BOOLEAN
  BY VaultTypes DEF VInv
<1>2. UNCHANGED <<rows, ids, ix, missed>>
  BY DEF Disconnect
<1>3. page' \in Page /\ page'.pc = "off" /\ page'.queue = <<>>
  <2>1. <<>> \in Seq(Event)
    BY EmptySeq
  <2>2. page' = [[page EXCEPT !.pc = "off"] EXCEPT !.queue = <<>>]
    BY <1>1 DEF Disconnect, Page
  <2>3. QED
    BY <1>1, <2>1, <2>2 DEF Page
<1>4. QED
  BY <1>1, <1>2, <1>3, PageSteps

LEMMA SnapshotType == VInv => Snapshot \in [Notes -> Node]
<1>1. VInv => rows \in [Notes -> Row]
  BY VaultTypes DEF VInv
<1>2. QED
  BY <1>1 DEF Snapshot, Row

\* A request and the reading of its answer show nothing yet.
LEMMA AskRestKeeps == ASSUME VInv, AskRest \/ ReadRest PROVE VInv'
<1>1. page \in Page /\ missed \in BOOLEAN /\ Snapshot \in [Notes -> Node]
  BY VaultTypes, SnapshotType DEF VInv
<1>2. UNCHANGED <<rows, ids, ix, missed>>
  BY DEF AskRest, ReadRest
<1>3. \/ page' = [page EXCEPT !.rest = "asked"]
      \/ page' = [[page EXCEPT !.rest = "read"] EXCEPT !.answer = Snapshot]
  BY <1>1 DEF AskRest, ReadRest, Page
<1>. HIDE DEF Snapshot
<1>4. page' \in Page /\ page'.pc = page.pc /\ page'.queue = page.queue /\ page'.fading = page.fading
      /\ page'.nodes = page.nodes
  BY <1>1, <1>3 DEF Page
<1>5. \A n \in Notes : \A v : Shows(page, n, v) => Shows(page', n, v)
  BY <1>4, ShowsSame
<1>6. page'.pc # "live" => page'.queue = <<>>
  BY <1>4 DEF VInv
<1>7. QED
  BY <1>1, <1>2, <1>4, <1>5, <1>6, PageSteps

\* The answer changes what a page that is connected will show only where it overwrites.
LEMMA EndRestKeeps == ASSUME VInv, EndRest PROVE VInv'
<1>1. page \in Page /\ missed \in BOOLEAN
  BY VaultTypes DEF VInv
<1>2. UNCHANGED <<rows, ids, ix>>
  BY DEF EndRest
<1>3. \/ /\ page' = [[[page EXCEPT !.rest = "none"] EXCEPT !.answer = Nothing] EXCEPT !.nodes = page.answer]
         /\ missed' = (missed \/ (page.pc # "off" /\ Overwritten # {}))
      \/ page' = [[page EXCEPT !.rest = "none"] EXCEPT !.answer = Nothing] /\ missed' = missed
  BY <1>1 DEF EndRest, Page
<1>4. Nothing \in [Notes -> Node]
  BY DEF Nothing, Node
<1>5. /\ page' \in Page /\ page'.pc = page.pc /\ page'.queue = page.queue /\ page'.fading = page.fading
      /\ \/ page'.nodes = page.answer /\ missed' = (missed \/ (page.pc # "off" /\ Overwritten # {}))
         \/ page'.nodes = page.nodes /\ missed' = missed
  BY <1>1, <1>3, <1>4 DEF Page
<1>6. missed' \in BOOLEAN /\ (~missed' => ~missed)
  <2>1. \/ missed' = (missed \/ (page.pc # "off" /\ Overwritten # {}))
        \/ missed' = missed
    BY <1>5
  <2>2. QED
    BY <1>1, <2>1, Zenon
<1>7. ASSUME ~missed', page'.pc # "off", NEW n \in Notes, NEW v, Shows(page, n, v)
      PROVE  Shows(page', n, v)
  <2>1. CASE page'.nodes = page.nodes
    BY <1>5, <1>7, <2>1, ShowsSame
  <2>2. CASE page'.nodes = page.answer /\ Overwritten = {}
    <3>1. \/ n \in page.fading \/ page.answer[n] = page.nodes[n]
          \/ \E k \in DOMAIN page.queue : page.queue[k].note = n
      BY <2>2 DEF Overwritten
    <3>2. QED
      BY <1>5, <1>7, <2>2, <3>1 DEF Shows
  <2>3. QED
    BY <1>5, <1>7, <2>1, <2>2
<1>8. page'.pc # "live" => page'.queue = <<>>
  BY <1>5 DEF VInv
<1>9. QED
  BY <1>1, <1>2, <1>5, <1>6, <1>7, <1>8, PageSteps

\* A note is announced: by a run of the API no other has announced it, unless what the
\* page shows is no longer vouched for.
LEMMA IndexNoteKeeps == ASSUME VInv, NEW i \in Indexers, IndexNote(i) PROVE VInv'
<1>1. /\ rows \in [Notes -> Row] /\ ids \in 0..MaxIds
      /\ ix \in [Indexers -> Run] /\ page \in Page /\ missed \in BOOLEAN
  BY VaultTypes DEF VInv
<1>. DEFINE x == ix[i]
<1>2. x \in Run /\ x.pc = "index" /\ UNCHANGED <<rows, ids>>
  BY <1>1 DEF IndexNote
<1>3. PICK n \in (Changed(x) \cup Removed(x)) \ x.done :
          /\ rows[n].id = x.old[n].id => \A j \in Indexers \ {i} : n \notin ix[j].done
          /\ ix' = [ix EXCEPT ![i].done = @ \cup {n}]
          /\ Emitted(x, n)
  BY DEF IndexNote
<1>4. n \in Notes /\ n \in Changed(x) \cup Removed(x)
  BY <1>3 DEF Changed, Removed
<1>. DEFINE r == [x EXCEPT !.done = x.done \cup {n}]
<1>5. ix' = [ix EXCEPT ![i] = r]
  BY <1>1, <1>3 DEF Run
<1>6. /\ r \in Run /\ r.pc = "index" /\ r.old = x.old /\ r.done = x.done \cup {n} /\ r.alone = x.alone
      /\ r.place = x.place /\ r.scan = x.scan
  BY <1>2, <1>4 DEF Run
<1>. HIDE DEF r
<1>7. ix' \in [Indexers -> Run] /\ ix'[i] = r /\ \A j \in Indexers \ {i} : ix'[j] = ix[j]
  BY <1>1, <1>5, <1>6
<1>. DEFINE e == [note |-> n, title |-> TitleOf(x.scan[n])]
<1>8. e \in Event /\ e.note = n /\ e.title = TitleOf(x.scan[n])
  BY <1>2, <1>4, TitleType DEF Event, Run
<1>9. /\ page' = IF x.place = "api" /\ page.pc = "live"
                 THEN [page EXCEPT !.queue = Append(page.queue, e)] ELSE page
      /\ missed' = (missed \/ Strays(x, n))
  BY <1>1, <1>3 DEF Emitted, Page
<1>. HIDE DEF e, x
<1>10. page' \in Page /\ page'.pc = page.pc /\ page'.fading = page.fading /\ page'.nodes = page.nodes
       /\ page'.queue = IF x.place = "api" /\ page.pc = "live" THEN Append(page.queue, e) ELSE page.queue
  <2>1. Append(page.queue, e) \in Seq(Event)
    BY <1>1, <1>8, PageParts, AppendProperties
  <2>2. QED
    BY <1>1, <1>9, <2>1 DEF Page
<1>11. missed' \in BOOLEAN /\ (~missed' => ~missed)
  BY <1>1, <1>9 DEF Strays
<1>12. VaultTypeOK'
  BY <1>1, <1>2, <1>7, <1>10, <1>11, VaultTypes DEF VaultTypeOK, Run, Page
<1>13. ASSUME NEW j \in Indexers PROVE RunOf(j)'
  <2>1. RunOf(j)
    BY DEF VInv
  <2>2. CASE j = i
    <3>1. Changed(r) = Changed(x) /\ Removed(r) = Removed(x)
      BY <1>6 DEF Changed, Removed
    <3>2. r.done \subseteq Changed(r) \cup Removed(r)
      BY <1>4, <1>6, <2>1, <2>2, <3>1 DEF RunOf, x
    <3>3. r.alone => \A k \in Indexers \ {i} : ix'[k].pc = "idle"
      BY <1>6, <1>7, <2>1, <2>2 DEF RunOf, x
    <3>4. r.alone => r.old = rows
      BY <1>2, <1>6, <2>1, <2>2 DEF RunOf, x
    <3>5. QED
      BY <1>2, <1>6, <1>7, <2>2, <3>2, <3>3, <3>4 DEF RunOf
  <2>3. CASE j # i
    <3>1. ix'[j] = ix[j] /\ ~ix[j].alone
      BY <1>2, <1>7, <2>1, <2>3 DEF RunOf, x
    <3>2. QED
      BY <2>1, <3>1 DEF RunOf
  <2>4. QED
    BY <2>2, <2>3
<1>14. ASSUME ~missed' PROVE OneAnnounces'
  <2>1. OneAnnounces
    BY <1>11, <1>14 DEF VInv
  <2>2. x.place = "api" => rows[n].id = x.old[n].id /\ TitleFlushed(x, n) = TitleOf(x.scan[n])
    BY <1>9, <1>14 DEF Strays
  <2>3. ASSUME NEW a \in Indexers, NEW m \in ix'[a].done, ix'[a].place = "api"
        PROVE  /\ rows[m].id = ix'[a].old[m].id
               /\ TitleFlushed(ix[a], m)' = TitleOf(ix'[a].scan[m])
               /\ \A j \in Indexers \ {a} : m \in ix'[j].done =>
                    ix'[j].place = "worker" /\ rows[m].id # ix'[j].old[m].id
    <3>1. CASE a = i /\ m = n
      <4>1. rows[n].id = x.old[n].id /\ TitleFlushed(x, n) = TitleOf(x.scan[n])
        BY <1>6, <1>7, <2>2, <2>3, <3>1
      <4>2. \A j \in Indexers \ {i} : n \notin ix'[j].done
        BY <1>3, <1>7, <4>1 DEF x
      <4>3. TitleFlushed(ix[i], n)' = TitleFlushed(x, n)
        BY <1>2, <1>6, <1>7 DEF TitleFlushed
      <4>4. QED
        BY <1>6, <1>7, <3>1, <4>1, <4>2, <4>3
    <3>2. CASE ~(a = i /\ m = n)
      <4>1. m \in ix[a].done /\ ix[a].place = "api" /\ ix'[a].old = ix[a].old /\ ix'[a].scan = ix[a].scan
        BY <1>6, <1>7, <2>3, <3>2 DEF x
      <4>2. rows[m].id = ix[a].old[m].id /\ TitleFlushed(ix[a], m)' = TitleOf(ix'[a].scan[m])
        <5>1. TitleFlushed(ix[a], m)' = TitleFlushed(ix[a], m)
          BY <1>2, <4>1 DEF TitleFlushed
        <5>2. QED
          BY <2>1, <4>1, <5>1 DEF OneAnnounces
      <4>3. ASSUME NEW j \in Indexers \ {a}, m \in ix'[j].done
            PROVE  ix'[j].place = "worker" /\ rows[m].id # ix'[j].old[m].id
        <5>1. CASE j = i /\ m = n
          <6>1. rows[n].id # x.old[n].id
            BY <1>3, <4>1, <4>3, <5>1
          <6>2. x.place \in {"api", "worker"}
            BY <1>2 DEF Run
          <6>3. QED
            BY <1>6, <1>7, <2>2, <5>1, <6>1, <6>2
        <5>2. CASE ~(j = i /\ m = n)
          <6>1. m \in ix[j].done /\ ix'[j].place = ix[j].place /\ ix'[j].old = ix[j].old
            BY <1>6, <1>7, <4>3, <5>2 DEF x
          <6>2. QED
            BY <2>1, <4>1, <6>1 DEF OneAnnounces
        <5>3. QED
          BY <5>1, <5>2
      <4>4. QED
        BY <4>1, <4>2, <4>3
    <3>3. QED
      BY <3>1, <3>2
  <2>4. QED
    BY <1>2, <2>3 DEF OneAnnounces
<1>15. ASSUME ~missed', page'.pc # "off" PROVE PageFollows'
  <2>1. PageFollows
    BY <1>10, <1>11, <1>15 DEF VInv
  <2>2. x.place = "api" => page.pc = "live" /\ rows[n].id = x.old[n].id
    BY <1>1, <1>9, <1>10, <1>15 DEF Page, Strays
  <2>3. x.place = "api" => Shows(page', n, TitleOf(x.scan[n]))
    <3>1. x.place = "api" => Shows(page', e.note, e.title)
      BY <1>1, <1>8, <1>10, <2>2, ShowsAppend
    <3>2. QED
      BY <1>8, <3>1
  <2>4. ASSUME NEW m, NEW v, Shows(page, m, v), x.place = "api" => m # n PROVE Shows(page', m, v)
    <3>1. CASE x.place = "api"
      BY <1>1, <1>8, <1>10, <2>2, <2>4, <3>1, ShowsAppend
    <3>2. CASE x.place # "api"
      BY <1>10, <2>4, <3>2, ShowsSame
    <3>3. QED
      BY <3>1, <3>2
  <2>5. ASSUME NEW a \in Indexers, NEW m \in ix'[a].done, ix'[a].place = "api"
        PROVE  Shows(page', m, TitleOf(ix'[a].scan[m]))
    <3>1. CASE a = i /\ m = n
      BY <1>6, <1>7, <2>3, <2>5, <3>1
    <3>2. CASE ~(a = i /\ m = n)
      <4>1. m \in ix[a].done /\ ix[a].place = "api" /\ ix'[a].scan = ix[a].scan
        BY <1>6, <1>7, <2>5, <3>2 DEF x
      <4>2. Shows(page, m, TitleOf(ix[a].scan[m]))
        BY <2>1, <4>1 DEF PageFollows
      <4>3. x.place = "api" => m # n
        BY <1>3, <2>2, <3>2, <4>1 DEF x
      <4>4. QED
        BY <2>4, <4>1, <4>2, <4>3
    <3>3. QED
      BY <3>1, <3>2
  <2>6. ASSUME NEW m \in Notes, \A a \in Indexers : ix'[a].place = "api" => m \notin ix'[a].done
        PROVE  Shows(page', m, rows[m].title)
    <3>1. \A a \in Indexers : ix[a].place = "api" => m \notin ix[a].done
      BY <1>6, <1>7, <2>6 DEF x
    <3>2. x.place = "api" => m # n
      BY <1>6, <1>7, <2>6
    <3>3. Shows(page, m, rows[m].title)
      BY <2>1, <3>1 DEF PageFollows
    <3>4. QED
      BY <2>4, <3>2, <3>3
  <2>7. QED
    BY <1>2, <2>5, <2>6 DEF PageFollows
<1>16. page'.pc # "live" => page'.queue = <<>>
  BY <1>10 DEF VInv
<1>17. QED
  BY <1>2, <1>12, <1>13, <1>14, <1>15, <1>16 DEF VInv

\* The rows a run inserts get numbers of their own.
LEMMA FreshIds ==
  ASSUME NEW S, IsFiniteSet(S), NEW m \in Nat
  PROVE  \E f \in [S -> m + 1 .. m + Cardinality(S)] : \A a, b \in S : f[a] = f[b] => a = b
<1>1. Cardinality(S) \in Nat /\ \E g : ExistsBijection(1..Cardinality(S), S) /\ g \in Bijection(1..Cardinality(S), S)
  BY FS_CardinalityType DEF ExistsBijection
<1>2. PICK g : g \in Bijection(1..Cardinality(S), S)
  BY <1>1
<1>3. /\ g \in [1..Cardinality(S) -> S]
      /\ \A y \in S : \E k \in 1..Cardinality(S) : g[k] = y
  BY <1>2 DEF Bijection, Injection, Surjection
<1>. DEFINE at(y) == CHOOSE k \in 1..Cardinality(S) : g[k] = y
            f == [y \in S |-> m + at(y)]
<1>4. \A y \in S : at(y) \in 1..Cardinality(S) /\ g[at(y)] = y
  BY <1>3
<1>. HIDE DEF at
<1>5. \A y \in S : m + at(y) \in m + 1 .. m + Cardinality(S)
  BY <1>1, <1>4
<1>6. f \in [S -> m + 1 .. m + Cardinality(S)]
  BY <1>5
<1>7. ASSUME NEW a \in S, NEW b \in S, f[a] = f[b] PROVE a = b
  <2>1. m + at(a) = m + at(b)
    BY <1>7
  <2>2. at(a) = at(b)
    BY <1>1, <1>4, <2>1
  <2>3. QED
    BY <1>4, <2>2
<1>8. QED
  BY <1>6, <1>7

\* What a commit writes.
LEMMA Committed ==
  ASSUME VInv, NEW i \in Indexers, CommitIndex(i)
  PROVE  /\ rows' \in [Notes -> Row] /\ ids' \in 0..MaxIds
         /\ \A n \in Notes :
              /\ rows'[n].id = 0 => rows'[n].hash = Gone /\ rows'[n].title = Gone
              /\ n \in Changed(ix[i]) => rows'[n].hash = ix[i].scan[n] /\ rows'[n].title = TitleFlushed(ix[i], n)
              /\ n \in Removed(ix[i]) /\ rows[n].id = ix[i].old[n].id =>
                   rows'[n].hash = ix[i].scan[n] /\ rows'[n].title = TitleOf(ix[i].scan[n])
              /\ n \notin ix[i].done => rows'[n] = rows[n]
         /\ ix[i].pc = "index" /\ ix[i].done = Changed(ix[i]) \cup Removed(ix[i])
<1>. DEFINE x == ix[i]
            new == {n \in x.done : x.old[n].id = 0}
            F == [new -> ids + 1 .. ids + Cardinality(new)]
            fresh == CHOOSE f \in F : \A a, b \in new : f[a] = f[b] => a = b
<1>1. /\ rows \in [Notes -> Row] /\ ids \in 0..MaxIds /\ x \in Run
  BY VaultTypes DEF VInv
<1>2. /\ x.pc = "index" /\ x.done = Changed(x) \cup Removed(x)
      /\ ids + Cardinality(new) <= MaxIds
      /\ rows' = [n \in Notes |->
           CASE n \in x.done \cap Changed(x) ->
                  [id |-> IF n \in new THEN fresh[n] ELSE x.old[n].id, hash |-> x.scan[n], title |-> TitleFlushed(x, n)]
             [] n \in x.done \cap Removed(x) /\ rows[n].id = x.old[n].id -> NoRow
             [] OTHER -> rows[n]]
      /\ ids' = ids + Cardinality(new)
  BY DEF CommitIndex
<1>3. x.done \subseteq Notes /\ new \subseteq Notes /\ IsFiniteSet(new)
  BY <1>1, VaultAssumption, FS_Subset DEF Run
<1>4. Cardinality(new) \in Nat
  BY <1>3, FS_CardinalityType
<1>5. fresh \in F
  <2>1. ids \in Nat
    BY <1>1, VaultAssumption
  <2>2. \E f \in F : \A a, b \in new : f[a] = f[b] => a = b
    <3>. HIDE DEF new, F
    <3>1. \A S : IsFiniteSet(S) => \E f \in [S -> ids + 1 .. ids + Cardinality(S)] :
                                     \A a, b \in S : f[a] = f[b] => a = b
      BY <2>1, FreshIds
    <3>2. QED
      BY <1>3, <3>1, Zenon DEF F
  <2>3. QED
    BY <2>2
<1>. HIDE DEF fresh, new
<1>6. ids' \in 0..MaxIds
  BY <1>1, <1>2, <1>4, VaultAssumption
<1>7. \A n \in new : fresh[n] \in 0..MaxIds /\ fresh[n] # 0
  <2>1. \A k \in ids + 1 .. ids + Cardinality(new) : k \in 0..MaxIds /\ k # 0
    BY <1>1, <1>2, <1>4, VaultAssumption
  <2>2. QED
    BY <1>5, <2>1
<1>8. x.old \in [Notes -> Row] /\ x.scan \in [Notes -> File] /\ \A n \in Notes : TitleFlushed(x, n) \in Node
  BY <1>1, TitleType DEF Run, Row, TitleFlushed
<1>9. NoRow \in Row /\ NoRow.id = 0 /\ NoRow.hash = Gone /\ NoRow.title = Gone /\ TitleOf(Gone) = Gone
  BY VaultAssumption DEF NoRow, Row, File, Node, TitleOf
<1>10. \A n \in x.done : n \in new <=> x.old[n].id = 0
  BY DEF new
<1>. HIDE DEF x
<1>11. ASSUME NEW n \in Notes
       PROVE  /\ rows'[n] \in Row
              /\ rows'[n].id = 0 => rows'[n].hash = Gone /\ rows'[n].title = Gone
              /\ n \in Changed(x) => rows'[n].hash = x.scan[n] /\ rows'[n].title = TitleFlushed(x, n)
              /\ n \in Removed(x) /\ rows[n].id = x.old[n].id =>
                   rows'[n].hash = x.scan[n] /\ rows'[n].title = TitleOf(x.scan[n])
              /\ n \notin x.done => rows'[n] = rows[n]
  <2>1. CASE n \in Changed(x)
    <3>1. n \in x.done /\ n \notin Removed(x)
      BY <1>2, <2>1 DEF Changed, Removed
    <3>. DEFINE k == IF n \in new THEN fresh[n] ELSE x.old[n].id
    <3>2. rows'[n] = [id |-> k, hash |-> x.scan[n], title |-> TitleFlushed(x, n)]
      <4>1. n \in x.done \cap Changed(x)
        BY <2>1, <3>1
      <4>2. rows' = [m \in Notes |->
              CASE m \in x.done \cap Changed(x) ->
                     [id |-> IF m \in new THEN fresh[m] ELSE x.old[m].id, hash |-> x.scan[m], title |-> TitleFlushed(x, m)]
                [] m \in x.done \cap Removed(x) /\ rows[m].id = x.old[m].id -> NoRow
                [] OTHER -> rows[m]]
        BY <1>2
      <4>3. QED
        <5>1. rows'[n] = CASE n \in x.done \cap Changed(x) ->
                                [id |-> IF n \in new THEN fresh[n] ELSE x.old[n].id, hash |-> x.scan[n], title |-> TitleFlushed(x, n)]
                           [] n \in x.done \cap Removed(x) /\ rows[n].id = x.old[n].id -> NoRow
                           [] OTHER -> rows[n]
          BY <4>2, Zenon
        <5>2. QED
          BY <3>1, <4>1, <5>1
    <3>3. k \in 0..MaxIds /\ k # 0
      <4>1. CASE n \in new
        BY <1>7, <4>1
      <4>2. CASE n \notin new
        BY <1>8, <1>10, <3>1, <4>2 DEF Row
      <4>3. QED
        BY <4>1, <4>2
    <3>. HIDE DEF k
    <3>4. QED
      BY <1>8, <3>1, <3>2, <3>3 DEF Row
  <2>2. CASE n \notin Changed(x) /\ n \in x.done /\ rows[n].id = x.old[n].id
    <3>1. rows'[n] = NoRow
      <4>1. n \in x.done \cap Removed(x)
        BY <1>2, <2>2
      <4>2. QED
        BY <1>2, <2>2, <4>1
    <3>2. n \in Removed(x) => x.scan[n] = Gone
      BY DEF Removed
    <3>3. QED
      BY <1>9, <2>2, <3>1, <3>2
  <2>3. CASE n \notin Changed(x) /\ ~(n \in x.done /\ rows[n].id = x.old[n].id)
    <3>1. rows'[n] = rows[n]
      BY <1>2, <2>3
    <3>2. rows[n].id = 0 => rows[n].hash = Gone /\ rows[n].title = Gone
      BY DEF VInv
    <3>3. n \in Removed(x) => n \in x.done
      BY <1>2
    <3>4. QED
      BY <1>1, <2>3, <3>1, <3>2, <3>3
  <2>4. QED
    BY <2>1, <2>2, <2>3
<1>12. rows' \in [Notes -> Row]
  <2>1. rows' = [n \in Notes |-> rows'[n]]
    BY <1>2
  <2>2. QED
    BY <1>11, <2>1
<1>13. QED
  BY <1>2, <1>6, <1>11, <1>12 DEF x

LEMMA CommitIndexKeeps == ASSUME VInv, NEW i \in Indexers, CommitIndex(i) PROVE VInv'
<1>1. /\ page \in Page /\ missed \in BOOLEAN /\ ix \in [Indexers -> Run]
  BY VaultTypes DEF VInv
<1>. DEFINE x == ix[i]
<1>2. /\ ix' = [ix EXCEPT ![i] = Still] /\ UNCHANGED page
      /\ missed' = (missed \/ (x.place = "worker" /\ x.done # {}))
  BY DEF CommitIndex
<1>3. /\ rows' \in [Notes -> Row] /\ ids' \in 0..MaxIds
      /\ \A n \in Notes :
           /\ rows'[n].id = 0 => rows'[n].hash = Gone /\ rows'[n].title = Gone
           /\ n \in Changed(x) => rows'[n].hash = x.scan[n] /\ rows'[n].title = TitleFlushed(x, n)
           /\ n \in Removed(x) /\ rows[n].id = x.old[n].id =>
                rows'[n].hash = x.scan[n] /\ rows'[n].title = TitleOf(x.scan[n])
           /\ n \notin x.done => rows'[n] = rows[n]
      /\ x.pc = "index" /\ x.done = Changed(x) \cup Removed(x)
  BY Committed
<1>4. /\ ix' \in [Indexers -> Run] /\ ix'[i] = Still /\ \A j \in Indexers \ {i} : ix'[j] = ix[j]
      /\ \A j \in Indexers : ix[j].done \subseteq Notes
  BY <1>1, <1>2, <1>3, RunEnds DEF Run
<1>5. missed' \in BOOLEAN
  BY <1>2
<1>6. VaultTypeOK'
  BY <1>1, <1>2, <1>3, <1>4, <1>5, VaultTypes DEF VaultTypeOK, Run, Page
<1>7. ASSUME NEW j \in Indexers PROVE RunOf(j)'
  <2>1. CASE j = i
    BY <1>4, <2>1, StillIsRun DEF RunOf
  <2>2. CASE j # i
    <3>1. ix'[j] = ix[j] /\ RunOf(j) /\ ~ix[j].alone
      BY <1>3, <1>4, <2>2 DEF VInv, RunOf
    <3>2. QED
      BY <3>1 DEF RunOf
  <2>3. QED
    BY <2>1, <2>2
<1>8. ~missed' => ~missed /\ (x.place = "api" \/ x.done = {})
  <2>1. x.place \in {"api", "worker"}
    BY <1>1 DEF Run
  <2>2. QED
    BY <1>2, <2>1
\* Whatever the run has changed, it has announced, and no other that the page hears has.
<1>9. ASSUME ~missed', NEW n \in x.done
      PROVE  /\ rows[n].id = x.old[n].id /\ TitleFlushed(x, n) = TitleOf(x.scan[n])
             /\ \A j \in Indexers \ {i} : n \in ix[j].done => ix[j].place = "worker"
  <2>1. OneAnnounces /\ x.place = "api"
    BY <1>8, <1>9 DEF VInv
  <2>2. QED
    BY <2>1 DEF OneAnnounces
<1>10. ASSUME ~missed' PROVE OneAnnounces'
  <2>1. OneAnnounces
    BY <1>8, <1>10 DEF VInv
  <2>2. ASSUME NEW a \in Indexers, NEW m \in ix'[a].done, ix'[a].place = "api"
        PROVE  /\ rows'[m].id = ix'[a].old[m].id
               /\ TitleFlushed(ix[a], m)' = TitleOf(ix'[a].scan[m])
               /\ \A j \in Indexers \ {a} : m \in ix'[j].done =>
                    ix'[j].place = "worker" /\ rows'[m].id # ix'[j].old[m].id
    <3>1. a # i /\ ix'[a] = ix[a] /\ m \in Notes
      BY <1>4, <2>2, StillIsRun
    <3>2. m \notin x.done
      BY <1>9, <1>10, <2>2, <3>1
    <3>3. rows'[m] = rows[m]
      BY <1>3, <3>1, <3>2
    <3>4. \A j \in Indexers : m \in ix'[j].done => ix'[j] = ix[j]
      BY <1>4, StillIsRun
    <3>5. TitleFlushed(ix[a], m)' = TitleFlushed(ix[a], m)
      BY <3>1, <3>3 DEF TitleFlushed
    <3>6. QED
      BY <2>1, <2>2, <3>1, <3>3, <3>4, <3>5 DEF OneAnnounces
  <2>3. QED
    BY <2>2 DEF OneAnnounces
<1>11. ASSUME ~missed', page'.pc # "off" PROVE PageFollows'
  <2>1. PageFollows
    BY <1>2, <1>8, <1>11 DEF VInv
  <2>2. ASSUME NEW a \in Indexers, NEW m \in ix'[a].done, ix'[a].place = "api"
        PROVE  Shows(page', m, TitleOf(ix'[a].scan[m]))
    <3>1. ix'[a] = ix[a]
      BY <1>4, <2>2, StillIsRun
    <3>2. QED
      BY <1>2, <2>1, <2>2, <3>1 DEF PageFollows
  <2>3. ASSUME NEW n \in Notes, \A a \in Indexers : ix'[a].place = "api" => n \notin ix'[a].done
        PROVE  Shows(page', n, rows'[n].title)
    <3>1. CASE n \in x.done
      <4>1. rows'[n].title = TitleOf(x.scan[n])
        BY <1>3, <1>9, <1>11, <3>1
      <4>2. x.place = "api"
        BY <1>8, <1>11, <3>1
      <4>3. QED
        BY <1>2, <2>1, <3>1, <4>1, <4>2 DEF PageFollows
    <3>2. CASE n \notin x.done
      <4>1. \A a \in Indexers : ix[a].place = "api" => n \notin ix[a].done
        BY <1>4, <2>3, <3>2
      <4>2. QED
        BY <1>2, <1>3, <2>1, <3>2, <4>1 DEF PageFollows
    <3>3. QED
      BY <3>1, <3>2
  <2>4. QED
    BY <2>2, <2>3 DEF PageFollows
<1>12. page'.pc # "live" => page'.queue = <<>>
  BY <1>2 DEF VInv
<1>13. QED
  BY <1>3, <1>6, <1>7, <1>10, <1>11, <1>12 DEF VInv

LEMMA VaultStarts == VaultInit => VInv
<1>. SUFFICES ASSUME VaultInit PROVE VInv
  OBVIOUS
<1>1. /\ rows = NoRows /\ ids = 0 /\ ix = [i \in Indexers |-> Still]
      /\ page = [pc |-> "off", nodes |-> Nothing, queue |-> <<>>, fading |-> {},
                 rest |-> "none", answer |-> Nothing]
      /\ missed = FALSE
  BY DEF VaultInit
<1>2. Nothing \in [Notes -> Node] /\ NoRows \in [Notes -> Row] /\ 0 \in 0..MaxIds
  BY VaultAssumption DEF Nothing, NoRows, NoRow, Row, File, Node
<1>3. ix \in [Indexers -> Run] /\ \A i \in Indexers : ix[i] = Still
  BY <1>1, StillIsRun
<1>4. page \in Page
  <2>1. <<>> \in Seq(Event)
    BY EmptySeq
  <2>2. QED
    BY <1>1, <1>2, <2>1 DEF Page
<1>5. VaultTypeOK
  BY <1>1, <1>2, <1>3, <1>4, VaultTypes
<1>6. \A i \in Indexers : RunOf(i)
  BY <1>3, StillIsRun DEF RunOf
<1>7. \A n \in Notes : rows[n].id = 0 => rows[n].hash = Gone /\ rows[n].title = Gone
  BY <1>1 DEF NoRows, NoRow
<1>8. OneAnnounces
  BY <1>3, StillIsRun DEF OneAnnounces
<1>9. QED
  BY <1>1, <1>5, <1>6, <1>7, <1>8 DEF VInv

\* Every step of the indexers and of the page keeps the invariant.
LEMMA VaultStep == ASSUME VInv, [VaultNext]_vaultVars PROVE VInv'
<1>2. CASE Connect
  BY <1>2, ConnectKeeps
<1>3. CASE Subscribe
  BY <1>3, SubscribeKeeps
<1>4. CASE Deliver
  BY <1>4, DeliverKeeps
<1>5. CASE Faded
  BY <1>5, FadedKeeps
<1>6. CASE Disconnect
  BY <1>6, DisconnectKeeps
<1>7. ASSUME NEW i \in Indexers, StartIndex(i) PROVE VInv'
  BY <1>7, StartIndexKeeps
<1>8. ASSUME NEW i \in Indexers, ReadRows(i) PROVE VInv'
  BY <1>8, ReadRowsKeeps
<1>9. ASSUME NEW i \in Indexers, IndexNote(i) PROVE VInv'
  BY <1>9, IndexNoteKeeps
<1>10. ASSUME NEW i \in Indexers, CommitIndex(i) PROVE VInv'
  BY <1>10, CommitIndexKeeps
<1>11. ASSUME NEW i \in Indexers, Abort(i) PROVE VInv'
  BY <1>11, AbortKeeps
<1>1. CASE AskRest \/ ReadRest
  BY <1>1, AskRestKeeps
<1>14. CASE EndRest
  BY <1>14, EndRestKeeps
<1>12. CASE UNCHANGED vaultVars
  <2>1. UNCHANGED <<rows, ids, ix, page, missed>>
    BY <1>12 DEF vaultVars
  <2>2. VaultTypeOK' /\ \A i \in Indexers : RunOf(i)'
    BY <2>1 DEF VInv, VaultTypeOK, RunOf
  <2>3. ~missed' => OneAnnounces'
    BY <2>1 DEF VInv, OneAnnounces, TitleFlushed
  <2>4. ~missed' /\ page'.pc # "off" => PageFollows'
    BY <2>1 DEF VInv, PageFollows
  <2>5. QED
    BY <2>1, <2>2, <2>3, <2>4 DEF VInv
<1>13. QED
  BY <1>1, <1>2, <1>3, <1>4, <1>5, <1>6, <1>7, <1>8, <1>9, <1>10, <1>11, <1>12, <1>14 DEF VaultNext

\* The index of the vault and its page keep VInv, whatever runs overlap, fail or are
\* half-way and whenever the page connects.
THEOREM VaultInvariant == VaultSpec => []VInv
<1>1. VaultInit => VInv
  BY VaultStarts
<1>2. VInv /\ [VaultNext]_vaultVars => VInv'
  BY VaultStep
<1>3. QED
  BY <1>1, <1>2, PTL DEF VaultSpec

\* The state of the index has its type.
THEOREM VaultTypeCorrect == VaultSpec => []VaultTypeOK
<1>1. VInv => VaultTypeOK
  BY DEF VInv
<1>2. QED
  BY <1>1, VaultInvariant, PTL

\* The live graph shows the index once all events have arrived and faded and no run is
\* half-way, but for the listed ways of missing a change (_emit, ws_vault, graph.js).
THEOREM PageShowsTheIndex == VaultSpec => []PageShowsIndex
<1>1. VInv => PageShowsIndex
  <2>1. SUFFICES ASSUME VInv, page.pc = "live", page.queue = <<>>, page.fading = {}, ~missed,
                        \A i \in Indexers : ix[i].done = {}
                 PROVE  page.nodes = Snapshot
    BY DEF PageShowsIndex
  <2>2. page \in Page
    BY <2>1, VaultTypes DEF VInv
  <2>3. PageFollows /\ DOMAIN page.queue = {} /\ page.nodes \in [Notes -> Node]
    BY <2>1, <2>2, PageParts, EmptySeq DEF VInv
  <2>4. ASSUME NEW n \in Notes PROVE page.nodes[n] = rows[n].title
    <3>1. Shows(page, n, rows[n].title)
      BY <2>1, <2>3 DEF PageFollows
    <3>2. QED
      BY <2>1, <2>3, <3>1 DEF Shows
  <2>5. QED
    BY <2>3, <2>4 DEF Snapshot
<1>2. QED
  BY <1>1, VaultInvariant, PTL

\* A reindex that nothing overlaps leaves every row with the hash of the file it has
\* scanned, and every row it has written with that file's title, whatever failed and
\* overlapping ones have left (reindex).
THEOREM ReindexRepairs == VaultSpec => IndexRepairs
<1>1. ASSUME VInv, NEW i \in Indexers, CommitIndex(i), ix[i].alone, NEW n \in Notes
      PROVE  /\ rows'[n].hash = ix[i].scan[n]
             /\ rows'[n] = rows[n] \/ rows'[n].title = TitleOf(ix[i].scan[n])
  <2>1. /\ n \in Changed(ix[i]) =>
             rows'[n].hash = ix[i].scan[n] /\ rows'[n].title = TitleFlushed(ix[i], n)
        /\ n \in Removed(ix[i]) /\ rows[n].id = ix[i].old[n].id =>
             rows'[n].hash = ix[i].scan[n] /\ rows'[n].title = TitleOf(ix[i].scan[n])
        /\ n \notin ix[i].done => rows'[n] = rows[n]
        /\ ix[i].pc = "index" /\ ix[i].done = Changed(ix[i]) \cup Removed(ix[i])
    BY <1>1, Committed
  <2>2. ix[i].old = rows /\ (rows[n].id = 0 => rows[n].hash = Gone)
    BY <1>1, <2>1 DEF VInv, RunOf
  <2>3. TitleFlushed(ix[i], n) = TitleOf(ix[i].scan[n])
    BY <2>2 DEF TitleFlushed
  <2>4. CASE n \in Changed(ix[i]) \cup Removed(ix[i])
    BY <2>1, <2>2, <2>3, <2>4
  <2>5. CASE n \notin Changed(ix[i]) \cup Removed(ix[i])
    BY <2>1, <2>2, <2>5 DEF Changed, Removed
  <2>6. QED
    BY <2>4, <2>5
<1>2. VInv /\ [VaultNext]_vaultVars =>
        [\A i \in Indexers : CommitIndex(i) /\ ix[i].alone =>
           \A n \in Notes :
             /\ rows'[n].hash = ix[i].scan[n]
             /\ rows'[n] = rows[n] \/ rows'[n].title = TitleOf(ix[i].scan[n])]_vaultVars
  BY <1>1
<1>3. QED
  BY <1>2, VaultInvariant, PTL DEF VaultSpec, IndexRepairs

==============================================================================
