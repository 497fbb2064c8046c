----------------------------- MODULE StyleThemes -----------------------------
(***************************************************************************)
(* The catalogue of styles (styles/registry.py, styles/gate.py,            *)
(* api/style_routes.py).  A proposal is a candidate row, judged by the gate*)
(* in the background; the gate can be run again, the owner can decide at   *)
(* any time, and the themes of the renderer are imported over rows of the  *)
(* same name.  Each of these loads the row, works for up to minutes, and   *)
(* commits what it has changed: a column set to the value that was loaded  *)
(* is not written.  No lock is held in between.                            *)
(***************************************************************************)
EXTENDS Integers, FiniteSets

CONSTANTS
  Names,      \* names of themes
  Builtin,    \* those that apps/render brings along
  Ops         \* requests and background tasks at a time

ASSUME StylesAssumption == Builtin \subseteq Names

VARIABLES
  theme,      \* the style_theme rows
  doc,        \* the names with a document in vault/styles
  op,         \* what is at work
  ground      \* why a name could be approved: gate passed, owner's yes, builtin (not in the code)

styleVars == <<theme, doc, op, ground>>

Statuses == {"none", "candidate", "approved", "rejected"}
Theme == [status: Statuses, by: {"none", "gate", "owner", "builtin"}, problems: BOOLEAN]
NoTheme == [status |-> "none", by |-> "none", problems |-> FALSE]
Kinds == {"gate", "approve", "reject", "import"}

\* seen is what was loaded; overtaken: the owner has decided since (not in the code).
Free == [pc |-> "idle", kind |-> "gate", of |-> {}, seen |-> [n \in Names |-> NoTheme],
         overtaken |-> FALSE]

StylesTypeOK ==
  /\ theme \in [Names -> Theme] /\ doc \subseteq Names
  /\ op \in [Ops -> [pc: {"idle", "load", "save", "doc"}, kind: Kinds, of: SUBSET Names,
                     seen: [Names -> Theme], overtaken: BOOLEAN]]
  /\ ground \in [Names -> SUBSET {"gate", "owner", "builtin"}]

StylesInit ==
  /\ theme = [n \in Names |-> NoTheme] /\ doc = {}
  /\ op = [o \in Ops |-> Free] /\ ground = [n \in Names |-> {}]

\* evaluate: the outcomes of the stages.  A schema problem skips the others; the
\* judge sees the frame of the validator, when there is one.
Evaluation == [schema: BOOLEAN, contrast: BOOLEAN,
               render: {"ok", "problems", "no_frame", "unavailable"}, judge: {"pass", "low", "error"}]
Framed(e) == e.schema /\ e.render \in {"ok", "problems"}
Problems(e) == \/ ~e.schema \/ ~e.contrast
               \/ e.render \in {"problems", "unavailable"}
               \/ Framed(e) /\ e.judge = "error"
Passes(e) == ~Problems(e) /\ Framed(e) /\ e.judge = "pass"
Verdicts == {[passes |-> Passes(e), problems |-> Problems(e)] : e \in Evaluation}

Begin(o, kind, names) ==
  op' = [op EXCEPT ![o] = [Free EXCEPT !.pc = "load", !.kind = kind, !.of = names]]

\* submit: the name must be new (asked for first, and a unique column); the gate
\* follows in the background.
ProposeStyle(o) ==
  /\ op[o].pc = "idle"
  /\ \E n \in Names :
       /\ theme[n].status = "none"
       /\ theme' = [theme EXCEPT ![n].status = "candidate"]
       /\ Begin(o, "gate", {n})
  /\ UNCHANGED <<doc, ground>>

Exists(n) == theme[n].status # "none"

\* POST .../gate, .../approve, .../reject and /import-builtin
Request(o) ==
  /\ op[o].pc = "idle"
  /\ \/ \E n \in Names, k \in Kinds \ {"import"} : Exists(n) /\ Begin(o, k, {n})
     \/ Begin(o, "import", Builtin)
  /\ UNCHANGED <<theme, doc, ground>>

LoadRow(o) ==
  /\ op[o].pc = "load"
  /\ op' = [op EXCEPT ![o].pc = "save",
                      ![o].seen = [n \in Names |-> IF n \in op[o].of THEN theme[n] ELSE NoTheme]]
  /\ UNCHANGED <<theme, doc, ground>>

\* The columns that differ from what was loaded go over the row as it is now.
Written(n, seen, new) ==
  [c \in DOMAIN new |-> IF new[c] = seen[c] THEN theme[n][c] ELSE new[c]]

Save(o, n, new) == theme' = [theme EXCEPT ![n] = Written(n, op[o].seen[n], new)]

\* (mutant) every theme the gate has seen is documented
DocumentAny(n, status) == [Free EXCEPT !.pc = "doc", !.of = {n}]

\* Only an approved theme gets its document.
Document(n, status) == IF status = "approved" THEN [Free EXCEPT !.pc = "doc", !.of = {n}] ELSE Free

\* run_gate, when evaluate has returned
SaveGate(o) ==
  /\ op[o].pc = "save" /\ op[o].kind = "gate"
  /\ \E n \in op[o].of, v \in Verdicts :
       /\ Save(o, n, [status |-> IF v.passes THEN "approved" ELSE "rejected",
                      by |-> IF v.passes THEN "gate" ELSE op[o].seen[n].by,
                      problems |-> v.problems])
       /\ ground' = [ground EXCEPT ![n] = IF v.passes THEN @ \cup {"gate"} ELSE @]
       /\ op' = [op EXCEPT ![o] = Document(n, theme'[n].status)]
  /\ UNCHANGED doc

\* approve and reject of the registry; a reason is a problem of the row
SaveOwner(o) ==
  /\ op[o].pc = "save" /\ op[o].kind \in {"approve", "reject"}
  /\ \E n \in op[o].of, reason \in BOOLEAN :
       LET yes == op[o].kind = "approve"
       IN /\ Save(o, n, [status |-> IF yes THEN "approved" ELSE "rejected", by |-> "owner",
                         problems |-> op[o].seen[n].problems \/ (reason /\ ~yes)])
          /\ ground' = [ground EXCEPT ![n] = IF yes THEN @ \cup {"owner"} ELSE @]
          /\ op' = [x \in Ops |->
               IF x = o THEN Document(n, IF yes THEN "approved" ELSE "rejected")
               ELSE [op[x] EXCEPT !.overtaken = @ \/ (op[x].pc = "save" /\ n \in op[x].of)]]
  /\ UNCHANGED doc

\* import_builtin: one transaction, lost as a whole when a name it inserts was taken
\* meanwhile.  A row that is there keeps its approved_by.
SaveImport(o) ==
  LET new == {n \in op[o].of : op[o].seen[n].status = "none"}
  IN /\ op[o].pc = "save" /\ op[o].kind = "import"
     /\ IF \E n \in new : Exists(n) THEN UNCHANGED <<theme, ground>>
        ELSE /\ theme' = [n \in Names |->
                  IF n \notin op[o].of THEN theme[n]
                  ELSE Written(n, op[o].seen[n],
                         [status |-> "approved", problems |-> FALSE,
                          by |-> IF n \in new THEN "builtin" ELSE op[o].seen[n].by])]
             /\ ground' = [n \in Names |-> ground[n] \cup IF n \in op[o].of THEN {"builtin"} ELSE {}]
     /\ op' = [op EXCEPT ![o] = Free]
     /\ UNCHANGED doc

\* write_vault_doc, from the row the request holds
WriteDoc(o) ==
  /\ op[o].pc = "doc"
  /\ doc' = doc \cup op[o].of
  /\ op' = [op EXCEPT ![o] = Free]
  /\ UNCHANGED <<theme, ground>>

\* An error (the LLM's prompt, the database, the file system) or the end of the
\* process: what is not committed is gone, and so is a gate in the background.
Drop(o) ==
  /\ op[o].pc # "idle"
  /\ op' = [op EXCEPT ![o] = Free]
  /\ UNCHANGED <<theme, doc, ground>>

StylesNext ==
  \E o \in Ops : \/ ProposeStyle(o) \/ Request(o) \/ LoadRow(o) \/ SaveGate(o)
                 \/ SaveOwner(o) \/ SaveImport(o) \/ WriteDoc(o) \/ Drop(o)
StylesSpec == StylesInit /\ [][StylesNext]_styleVars

----------------------------------------------------------------------------

\* theme_for_props and the catalogue give out approved themes: one of them passed
\* every stage of the gate, or the owner said yes, or it came with the renderer,
\* whatever runs of the gate, answers and imports overlapped; approved_by names the
\* gate or the renderer only when it was that; and the vault documents only such themes.
ApprovedOnGrounds ==
  \A n \in Names :
    /\ theme[n].status = "approved" \/ n \in doc => ground[n] # {}
    /\ theme[n].status = "approved" /\ theme[n].by \in {"gate", "builtin"} => theme[n].by \in ground[n]

\* style_routes.py:9-10 and registry.py:149: the owner decides whatever the result of
\* the gate.  A verdict on a row that was loaded before the owner's answer leaves it.
OwnerOverridesGate ==
  [][\A o \in Ops : SaveGate(o) /\ op[o].overtaken =>
       \A n \in op[o].of : theme'[n].status = theme[n].status]_styleVars

=============================================================================
