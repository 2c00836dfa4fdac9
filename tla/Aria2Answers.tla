---------------------------- MODULE Aria2Answers ----------------------------
(***************************************************************************)
(* How an answer of aria2.tellStatus is read: the state of the download,   *)
(* its progress, the file it left and whether it has really ended.  Lengths*)
(* are small numbers; what cannot be parsed, or is missing, is Missing.    *)
(***************************************************************************)
EXTENDS Integers, Sequences, Functions

Missing == -1

\* aria2Numeric: what is no number counts as 0.
Numeric(v) == IF v = Missing THEN 0 ELSE v

\* ParseAria2TaskStatus: waiting and paused are active, as is any other word.
TaskState(answer) ==
  IF answer.status \in {"complete", "error", "removed"} THEN answer.status ELSE "active"

-----------------------------------------------------------------------------
(* Files: an entry has the name of an entity, of a [METADATA] placeholder, *)
(* or none.                                                                *)

EntryComplete(entry) ==
  Numeric(entry.length) > 0 /\ Numeric(entry.completed) >= Numeric(entry.length)

Lengths(files)   == [i \in DOMAIN files |-> Numeric(files[i].length)]
Completed(files) == [i \in DOMAIN files |-> Numeric(files[i].completed)]

\* The entries looked at for the progress and for the end.
RealFiles(answer) ==
  {i \in DOMAIN answer.files :
     answer.files[i].name = "entity" /\ answer.files[i].selected}

\* ParseAria2Progress: a download without a total gets that of its files; here
\* an entry without a name counts as well.
Progress(answer) ==
  LET counted == {i \in DOMAIN answer.files :
                    answer.files[i].name # "metadata" /\ answer.files[i].selected}
      total     == Numeric(answer.total)
      completed == Numeric(answer.completed)
      fileTotal == SumFunctionOnSet(Lengths(answer.files), counted)
      fileDone  == SumFunctionOnSet(Completed(answer.files), counted)
  IN  IF total > 0 \/ fileTotal = 0 THEN [total |-> total, completed |-> completed]
      ELSE [total |-> fileTotal, completed |-> IF completed > 0 THEN completed ELSE fileDone]

\* Mutant: the word of aria2 is enough.
ReadyByState(answer) == TaskState(answer) = "complete"

\* IsAria2DownloadReady: one complete entity is enough; with entities but none
\* complete the totals decide, if there are any.
IsAria2DownloadReady(answer) ==
  LET real == RealFiles(answer)
      p    == Progress(answer)
  IN  /\ TaskState(answer) = "complete"
      /\ \/ answer.files = <<>>
         \/ \E i \in real : EntryComplete(answer.files[i])
         \/ real # {} /\ (p.total <= 0 \/ p.completed >= p.total)

\* Aria2DownloadPath: the index of the first complete entity, else of the last
\* entity, else of the first entry (0: an error), selected or not.
DownloadPath(answer) ==
  LET entities == {i \in DOMAIN answer.files : answer.files[i].name = "entity"}
      complete == {i \in entities : EntryComplete(answer.files[i])}
  IN  IF complete # {} THEN CHOOSE i \in complete : \A other \in complete : i <= other
      ELSE IF entities # {} THEN CHOOSE i \in entities : \A other \in entities : i >= other
      ELSE IF answer.files # <<>> /\ answer.files[1].name # "none" THEN 1 ELSE 0

-----------------------------------------------------------------------------
(* What aria2 can answer (external), by the phase of the download.         *)

Entry(name, length, completed, selected) ==
  [name |-> name, length |-> length, completed |-> completed, selected |-> selected]

\* Files of a download under way; a selected file of a completed one, whose
\* count may lag behind; a deselected one, of which shared pieces may be there.
Partial    == {Entry(n, l, c, TRUE) : n \in {"entity", "metadata"}, l \in {0, 2}, c \in {0, 2}}
Selected   == {Entry("entity", l, c, TRUE) : l \in {0, 2}, c \in {0, 2}} \ {Entry("entity", 0, 2, TRUE)}
Deselected == {Entry("entity", 1, 1, FALSE)}

Answer(status, total, completed, files) ==
  [status |-> status, total |-> total, completed |-> completed, files |-> files]

\* aria2 counts the selected files only, and reports no total when it has none.
SelectedTotal(files) ==
  SumFunction([i \in DOMAIN files |-> IF files[i].selected THEN files[i].length ELSE 0])

Ended == {<<f>> : f \in Selected} \cup (Selected \X (Selected \cup Deselected))
                                  \cup (Deselected \X Selected)

AnswersIn(phase) ==
  CASE phase = "active" ->
         {Answer(s, t, c, <<f>>) : s \in {"active", "waiting", "paused"},
                                   t \in {Missing, 2}, c \in {0, 2}, f \in Partial}
    [] phase = "meta" ->
         {Answer("complete", t, t, <<Entry("metadata", l, l, TRUE)>>) : t \in {Missing, 1}, l \in {1, 2}}
    [] phase = "complete" ->
         {Answer("complete", SelectedTotal(files), SelectedTotal(files), files) : files \in Ended}
           \cup {Answer("complete", Missing, Missing, <<>>)}
    [] phase \in {"error", "removed"} ->
         {Answer(phase, t, 0, <<f>>) : t \in {Missing, 2}, f \in Partial}
    [] OTHER -> {}

=============================================================================
