----------------------------- MODULE EditorServer -----------------------------
(***************************************************************************)
(* The editor's server (scripts/editor_server.py): a thread for every      *)
(* request, so that saves of one document may run at the same time, and a  *)
(* thread and a baker process for every bake.  Files are names for inodes, *)
(* an inode holds two chunks, and what a save does to them may fail at any *)
(* call, or the server be killed.  Requests that are refused, and those    *)
(* that only read, change nothing and are no actions.                      *)
(***************************************************************************)
EXTENDS Naturals, Sequences, FiniteSets, Functions

CONSTANTS
  Handlers,    (* request threads that save                                  *)
  Docs,        (* the documents that are saved                               *)
  Existing,    (* those that are there at first: shows, not setlists         *)
  Texts,       (* bound: what the saves of a behaviour save, in their order  *)
  Jobs,        (* bake jobs, and the texts that come with their requests     *)
  MaxFaults    (* bound: calls that fail and deaths of the server            *)

Absent == "absent"
Original == "original"
Torn == "torn"

ASSUME EditorAssumption ==
  /\ IsFiniteSet(Handlers) /\ IsFiniteSet(Docs) /\ Existing \subseteq Docs
  /\ "none" \notin Docs /\ Texts \in Seq(Range(Texts))
  /\ {Absent, Original, Torn} \cap (Range(Texts) \cup Jobs) = {}
  /\ MaxFaults \in Nat

(* One inode for every name and one for every open file.                      *)
Inodes == 1..(2 * Cardinality(Docs) + Cardinality(Handlers))
Chunks == {1, 2}
Written == Range(Texts) \cup {Original}

VARIABLES
  disk,        (* inode -> its two chunks                                    *)
  file, tmp,   (* document -> the inode of <name>, of <name>.tmp; 0: no file *)
  save,        (* the saves under way                                        *)
  expected,    (* history: what a document may hold, as far as its savers    *)
               (* have been told                                             *)
  overlap,     (* history: documents of which two saves have overlapped      *)
  job,         (* JOBS                                                       *)
  saves, faults

files == <<disk, file, tmp>>
saveVars == <<save, expected, overlap, saves>>
editorVars == <<files, saveVars, job, faults>>

NoSave == [at |-> "idle", doc |-> "none", text |-> Absent, ino |-> 0,
           before |-> {}]
NoJob == [status |-> "none", baker |-> "off", inline |-> FALSE,
          scratch |-> Absent, read |-> Absent,
          cache |-> Absent, summary |-> Absent]
Empty == [c \in Chunks |-> Absent]

Whole(ino) ==
  IF ino = 0 THEN Absent
  ELSE IF disk[ino][1] = disk[ino][2] /\ disk[ino][1] # Absent
  THEN disk[ino][1] ELSE Torn

EditorTypeOK ==
  /\ disk \in [Inodes -> [Chunks -> Written \cup {Absent}]]
  /\ file \in [Docs -> Inodes \cup {0}] /\ tmp \in [Docs -> Inodes \cup {0}]
  /\ save \in [Handlers ->
       [at : {"idle", "open", "first", "second", "replace", "unlink", "answer"},
        doc : Docs \cup {"none"}, text : Range(Texts) \cup {Absent},
        ino : Inodes \cup {0}, before : SUBSET (Written \cup {Absent})]]
  /\ expected \in [Docs -> SUBSET (Written \cup {Absent})]
  /\ overlap \subseteq Docs
  /\ job \in [Jobs ->
       [status : {"none", "running", "done", "error"},
        baker : {"off", "start", "bake", "exit 0", "exit 1", "ended"},
        inline : BOOLEAN, scratch : Jobs \cup {Absent},
        read : Jobs \cup Written \cup {Absent, Torn},
        cache : Jobs \cup Written \cup {Absent},
        summary : Jobs \cup Written \cup {Absent}]]
  /\ saves \in 0..Len(Texts) /\ faults \in 0..MaxFaults

EditorInit ==
  /\ file = CHOOSE f \in [Docs -> Inodes \cup {0}] :
              /\ \A d \in Docs : (f[d] # 0) <=> d \in Existing
              /\ \A d, e \in Existing : f[d] = f[e] => d = e
  /\ disk = [i \in Inodes |-> [c \in Chunks |->
               IF \E d \in Docs : file[d] = i THEN Original ELSE Absent]]
  /\ tmp = [d \in Docs |-> 0]
  /\ save = [h \in Handlers |-> NoSave]
  /\ expected = [d \in Docs |-> {IF d \in Existing THEN Original ELSE Absent}]
  /\ overlap = {} /\ job = [j \in Jobs |-> NoJob]
  /\ saves = 0 /\ faults = 0

-----------------------------------------------------------------------------
(* Saves: _handle_post_save and _handle_post_save_setlist.                    *)

Fail == faults < MaxFaults /\ faults' = faults + 1

(* A well-formed request; a new thread takes it, so any that is idle here     *)
(* will do.                                                                   *)
BeginSave(d) ==
  LET idle == {h \in Handlers : save[h].at = "idle"}
      text == Texts[saves + 1]
  IN  /\ idle # {} /\ saves < Len(Texts)
      /\ save' = [save EXCEPT ![CHOOSE h \in idle : TRUE] =
           [at |-> "open", doc |-> d, text |-> text, ino |-> 0,
            before |-> expected[d]]]
      /\ expected' = [expected EXCEPT ![d] = @ \cup {text}]
      /\ overlap' = IF \E g \in Handlers : save[g].doc = d
                    THEN overlap \cup {d} ELSE overlap
      /\ saves' = saves + 1 /\ UNCHANGED <<files, job, faults>>

(* resolve_show_path: a show must be there; a setlist need not.               *)
Resolves(d) == d \in Existing /\ file[d] # 0

PostSave(d) == Resolves(d) /\ BeginSave(d)
PostSaveSetlist(d) == d \notin Existing /\ BeginSave(d)

OnDisk == {file[d] : d \in Docs} \cup {tmp[d] : d \in Docs}
            \cup {save[h].ino : h \in Handlers}

(* open(tmp, "w"): the file of that name is made, or emptied, whoever else    *)
(* has it open.  The variant writes to the document itself.                   *)
OpenTmpMutant(h) ==
  /\ save[h].at = "open" /\ file[save[h].doc] # 0
  /\ LET d == save[h].doc
     IN  /\ disk' = [disk EXCEPT ![file[d]] = Empty]
         /\ tmp' = [tmp EXCEPT ![d] = file[d]]
         /\ save' = [save EXCEPT ![h].at = "first", ![h].ino = file[d]]
  /\ UNCHANGED <<file, expected, overlap, saves, job, faults>>

OpenTmp(h) ==
  LET d == save[h].doc
      ino == IF tmp[d] # 0 THEN tmp[d] ELSE CHOOSE i \in Inodes : i \notin OnDisk
  IN  /\ save[h].at = "open"
      /\ disk' = [disk EXCEPT ![ino] = Empty]
      /\ tmp' = [tmp EXCEPT ![d] = ino]
      /\ save' = [save EXCEPT ![h].at = "first", ![h].ino = ino]
      /\ UNCHANGED <<file, expected, overlap, saves, job, faults>>

Write(h) ==
  /\ \/ /\ save[h].at = "first"
        /\ disk' = [disk EXCEPT ![save[h].ino][1] = save[h].text]
        /\ save' = [save EXCEPT ![h].at = "second"]
     \/ /\ save[h].at = "second"
        /\ disk' = [disk EXCEPT ![save[h].ino][2] = save[h].text]
        /\ save' = [save EXCEPT ![h].at = "replace", ![h].ino = 0]
  /\ UNCHANGED <<file, tmp, expected, overlap, saves, job, faults>>

(* tmp.replace(target): no other saver may have taken the name away.          *)
Replace(h) ==
  LET d == save[h].doc
  IN  /\ save[h].at = "replace"
      /\ IF tmp[d] # 0
         THEN /\ file' = [file EXCEPT ![d] = tmp[d]]
              /\ tmp' = [tmp EXCEPT ![d] = 0]
              /\ save' = [save EXCEPT ![h].at = "answer"]
         ELSE save' = [save EXCEPT ![h].at = "unlink"] /\ UNCHANGED <<file, tmp>>
      /\ UNCHANGED <<disk, expected, overlap, saves, job, faults>>

(* An OSError of any of the three.                                            *)
CallFails(h) ==
  /\ save[h].at \in {"open", "first", "second", "replace"} /\ Fail
  /\ save' = [save EXCEPT ![h].at = "unlink", ![h].ino = 0]
  /\ UNCHANGED <<files, expected, overlap, saves, job>>

(* A text that UTF-8 has no code for, a lone surrogate: write raises before   *)
(* anything is written, and what it raises is no OSError.  The request ends   *)
(* with no answer and its <name>.tmp stays, empty.                            *)
EncodeFails(h) ==
  /\ save[h].at = "first"
  /\ save' = [save EXCEPT ![h] = NoSave]
  /\ UNCHANGED <<files, expected, overlap, saves, job, faults>>

(* The 500: what the document was before is what the saver believes it is.    *)
Unlink(h) ==
  /\ save[h].at = "unlink"
  /\ tmp' = [tmp EXCEPT ![save[h].doc] = 0]
  /\ expected' = [expected EXCEPT ![save[h].doc] = save[h].before]
  /\ save' = [save EXCEPT ![h] = NoSave]
  /\ UNCHANGED <<disk, file, overlap, saves, job, faults>>

(* The 200.                                                                   *)
AnswerSaved(h) ==
  /\ save[h].at = "answer"
  /\ expected' = [expected EXCEPT ![save[h].doc] = {save[h].text}]
  /\ save' = [save EXCEPT ![h] = NoSave]
  /\ UNCHANGED <<files, overlap, saves, job, faults>>

-----------------------------------------------------------------------------
(* Bakes.                                                                     *)

(* The id of a job is new.                                                    *)
Fresh == CHOOSE j \in Jobs \cup {Absent} :
           IF \E i \in Jobs : job[i].status = "none"
           THEN j \in Jobs /\ job[j].status = "none" ELSE j = Absent

(* _handle_post_bake: of a document on disk, or of a text that came with the  *)
(* request, in a scratch file of the job's.  The variant has one scratch file *)
(* for all.                                                                   *)
PostBakeMutant(j, inline) ==
  /\ j = Fresh
  /\ job' = [i \in Jobs |->
       IF i = j THEN [NoJob EXCEPT !.status = "running", !.baker = "start",
                        !.inline = inline, !.scratch = j]
       ELSE IF inline THEN [job[i] EXCEPT !.scratch = j] ELSE job[i]]
  /\ UNCHANGED <<files, saveVars, faults>>

PostBake(j, inline) ==
  /\ j = Fresh
  /\ job' = [job EXCEPT ![j] =
       [NoJob EXCEPT !.status = "running", !.baker = "start",
          !.inline = inline, !.scratch = IF inline THEN j ELSE Absent]]
  /\ UNCHANGED <<files, saveVars, faults>>

(* _run_job: the baker is started, or BakeJob.fail_to_start.                  *)
Spawn(j) ==
  /\ job[j].baker = "start"
  /\ \/ job' = [job EXCEPT ![j].baker = "bake"] /\ UNCHANGED faults
     \/ Fail /\ job' = [job EXCEPT ![j].baker = "ended", ![j].status = "error"]
  /\ UNCHANGED <<files, saveVars>>

(* bake_show.py reads its show once, at the start.                            *)
BakerReads(j) ==
  /\ job[j].baker = "bake" /\ job[j].read = Absent
  /\ \E d \in Existing :
       job' = [job EXCEPT ![j].read =
                 IF job[j].inline THEN job[j].scratch ELSE Whole(file[d])]
  /\ UNCHANGED <<files, saveVars, faults>>

(* ... and writes the cache and exits with 0, or fails, always so if the show *)
(* is not a document.  The variant does not look.                             *)
BakerExitsMutant(j) ==
  /\ job[j].baker = "bake" /\ job[j].read # Absent
  /\ job' = [job EXCEPT ![j].baker = "exit 0", ![j].cache = job[j].read]
  /\ UNCHANGED <<files, saveVars, faults>>

BakerExits(j) ==
  /\ job[j].baker = "bake" /\ job[j].read # Absent
  /\ \/ /\ job[j].read # Torn
        /\ job' = [job EXCEPT ![j].baker = "exit 0", ![j].cache = job[j].read]
        /\ UNCHANGED faults
     \/ /\ job[j].read = Torn \/ faults < MaxFaults
        /\ job' = [job EXCEPT ![j].baker = "exit 1"]
        /\ faults' = IF job[j].read = Torn THEN faults ELSE faults + 1
  /\ UNCHANGED <<files, saveVars>>

(* BakeJob.finish of a baker that failed.                                     *)
FinishError(j) ==
  /\ job[j].baker = "exit 1"
  /\ job' = [job EXCEPT ![j].baker = "ended", ![j].status = "error"]
  /\ UNCHANGED <<files, saveVars, faults>>

(* ... and of one that did not: the cache is read with no lock held, and may  *)
(* be gone.  One variant does not catch that; the other reports the job as    *)
(* done before it has looked.                                                 *)
FinishRaisesMutant(j) ==
  /\ job[j].baker = "exit 0"
  /\ \/ /\ job' = [job EXCEPT ![j].baker = "ended", ![j].status = "done",
                              ![j].summary = job[j].cache]
        /\ UNCHANGED faults
     \/ Fail /\ job' = [job EXCEPT ![j].baker = "ended"]
  /\ UNCHANGED <<files, saveVars>>

FinishEarlyMutant(j) ==
  /\ job[j].baker = "exit 0"
  /\ \/ /\ job[j].status = "running"
        /\ job' = [job EXCEPT ![j].status = "done"] /\ UNCHANGED faults
     \/ /\ job[j].status = "done" /\ Fail
        /\ job' = [job EXCEPT ![j].baker = "ended", ![j].status = "error"]
     \/ /\ job[j].status = "done" /\ UNCHANGED faults
        /\ job' = [job EXCEPT ![j].baker = "ended", ![j].summary = job[j].cache]
  /\ UNCHANGED <<files, saveVars>>

FinishDone(j) ==
  /\ job[j].baker = "exit 0"
  /\ \/ /\ job' = [job EXCEPT ![j].baker = "ended", ![j].status = "done",
                              ![j].summary = job[j].cache]
        /\ UNCHANGED faults
     \/ Fail /\ job' = [job EXCEPT ![j].baker = "ended", ![j].status = "error"]
  /\ UNCHANGED <<files, saveVars>>

(* What a poll is told, GET /api/bake/<id>; a job of an earlier server is     *)
(* unknown.                                                                   *)
Poll(j) ==
  [status |-> job[j].status, summary |-> job[j].summary,
   output |-> IF job[j].status = "done" THEN job[j].cache ELSE Absent]

-----------------------------------------------------------------------------
(* The server is killed and started again: its files stay as they are.        *)
ServerDies ==
  /\ Fail
  /\ save' = [h \in Handlers |-> NoSave] /\ job' = [j \in Jobs |-> NoJob]
  /\ UNCHANGED <<files, expected, overlap, saves>>

SaveStep(h) ==
  \/ OpenTmp(h) \/ Write(h) \/ Replace(h)
  \/ CallFails(h) \/ EncodeFails(h) \/ Unlink(h) \/ AnswerSaved(h)

JobStep(j) ==
  Spawn(j) \/ BakerReads(j) \/ BakerExits(j) \/ FinishError(j) \/ FinishDone(j)

EditorNext ==
  \/ \E d \in Docs : PostSave(d) \/ PostSaveSetlist(d)
  \/ \E h \in Handlers : SaveStep(h)
  \/ \E j \in Jobs :
       (\E inline \in BOOLEAN : PostBake(j, inline)) \/ JobStep(j)
  \/ ServerDies

(* Threads run, and a baker ends.                                             *)
EditorFairness ==
  /\ \A h \in Handlers : WF_editorVars(SaveStep(h))
  /\ \A j \in Jobs : WF_editorVars(JobStep(j))

EditorSpec == EditorInit /\ [][EditorNext]_editorVars /\ EditorFairness

-----------------------------------------------------------------------------
(* "An interrupted save cannot truncate a show someone is performing from":   *)
(* as long as no two saves of a document have overlapped, the document is     *)
(* whole whatever has failed or died, and holds the text of the last save     *)
(* that was answered 200, or of a later one that nobody has answered.         *)
SavesHold ==
  \A d \in Docs \ overlap : Whole(file[d]) \in expected[d]

(* A job that reports "done" has a summary, read off the cache of the very    *)
(* show it was asked to bake, and that was a whole document.                  *)
DoneIsBaked ==
  \A j \in Jobs :
    Poll(j).status = "done" =>
      /\ Poll(j).summary = job[j].read /\ Poll(j).output = job[j].read
      /\ Poll(j).output \in IF job[j].inline THEN {j} ELSE Written

(* A poll that has seen a job end never sees it run again or end otherwise.   *)
JobEndsOnce ==
  [][\A j \in Jobs :
       Poll(j).status \in {"done", "error"}
         => Poll(j)'.status \in {Poll(j).status, "none"}]_editorVars

(* Every job ends: its baker may fail to start, fail, or leave no cache, and  *)
(* the saves of its show may do what they like.  (The baker ends, and says    *)
(* what it says in UTF-8.)                                                    *)
EveryJobEnds ==
  \A j \in Jobs : (job[j].status = "running") ~> (job[j].status # "running")

=============================================================================
