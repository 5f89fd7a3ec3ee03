----------------------------- MODULE EditorProofs -----------------------------
(***************************************************************************)
(* Theorems about EditorServer, for any number of request threads,         *)
(* documents, texts, jobs and faults.                                      *)
(***************************************************************************)
EXTENDS EditorServer, FiniteSetTheorems, TLAPS

SaveType ==
  [at : {"idle", "open", "first", "second", "replace", "unlink", "answer"},
   doc : Docs \cup {"none"}, text : Range(Texts) \cup {Absent},
   ino : Inodes \cup {0}, before : SUBSET (Written \cup {Absent})]

JobType ==
  [status : {"none", "running", "done", "error"},
   baker : {"off", "start", "bake", "exit 0", "exit 1", "ended"},
   inline : BOOLEAN, scratch : Jobs \cup {Absent},
   read : Jobs \cup Written \cup {Absent, Torn},
   cache : Jobs \cup Written \cup {Absent},
   summary : Jobs \cup Written \cup {Absent}]

FilesOK ==
  /\ disk \in [Inodes -> [Chunks -> Written \cup {Absent}]]
  /\ file \in [Docs -> Inodes \cup {0}] /\ tmp \in [Docs -> Inodes \cup {0}]

SavesOK ==
  /\ save \in [Handlers -> SaveType]
  /\ expected \in [Docs -> SUBSET (Written \cup {Absent})]
  /\ overlap \subseteq Docs /\ saves \in 0..Len(Texts)

LEMMA TypeParts ==
  EditorTypeOK <=>
    FilesOK /\ SavesOK /\ job \in [Jobs -> JobType] /\ faults \in 0..MaxFaults
BY DEF EditorTypeOK, FilesOK, SavesOK, SaveType, JobType

-----------------------------------------------------------------------------
LEMMA Constants ==
  /\ IsFiniteSet(Docs) /\ IsFiniteSet(Handlers) /\ Existing \subseteq Docs
  /\ Cardinality(Docs) \in Nat /\ Cardinality(Handlers) \in Nat
  /\ "none" \notin Docs /\ 0 \notin Inodes
  /\ Absent \notin Range(Texts) \cup Jobs /\ Torn \notin Range(Texts) \cup Jobs
  /\ Absent \notin Written /\ Torn \notin Written \cup {Absent}
<1>1. Absent \notin Range(Texts) \cup Jobs /\ Torn \notin Range(Texts) \cup Jobs
  BY EditorAssumption
<1>2. Absent # Original /\ Torn # Original /\ Torn # Absent
  BY DEF Absent, Original, Torn
<1>3. Absent \notin Written /\ Torn \notin Written \cup {Absent}
  BY <1>1, <1>2 DEF Written
<1>4. 0 \notin Inodes
  BY DEF Inodes
<1> QED
  BY <1>1, <1>3, <1>4, EditorAssumption, FS_CardinalityType

LEMMA NextText ==
  ASSUME saves \in 0..Len(Texts), saves < Len(Texts)
  PROVE  Texts[saves + 1] \in Range(Texts) /\ saves + 1 \in 0..Len(Texts)
<1>1. Texts \in Seq(Range(Texts)) /\ Len(Texts) \in Nat
  BY EditorAssumption
<1>2. saves + 1 \in 1..Len(Texts) /\ saves + 1 \in 0..Len(Texts)
  BY <1>1
<1>3. DOMAIN Texts = 1..Len(Texts)
  BY <1>1
<1>4. Texts[saves + 1] \in Range(Texts)
  BY <1>2, <1>3 DEF Range
<1> QED
  BY <1>2, <1>4

LEMMA ImageSize ==
  ASSUME NEW S, IsFiniteSet(S), NEW R, NEW f \in [S -> R],
         \A r \in R : \E x \in S : f[x] = r
  PROVE  IsFiniteSet(R) /\ Cardinality(R) \in Nat /\ Cardinality(R) <= Cardinality(S)
<1>1. f \in Surjection(S, R)
  BY DEF Surjection
<1>2. IsFiniteSet(R) /\ Cardinality(R) <= Cardinality(S)
  BY <1>1, FS_Surjection
<1> QED
  BY <1>2, FS_CardinalityType

LEMMA UnionSize ==
  ASSUME NEW S, IsFiniteSet(S), NEW T, IsFiniteSet(T)
  PROVE  /\ IsFiniteSet(S \cup T) /\ Cardinality(S \cup T) \in Nat
         /\ Cardinality(S \cup T) <= Cardinality(S) + Cardinality(T)
<1>1. IsFiniteSet(S \cap T)
  <2>1. S \cap T \in SUBSET S
    OBVIOUS
  <2> QED
    BY <2>1, FS_Subset
<1>2. /\ Cardinality(S) \in Nat /\ Cardinality(T) \in Nat
      /\ Cardinality(S \cap T) \in Nat /\ Cardinality(S \cup T) \in Nat
      /\ IsFiniteSet(S \cup T)
  BY <1>1, FS_CardinalityType, FS_Union
<1>3. Cardinality(S \cup T) = Cardinality(S) + Cardinality(T) - Cardinality(S \cap T)
  BY FS_Union
<1> QED
  BY <1>2, <1>3

(* There are inodes enough: a name that is missing leaves one free.           *)
LEMMA FreeInode ==
  ASSUME FilesOK, SavesOK, NEW d \in Docs, tmp[d] = 0
  PROVE  \E i \in Inodes : i \notin OnDisk
<1> DEFINE others == Docs \ {d}
           inos == [h \in Handlers |-> save[h].ino]
           left == [e \in others |-> tmp[e]]
           A == {file[e] : e \in Docs}
           B == {left[e] : e \in others}
           C == {inos[h] : h \in Handlers}
           n == Cardinality(Docs)
           m == Cardinality(Handlers)
<1> SUFFICES ASSUME \A i \in Inodes : i \in OnDisk
             PROVE  FALSE
  OBVIOUS
<1>1. Inodes \in SUBSET ((A \cup B) \cup C)
  BY Constants DEF OnDisk
<1>2. n \in Nat /\ m \in Nat /\ IsFiniteSet(Docs) /\ IsFiniteSet(Handlers)
  BY Constants
<1>3. IsFiniteSet(others) /\ Cardinality(others) = n - 1
  BY <1>2, FS_RemoveElement
<1>4. IsFiniteSet(A) /\ Cardinality(A) \in Nat /\ Cardinality(A) <= n
  <2>1. file \in [Docs -> A] /\ \A i \in A : \E x \in Docs : file[x] = i
    BY DEF FilesOK
  <2> HIDE DEF A
  <2> QED
    BY <1>2, <1>3, <2>1, ImageSize
<1>5. IsFiniteSet(B) /\ Cardinality(B) \in Nat /\ Cardinality(B) <= n - 1
  <2>1. left \in [others -> B] /\ \A i \in B : \E x \in others : left[x] = i
    BY DEF FilesOK
  <2> HIDE DEF B, left, others
  <2> QED
    BY <1>2, <1>3, <2>1, ImageSize
<1>6. IsFiniteSet(C) /\ Cardinality(C) \in Nat /\ Cardinality(C) <= m
  <2>1. inos \in [Handlers -> C] /\ \A i \in C : \E x \in Handlers : inos[x] = i
    BY DEF FilesOK
  <2> HIDE DEF C, inos
  <2> QED
    BY <1>2, <1>3, <2>1, ImageSize
<1> HIDE DEF A, B, C, n, m
<1>7. /\ IsFiniteSet(A \cup B) /\ Cardinality(A \cup B) \in Nat
      /\ Cardinality(A \cup B) <= Cardinality(A) + Cardinality(B)
  BY <1>4, <1>5, UnionSize
<1>8. /\ IsFiniteSet((A \cup B) \cup C) /\ Cardinality((A \cup B) \cup C) \in Nat
      /\ Cardinality((A \cup B) \cup C) <= Cardinality(A \cup B) + Cardinality(C)
  BY <1>6, <1>7, UnionSize
<1>9. Cardinality(Inodes) <= Cardinality((A \cup B) \cup C)
  BY <1>1, <1>8, FS_Subset
<1>10. Cardinality(Inodes) = 2 * n + m
  <2>1. 1 \in Int /\ 2 * n + m \in Int /\ 2 * n + m >= 0
    BY <1>2
  <2>2. Cardinality(1..(2 * n + m)) = 2 * n + m
    BY <2>1, FS_Interval
  <2> QED
    BY <2>2 DEF Inodes, n, m
<1>11. 2 * n + m <= n + (n - 1) + m
  BY <1>2, <1>4, <1>5, <1>6, <1>7, <1>8, <1>9, <1>10
<1> QED
  BY <1>2, <1>11

-----------------------------------------------------------------------------
(* Every document that is there at first can have an inode of its own.        *)
FirstFiles(f) ==
  /\ \A d \in Docs : (f[d] # 0) <=> d \in Existing
  /\ \A d, e \in Existing : f[d] = f[e] => d = e

LEMMA SomeFirstFiles == \E f \in [Docs -> Inodes \cup {0}] : FirstFiles(f)
<1> DEFINE k == Cardinality(Existing)
<1>1. Existing \in SUBSET Docs /\ IsFiniteSet(Docs)
  BY Constants
<1>2. IsFiniteSet(Existing) /\ k <= Cardinality(Docs)
  BY <1>1, FS_Subset
<1>3. k \in Nat /\ ExistsBijection(1..k, Existing)
  BY <1>2, FS_CardinalityType
<1>4. PICK b : b \in Bijection(1..k, Existing)
  BY <1>3 DEF ExistsBijection
<1>5. b \in [1..k -> Existing] /\ \A d \in Existing : \E i \in 1..k : b[i] = d
  BY <1>4 DEF Bijection, Injection, Surjection
<1>6. \A i \in 1..k : i \in Inodes /\ i # 0
  BY <1>2, <1>3, Constants DEF Inodes
<1> HIDE DEF k
<1> DEFINE f == [d \in Docs |-> IF d \in Existing
                                 THEN CHOOSE i \in 1..k : b[i] = d ELSE 0]
<1>7. \A d \in Existing : f[d] \in 1..k /\ b[f[d]] = d
  BY <1>1, <1>5
<1>8. \A d \in Docs \ Existing : f[d] = 0
  OBVIOUS
<1>9. f \in [Docs -> Inodes \cup {0}]
  BY <1>6, <1>7, <1>8
<1> HIDE DEF f
<1>10. FirstFiles(f)
  BY <1>1, <1>6, <1>7, <1>8 DEF FirstFiles
<1> QED
  BY <1>9, <1>10

LEMMA InitTypes ==
  ASSUME EditorInit
  PROVE  EditorTypeOK /\ FirstFiles(file)
<1>1. file = CHOOSE f \in [Docs -> Inodes \cup {0}] : FirstFiles(f)
  BY DEF EditorInit, FirstFiles
<1>2. file \in [Docs -> Inodes \cup {0}] /\ FirstFiles(file)
  BY <1>1, SomeFirstFiles
<1>3. FilesOK
  BY <1>2 DEF EditorInit, FilesOK, Written
<1>4. SavesOK
  <2>1. NoSave \in SaveType
    BY DEF NoSave, SaveType
  <2>2. Len(Texts) \in Nat
    BY EditorAssumption
  <2> QED
    BY <2>1, <2>2 DEF EditorInit, SavesOK, Written
<1>5. job \in [Jobs -> JobType]
  <2>1. NoJob \in JobType
    BY DEF NoJob, JobType
  <2> QED
    BY <2>1 DEF EditorInit
<1>6. faults \in 0..MaxFaults
  BY EditorAssumption DEF EditorInit
<1> QED
  BY <1>2, <1>3, <1>4, <1>5, <1>6, TypeParts

LEMMA FailTypes ==
  ASSUME faults \in 0..MaxFaults, Fail
  PROVE  faults' \in 0..MaxFaults
BY EditorAssumption DEF Fail

-----------------------------------------------------------------------------
(* What the actions of a save do, one at a time.                              *)
LEMMA BeginStep ==
  ASSUME EditorTypeOK, NEW d \in Docs, BeginSave(d)
  PROVE  \E h \in Handlers, text \in Range(Texts) :
           /\ save[h].at = "idle" /\ save' = [save EXCEPT ![h] =
                [at |-> "open", doc |-> d, text |-> text, ino |-> 0,
                 before |-> expected[d]]]
           /\ expected' = [expected EXCEPT ![d] = @ \cup {text}]
           /\ overlap' = IF \E g \in Handlers : save[g].doc = d
                         THEN overlap \cup {d} ELSE overlap
           /\ saves' \in 0..Len(Texts) /\ UNCHANGED <<files, job, faults>>
<1> DEFINE idle == {h \in Handlers : save[h].at = "idle"}
           h == CHOOSE h \in idle : TRUE
<1>1. idle # {} /\ saves < Len(Texts)
  BY DEF BeginSave
<1>2. h \in idle
  BY <1>1
<1>3. Texts[saves + 1] \in Range(Texts) /\ saves + 1 \in 0..Len(Texts)
  BY <1>1, NextText DEF EditorTypeOK
<1>4. /\ save' = [save EXCEPT ![h] =
           [at |-> "open", doc |-> d, text |-> Texts[saves + 1], ino |-> 0,
            before |-> expected[d]]]
      /\ expected' = [expected EXCEPT ![d] = @ \cup {Texts[saves + 1]}]
      /\ overlap' = IF \E g \in Handlers : save[g].doc = d
                    THEN overlap \cup {d} ELSE overlap
      /\ saves' = saves + 1 /\ UNCHANGED <<files, job, faults>>
  BY DEF BeginSave
<1> HIDE DEF h
<1> QED
  BY <1>2, <1>3, <1>4

LEMMA OpenStep ==
  ASSUME EditorTypeOK, NEW h \in Handlers, save[h].doc \in Docs, OpenTmp(h)
  PROVE  \E ino \in Inodes :
           /\ tmp[save[h].doc] = ino \/ (tmp[save[h].doc] = 0 /\ ino \notin OnDisk)
           /\ disk' = [disk EXCEPT ![ino] = Empty]
           /\ tmp' = [tmp EXCEPT ![save[h].doc] = ino]
           /\ save' = [save EXCEPT ![h].at = "first", ![h].ino = ino]
<1> DEFINE d == save[h].doc
           free == CHOOSE i \in Inodes : i \notin OnDisk
           ino == IF tmp[d] # 0 THEN tmp[d] ELSE free
<1>1. FilesOK /\ SavesOK
  BY TypeParts
<1>2. tmp[d] = 0 => free \in Inodes /\ free \notin OnDisk
  BY <1>1, FreeInode
<1>3. /\ disk' = [disk EXCEPT ![ino] = Empty]
      /\ tmp' = [tmp EXCEPT ![d] = ino]
      /\ save' = [save EXCEPT ![h].at = "first", ![h].ino = ino]
  BY DEF OpenTmp
<1> HIDE DEF free
<1>4. ino \in Inodes
  BY <1>1, <1>2 DEF FilesOK
<1>5. tmp[d] = ino \/ (tmp[d] = 0 /\ ino \notin OnDisk)
  BY <1>2
<1> HIDE DEF ino
<1> QED
  BY <1>3, <1>4, <1>5

-----------------------------------------------------------------------------
(* A job runs until its baker has ended, bakes what came with its request or  *)
(* a document, and is done with what it read.                                 *)
Sound(j, r) ==
  /\ r \in JobType
  /\ r.baker \in {"start", "bake", "exit 0", "exit 1"} => r.status = "running"
  /\ r.inline => r.scratch = j
  /\ r.read = Absent \/ (IF r.inline THEN r.read = j ELSE r.read \in Written \cup {Torn})
  /\ r.baker = "exit 0" => r.cache = r.read /\ r.read \notin {Absent, Torn}
  /\ r.status = "done" =>
       /\ r.summary = r.read /\ r.cache = r.read /\ r.read \notin {Absent, Torn}

Baked == job \in [Jobs -> JobType] /\ \A j \in Jobs : Sound(j, job[j])

(* What one step does to a job: it is the only one, and one that has ended    *)
(* stays as it is.                                                            *)
JobChanges(j, r) ==
  /\ job' = [job EXCEPT ![j] = r] /\ Sound(j, r)
  /\ job[j].status \in {"done", "error"} => r.status = job[j].status

LEMMA BakedStep ==
  ASSUME Baked, NEW j \in Jobs, NEW r, JobChanges(j, r)
  PROVE  Baked'
<1>1. r \in JobType /\ job' = [job EXCEPT ![j] = r] /\ Sound(j, r)
  BY DEF JobChanges, Sound
<1>2. job' \in [Jobs -> JobType]
  BY <1>1 DEF Baked
<1>3. \A i \in Jobs : job'[i] = IF i = j THEN r ELSE job[i]
  BY <1>1 DEF Baked
<1>4. \A i \in Jobs : Sound(i, job'[i])
  BY <1>1, <1>3 DEF Baked
<1>5. (\A i \in Jobs : Sound(i, job[i]))' <=> \A i \in Jobs : Sound(i, job'[i])
  BY DEF Sound, JobType
<1> QED
  BY <1>2, <1>4, <1>5 DEF Baked, JobType

LEMMA WholeType ==
  ASSUME FilesOK, NEW i \in Inodes \cup {0}
  PROVE  /\ Whole(i) \in Written \cup {Absent, Torn}
         /\ i # 0 => Whole(i) # Absent
BY Constants DEF FilesOK, Whole, Chunks

LEMMA FreshJob ==
  ASSUME NEW j \in Jobs, j = Fresh
  PROVE  job[j].status = "none"
<1>1. Absent \notin Jobs
  BY Constants
<1> QED
  BY <1>1 DEF Fresh

LEMMA NewJob ==
  ASSUME NEW i, NEW s
  PROVE  [NoJob EXCEPT !.status = "running", !.baker = "start",
            !.inline = i, !.scratch = s]
         = [status |-> "running", baker |-> "start", inline |-> i,
            scratch |-> s, read |-> Absent, cache |-> Absent, summary |-> Absent]
<1> DEFINE of(st, b, n, sc) ==
             [status |-> st, baker |-> b, inline |-> n, scratch |-> sc,
              read |-> Absent, cache |-> Absent, summary |-> Absent]
<1>1. ASSUME NEW n
      PROVE  [of("none", "off", n, Absent) EXCEPT
                !.status = "running", !.baker = "start", !.inline = i, !.scratch = s]
             = of("running", "start", i, s)
  <2>1. [of("none", "off", n, Absent) EXCEPT !.status = "running"]
          = of("running", "off", n, Absent)
    OBVIOUS
  <2>2. [of("running", "off", n, Absent) EXCEPT !.baker = "start"]
          = of("running", "start", n, Absent)
    OBVIOUS
  <2>3. [of("running", "start", n, Absent) EXCEPT !.inline = i]
          = of("running", "start", i, Absent)
    OBVIOUS
  <2>4. [of("running", "start", i, Absent) EXCEPT !.scratch = s]
          = of("running", "start", i, s)
    OBVIOUS
  <2> HIDE DEF of
  <2> QED
    BY <2>1, <2>2, <2>3, <2>4, Zenon
<1>2. NoJob = of("none", "off", FALSE, Absent)
  BY DEF NoJob
<1> HIDE DEF of
<1>3. [NoJob EXCEPT !.status = "running", !.baker = "start",
            !.inline = i, !.scratch = s] = of("running", "start", i, s)
  BY <1>1, <1>2, Zenon
<1> QED
  BY <1>3 DEF of

LEMMA PostBakeChanges ==
  ASSUME Baked, NEW j \in Jobs, NEW inline \in BOOLEAN, PostBake(j, inline)
  PROVE  \E r : JobChanges(j, r)
<1>1. PICK scratch : /\ scratch = IF inline THEN j ELSE Absent
                     /\ scratch \in Jobs \cup {Absent}
  OBVIOUS
<1> DEFINE r == [status |-> "running", baker |-> "start", inline |-> inline,
                 scratch |-> scratch, read |-> Absent,
                 cache |-> Absent, summary |-> Absent]
<1>2. job' = [job EXCEPT ![j] = r]
  <2>1. [NoJob EXCEPT !.status = "running", !.baker = "start",
            !.inline = inline, !.scratch = scratch] = r
    BY NewJob
  <2> QED
    BY <1>1, <2>1 DEF PostBake
<1>3. r \in JobType
  BY <1>1 DEF JobType
<1>4. Sound(j, r)
  BY <1>1, <1>3 DEF Sound
<1>5. job[j].status = "none"
  BY FreshJob DEF PostBake
<1> QED
  BY <1>2, <1>4, <1>5 DEF JobChanges

LEMMA JobStepChanges ==
  ASSUME FilesOK, Baked, NEW j \in Jobs, JobStep(j)
  PROVE  \E r : JobChanges(j, r)
<1> DEFINE old == job[j]
<1>1. /\ old \in JobType /\ Sound(j, old) /\ job \in [Jobs -> JobType]
      /\ Absent \notin Jobs /\ Torn \notin Jobs
  BY Constants DEF Baked
<1>2. old.status \in {"done", "error"} =>
        old.baker \notin {"start", "bake", "exit 0", "exit 1"}
  BY <1>1 DEF Sound
<1>3. CASE Spawn(j)
  <2>1. CASE job' = [job EXCEPT ![j].baker = "bake"]
    <3> DEFINE r == [old EXCEPT !.baker = "bake"]
    <3>1. r \in JobType /\ Sound(j, r)
      BY <1>1, <1>3 DEF Sound, JobType, Spawn
    <3>2. job' = [job EXCEPT ![j] = r]
      BY <1>1, <2>1
    <3> QED
      BY <1>2, <1>3, <3>1, <3>2 DEF JobChanges, Spawn
  <2>2. CASE job' = [job EXCEPT ![j].baker = "ended", ![j].status = "error"]
    <3> DEFINE r == [old EXCEPT !.baker = "ended", !.status = "error"]
    <3>1. r \in JobType /\ Sound(j, r)
      BY <1>1, <1>3 DEF Sound, JobType, Spawn
    <3>2. job' = [job EXCEPT ![j] = r]
      BY <1>1, <2>2
    <3> QED
      BY <1>2, <1>3, <3>1, <3>2 DEF JobChanges, Spawn
  <2> QED
    BY <1>3, <2>1, <2>2 DEF Spawn
<1>4. CASE BakerReads(j)
  <2>1. PICK d \in Existing :
          job' = [job EXCEPT ![j].read =
                    IF old.inline THEN old.scratch ELSE Whole(file[d])]
    BY <1>4 DEF BakerReads
  <2> DEFINE v == IF old.inline THEN old.scratch ELSE Whole(file[d])
             r == [old EXCEPT !.read = v]
  <2>2. Whole(file[d]) \in Written \cup {Absent, Torn}
    BY WholeType, Constants DEF FilesOK
  <2>3. v \in Jobs \cup Written \cup {Absent, Torn}
    BY <1>1, <2>2 DEF JobType
  <2>4. v = Absent \/ (IF old.inline THEN v = j ELSE v \in Written \cup {Torn})
    BY <1>1, <2>2 DEF Sound
  <2>5. job' = [job EXCEPT ![j] = r]
    BY <1>1, <2>1
  <2>6. old.baker = "bake"
    BY <1>4 DEF BakerReads
  <2> HIDE DEF v
  <2>7. r \in JobType /\ Sound(j, r)
    BY <1>1, <2>3, <2>4, <2>6 DEF Sound, JobType
  <2> QED
    BY <1>2, <2>5, <2>6, <2>7 DEF JobChanges
<1>5. CASE BakerExits(j)
  <2>1. CASE old.read # Torn
             /\ job' = [job EXCEPT ![j].baker = "exit 0", ![j].cache = old.read]
    <3> DEFINE r == [old EXCEPT !.baker = "exit 0", !.cache = old.read]
    <3>1. r \in JobType /\ Sound(j, r)
      BY <1>1, <1>5, <2>1 DEF Sound, JobType, BakerExits
    <3>2. job' = [job EXCEPT ![j] = r]
      BY <1>1, <2>1
    <3> QED
      BY <1>2, <1>5, <3>1, <3>2 DEF JobChanges, BakerExits
  <2>2. CASE job' = [job EXCEPT ![j].baker = "exit 1"]
    <3> DEFINE r == [old EXCEPT !.baker = "exit 1"]
    <3>1. r \in JobType /\ Sound(j, r)
      BY <1>1, <1>5 DEF Sound, JobType, BakerExits
    <3>2. job' = [job EXCEPT ![j] = r]
      BY <1>1, <2>2
    <3> QED
      BY <1>2, <1>5, <3>1, <3>2 DEF JobChanges, BakerExits
  <2> QED
    BY <1>5, <2>1, <2>2 DEF BakerExits
<1>6. CASE \/ FinishError(j)
           \/ FinishDone(j) /\ job' = [job EXCEPT ![j].baker = "ended", ![j].status = "error"]
  <2> DEFINE r == [old EXCEPT !.baker = "ended", !.status = "error"]
  <2>1. old.baker \in {"exit 0", "exit 1"} /\ job' = [job EXCEPT ![j] = r]
    BY <1>1, <1>6 DEF FinishError, FinishDone
  <2>2. r \in JobType /\ Sound(j, r)
    BY <1>1, <2>1 DEF Sound, JobType
  <2> QED
    BY <1>2, <2>1, <2>2 DEF JobChanges
<1>7. CASE /\ FinishDone(j)
           /\ job' = [job EXCEPT ![j].baker = "ended", ![j].status = "done",
                                 ![j].summary = old.cache]
  <2> DEFINE r == [old EXCEPT !.baker = "ended", !.status = "done", !.summary = old.cache]
  <2>1. old.baker = "exit 0" /\ job' = [job EXCEPT ![j] = r]
    BY <1>1, <1>7 DEF FinishDone
  <2>2. r \in JobType /\ Sound(j, r)
    BY <1>1, <2>1 DEF Sound, JobType
  <2> QED
    BY <1>2, <2>1, <2>2 DEF JobChanges
<1>8. FinishDone(j) =>
        \/ job' = [job EXCEPT ![j].baker = "ended", ![j].status = "error"]
        \/ job' = [job EXCEPT ![j].baker = "ended", ![j].status = "done",
                              ![j].summary = old.cache]
  BY DEF FinishDone
<1> QED
  BY <1>3, <1>4, <1>5, <1>6, <1>7, <1>8 DEF JobStep

-----------------------------------------------------------------------------
(* A save has a document while it is under way, and its open file, an inode,  *)
(* from when it has opened it until it has written it.                        *)
Tidy ==
  \A h \in Handlers :
    /\ (save[h].at = "idle") <=> (save[h].doc = "none")
    /\ (save[h].at \in {"first", "second"}) <=> (save[h].ino # 0)
    /\ save[h].at # "idle" => save[h].text \in Range(Texts)

(* No inode has two names, and one that is open has none of another document. *)
Apart ==
  /\ \A d, e \in Docs :
       /\ file[d] = file[e] => d = e \/ file[d] = 0
       /\ tmp[d] = tmp[e] => d = e \/ tmp[d] = 0
       /\ file[d] = tmp[e] => file[d] = 0
  /\ \A h \in Handlers, d \in Docs :
       save[h].ino # 0 /\ save[h].ino \in {file[d], tmp[d]} => save[h].doc = d

(* Where no two saves have overlapped there is one at a time, and the file it *)
(* has open is the one it is going to rename.                                 *)
OnItsWay(h) ==
  LET d == save[h].doc
  IN  /\ \A g \in Handlers : save[g].doc = d => g = h
      /\ save[h].at \in {"first", "second", "replace"} => tmp[d] # 0
      /\ save[h].at \in {"first", "second"} => save[h].ino = tmp[d]
      /\ save[h].at \in {"second", "replace"} => disk[tmp[d]][1] = save[h].text
      /\ save[h].at = "replace" => disk[tmp[d]][2] = save[h].text

(* Its document is what it was before, or what it has saved.                  *)
Told(h) ==
  LET d == save[h].doc
  IN  /\ save[h].text \in expected[d] /\ save[h].before \subseteq expected[d]
      /\ IF save[h].at = "answer" THEN Whole(file[d]) = save[h].text
         ELSE Whole(file[d]) \in save[h].before

Calm ==
  \A h \in Handlers :
    save[h].doc \in Docs \ overlap => OnItsWay(h) /\ Told(h)

Stored == FilesOK /\ SavesOK /\ Tidy /\ Apart /\ Calm /\ SavesHold

LEMMA CalmWhole ==
  ASSUME Stored, NEW h \in Handlers, save[h].doc \in Docs \ overlap
  PROVE  Whole(file[save[h].doc]) \in expected[save[h].doc]
BY DEF Stored, Calm, Told

-----------------------------------------------------------------------------
LEMMA BeginStored ==
  ASSUME EditorTypeOK, Stored, NEW d \in Docs, BeginSave(d)
  PROVE  Stored'
<1>1. PICK h \in Handlers, text \in Range(Texts) :
        /\ save[h].at = "idle" /\ save' = [save EXCEPT ![h] =
             [at |-> "open", doc |-> d, text |-> text, ino |-> 0,
              before |-> expected[d]]]
        /\ expected' = [expected EXCEPT ![d] = @ \cup {text}]
        /\ overlap' = IF \E g \in Handlers : save[g].doc = d
                      THEN overlap \cup {d} ELSE overlap
        /\ saves' \in 0..Len(Texts) /\ UNCHANGED <<files, job, faults>>
  BY BeginStep
<1> DEFINE r == [at |-> "open", doc |-> d, text |-> text, ino |-> 0,
                 before |-> expected[d]]
<1>2. UNCHANGED <<disk, file, tmp>>
  BY <1>1 DEF files
<1>3. /\ save' = [save EXCEPT ![h] = r] /\ save \in [Handlers -> SaveType]
      /\ r \in SaveType
  BY <1>1 DEF Stored, SavesOK, SaveType
<1>4. save'[h] = r /\ \A g \in Handlers : g # h => save'[g] = save[g]
  BY <1>3
<1>5. /\ expected'[d] = expected[d] \cup {text}
      /\ \A e \in Docs : e # d => expected'[e] = expected[e]
  BY <1>1 DEF Stored, SavesOK
<1>6. overlap \subseteq overlap' /\ overlap' \subseteq Docs
  BY <1>1 DEF Stored, SavesOK
<1>7. FilesOK'
  BY <1>2 DEF Stored, FilesOK
<1>8. SavesOK'
  <2>1. save' \in [Handlers -> SaveType]
    BY <1>3
  <2>2. expected' \in [Docs -> SUBSET (Written \cup {Absent})]
    BY <1>1 DEF Stored, SavesOK, Written
  <2> QED
    BY <1>1, <1>6, <2>1, <2>2 DEF SavesOK, SaveType
<1>9. Tidy'
  BY <1>1, <1>4, Constants DEF Stored, Tidy
<1>10. Apart'
  BY <1>2, <1>4 DEF Stored, Apart
<1>11. \A e \in Docs : Whole(file[e])' = Whole(file[e])
  BY <1>2 DEF Whole
<1>12. SavesHold'
  BY <1>5, <1>6, <1>11 DEF Stored, SavesHold
<1>13. Calm'
  <2> SUFFICES ASSUME NEW g \in Handlers, save'[g].doc \in Docs \ overlap'
               PROVE  OnItsWay(g)' /\ Told(g)'
    BY DEF Calm
  <2>1. CASE g = h
    <3>1. \A k \in Handlers : save[k].doc # d
      BY <1>1, <1>4, <2>1
    <3>2. OnItsWay(g)'
      BY <1>4, <2>1, <3>1 DEF OnItsWay
    <3>3. Whole(file[d]) \in expected[d]
      BY <1>4, <1>6, <2>1 DEF Stored, SavesHold
    <3> QED
      BY <1>4, <1>5, <1>11, <2>1, <3>2, <3>3 DEF Told
  <2>2. CASE g # h
    <3>1. save'[g] = save[g] /\ save[g].doc \in Docs \ overlap
      BY <1>4, <1>6, <2>2
    <3>2. save[g].doc # d
      BY <1>1, <3>1
    <3>3. OnItsWay(g) /\ Told(g)
      BY <3>1 DEF Stored, Calm
    <3>4. OnItsWay(g)'
      BY <1>2, <1>4, <3>1, <3>2, <3>3 DEF OnItsWay
    <3> QED
      BY <1>5, <1>11, <3>1, <3>2, <3>3, <3>4 DEF Told
  <2> QED
    BY <2>1, <2>2
<1> QED
  BY <1>7, <1>8, <1>9, <1>10, <1>12, <1>13 DEF Stored

-----------------------------------------------------------------------------
(* A step of a save whose effects stay with its document.                     *)
Local(h, d, r) ==
  /\ save' = [save EXCEPT ![h] = r]
  /\ save[h].doc = d /\ r.doc \in {d, "none"} /\ r \in SaveType
  /\ \A e \in Docs \ {d} :
       /\ file'[e] = file[e] /\ tmp'[e] = tmp[e] /\ expected'[e] = expected[e]
       /\ \A i \in {file[e], tmp[e]} \ {0} : disk'[i] = disk[i]
  /\ overlap' = overlap /\ saves' = saves

LEMMA LocalStored ==
  ASSUME Stored, NEW h \in Handlers, NEW d \in Docs, NEW r, Local(h, d, r),
         FilesOK', expected' \in [Docs -> SUBSET (Written \cup {Absent})], Apart',
         (r.at = "idle") <=> (r.doc = "none"),
         (r.at \in {"first", "second"}) <=> (r.ino # 0),
         r.at # "idle" => r.text \in Range(Texts),
         d \notin overlap => Whole(file[d])' \in expected'[d],
         d \notin overlap /\ r.doc = d => OnItsWay(h)' /\ Told(h)'
  PROVE  Stored'
<1>1. /\ save' = [save EXCEPT ![h] = r] /\ r \in SaveType
      /\ save[h].doc = d /\ r.doc \in {d, "none"}
      /\ overlap' = overlap /\ saves' = saves
  BY DEF Local
<1>2. save'[h] = r /\ \A g \in Handlers : g # h => save'[g] = save[g]
  BY <1>1 DEF Stored, SavesOK
<1>3. \A e \in Docs \ {d} :
        file'[e] = file[e] /\ tmp'[e] = tmp[e] /\ expected'[e] = expected[e]
  BY DEF Local
<1>4. \A e \in Docs \ {d} : \A i \in {file[e], tmp[e]} \ {0} : disk'[i] = disk[i]
  BY DEF Local
<1>5. \A e \in Docs \ {d} : Whole(file[e])' = Whole(file[e])
  BY <1>3, <1>4 DEF Whole
<1>6. SavesOK'
  BY <1>1 DEF Stored, SavesOK, SaveType
<1>7. Tidy'
  BY <1>2 DEF Stored, Tidy
<1>8. SavesHold'
  BY <1>1, <1>3, <1>5 DEF Stored, SavesHold
<1>9. ASSUME NEW g \in Handlers, g # h, save'[g].doc \in Docs \ overlap'
      PROVE  OnItsWay(g)' /\ Told(g)'
  <2>1. /\ save'[g] = save[g] /\ save[g].doc \in Docs \ overlap
        /\ OnItsWay(g) /\ Told(g)
    BY <1>1, <1>2, <1>9 DEF Stored, Calm
  <2>2. save[g].doc # d
    BY <1>1, <1>9, <2>1 DEF OnItsWay
  <2> DEFINE e == save[g].doc
  <2>3. /\ file'[e] = file[e] /\ tmp'[e] = tmp[e] /\ expected'[e] = expected[e]
        /\ Whole(file[e])' = Whole(file[e])
        /\ tmp[e] # 0 => disk'[tmp[e]] = disk[tmp[e]]
    BY <1>3, <1>4, <1>5, <2>1, <2>2
  <2>4. \A k \in Handlers : save'[k].doc = e => k = g
    BY <1>1, <1>2, <2>1, <2>2, Constants DEF OnItsWay
  <2>5. OnItsWay(g)'
    BY <2>1, <2>3, <2>4 DEF OnItsWay
  <2>6. Told(g)'
    BY <2>1, <2>3 DEF Told
  <2> QED
    BY <2>5, <2>6
<1>10. Calm'
  BY <1>1, <1>2, <1>9, Constants DEF Calm
<1> QED
  BY <1>6, <1>7, <1>8, <1>10 DEF Stored

LEMMA ToldNext ==
  ASSUME NEW h \in Handlers, NEW d \in Docs, NEW r, save'[h] = r, r.doc = d,
         r.text \in expected'[d], r.before \subseteq expected'[d],
         IF r.at = "answer" THEN Whole(file[d])' = r.text
         ELSE Whole(file[d])' \in r.before
  PROVE  Told(h)'
BY DEF Told, Whole

LEMMA OpenStored ==
  ASSUME EditorTypeOK, Stored, NEW h \in Handlers, OpenTmp(h)
  PROVE  Stored'
<1>1. PICK d \in Docs :
        /\ d = save[h].doc /\ save[h].at = "open" /\ save[h] \in SaveType
        /\ save[h].ino = 0 /\ save[h].text \in Range(Texts)
  BY DEF OpenTmp, Stored, SavesOK, SaveType, Tidy
<1>2. PICK ino \in Inodes :
        /\ tmp[d] = ino \/ (tmp[d] = 0 /\ ino \notin OnDisk)
        /\ disk' = [disk EXCEPT ![ino] = Empty]
        /\ tmp' = [tmp EXCEPT ![d] = ino]
        /\ save' = [save EXCEPT ![h].at = "first", ![h].ino = ino]
  BY <1>1, OpenStep
<1>3. UNCHANGED <<file, expected, overlap, saves>>
  BY DEF OpenTmp
<1>4. PICK r \in SaveType :
      /\ save' = [save EXCEPT ![h] = r]
      /\ r.at = "first" /\ r.ino = ino /\ r.doc = d /\ r.text = save[h].text
      /\ r.before = save[h].before
  <2> DEFINE new == [save[h] EXCEPT !.at = "first", !.ino = ino]
  <2>1. save' = [save EXCEPT ![h] = new]
    BY <1>2 DEF Stored, SavesOK
  <2>2. /\ new \in SaveType /\ new.at = "first" /\ new.ino = ino
        /\ new.doc = d /\ new.text = save[h].text /\ new.before = save[h].before
    BY <1>1, <1>2 DEF SaveType
  <2> HIDE DEF new
  <2> QED
    BY <2>1, <2>2
<1>5. FilesOK /\ Apart /\ ino # 0
  BY Constants DEF Stored
<1>6. tmp'[d] = ino /\ \A e \in Docs \ {d} : tmp'[e] = tmp[e]
  BY <1>1, <1>2, <1>5 DEF FilesOK
<1>7. save'[h] = r /\ \A g \in Handlers : g # h => save'[g] = save[g]
  BY <1>4 DEF Stored, SavesOK
<1>8. \A e \in Docs : ino # file[e] /\ (e # d => ino # tmp[e])
  BY <1>1, <1>2, <1>5 DEF Apart, OnDisk
<1>9. \A g \in Handlers : save[g].ino = ino => save[g].doc = d
  BY <1>1, <1>2, <1>5 DEF Apart, OnDisk
<1>10. \A i \in Inodes \ {ino} : disk'[i] = disk[i]
  BY <1>2, <1>5 DEF FilesOK
<1>11. FilesOK'
  <2>1. Empty \in [Chunks -> Written \cup {Absent}]
    BY DEF Empty
  <2> QED
    BY <1>2, <1>3, <1>5, <2>1 DEF FilesOK, Written, Inodes
<1>12. Apart'
  BY <1>3, <1>4, <1>5, <1>6, <1>7, <1>8, <1>9 DEF Apart
<1>13. \A e \in Docs : \A i \in {file[e], tmp[e]} \ {0} : i # ino => disk'[i] = disk[i]
  BY <1>5, <1>10 DEF FilesOK
<1>14. Whole(file[d])' = Whole(file[d])
  BY <1>1, <1>3, <1>8, <1>13 DEF Whole
<1>15. d \notin overlap => OnItsWay(h) /\ Told(h)
  BY <1>1 DEF Stored, Calm
<1>16. d \notin overlap => OnItsWay(h)' /\ Told(h)'
  <2>1. d \notin overlap => OnItsWay(h)'
    BY <1>1, <1>4, <1>5, <1>6, <1>7, <1>15 DEF OnItsWay
  <2>2. d \notin overlap => Told(h)'
    <3>1. d \notin overlap =>
            /\ r.text \in expected'[d] /\ r.before \subseteq expected'[d]
            /\ Whole(file[d])' \in r.before
      BY <1>1, <1>3, <1>4, <1>14, <1>15 DEF Told
    <3> QED
      BY <1>4, <1>7, <3>1, ToldNext
  <2> QED
    BY <2>1, <2>2
<1>17. d \notin overlap => Whole(file[d])' \in expected'[d]
  BY <1>1, <1>3, <1>14, CalmWhole
<1>18. Local(h, d, r)
  BY <1>1, <1>3, <1>4, <1>6, <1>8, <1>13 DEF Local
<1>19. expected' \in [Docs -> SUBSET (Written \cup {Absent})]
  BY <1>3 DEF Stored, SavesOK
<1>20. r.at # "idle" /\ r.doc # "none" /\ r.text \in Range(Texts)
  BY <1>1, <1>4, Constants
<1> QED
  BY <1>1, <1>4, <1>5, <1>11, <1>12, <1>16, <1>17, <1>18, <1>19, <1>20, LocalStored

LEMMA WriteStored ==
  ASSUME Stored, NEW h \in Handlers, Write(h)
  PROVE  Stored'
<1>1. PICK d \in Docs :
        /\ d = save[h].doc /\ save[h] \in SaveType
        /\ save[h].at \in {"first", "second"} /\ save[h].ino \in Inodes
        /\ save[h].text \in Range(Texts)
  BY DEF Write, Stored, SavesOK, SaveType, Tidy
<1>2. PICK c \in Chunks, r \in SaveType :
        /\ disk' = [disk EXCEPT ![save[h].ino][c] = save[h].text]
        /\ save' = [save EXCEPT ![h] = r]
        /\ r.doc = d /\ r.text = save[h].text /\ r.before = save[h].before
        /\ \/ /\ c = 1 /\ r.at = "second" /\ r.ino = save[h].ino
           \/ /\ c = 2 /\ r.at = "replace" /\ r.ino = 0 /\ save[h].at = "second"
  <2>1. CASE save[h].at = "first"
    <3> DEFINE new == [save[h] EXCEPT !.at = "second"]
    <3>1. save' = [save EXCEPT ![h] = new]
      BY <2>1 DEF Write, Stored, SavesOK
    <3>2. /\ new \in SaveType /\ new.at = "second" /\ new.ino = save[h].ino
          /\ new.doc = d /\ new.text = save[h].text /\ new.before = save[h].before
      BY <1>1 DEF SaveType
    <3>3. disk' = [disk EXCEPT ![save[h].ino][1] = save[h].text] /\ 1 \in Chunks
      BY <2>1 DEF Write, Chunks
    <3> HIDE DEF new
    <3> QED
      BY <3>1, <3>2, <3>3
  <2>2. CASE save[h].at = "second"
    <3> DEFINE new == [save[h] EXCEPT !.at = "replace", !.ino = 0]
    <3>1. save' = [save EXCEPT ![h] = new]
      BY <2>2 DEF Write, Stored, SavesOK
    <3>2. /\ new \in SaveType /\ new.at = "replace" /\ new.ino = 0
          /\ new.doc = d /\ new.text = save[h].text /\ new.before = save[h].before
      BY <1>1 DEF SaveType
    <3>3. disk' = [disk EXCEPT ![save[h].ino][2] = save[h].text] /\ 2 \in Chunks
      BY <2>2 DEF Write, Chunks
    <3> HIDE DEF new
    <3> QED
      BY <2>2, <3>1, <3>2, <3>3
  <2> QED
    BY <1>1, <2>1, <2>2
<1>3. UNCHANGED <<file, tmp, expected, overlap, saves>>
  BY DEF Write
<1>4. FilesOK /\ Apart /\ save[h].ino # 0
  BY <1>1, Constants DEF Stored
<1>5. save'[h] = r /\ \A g \in Handlers : g # h => save'[g] = save[g]
  BY <1>2 DEF Stored, SavesOK
<1>6. /\ \A i \in Inodes \ {save[h].ino} : disk'[i] = disk[i]
      /\ disk'[save[h].ino] = [disk[save[h].ino] EXCEPT ![c] = save[h].text]
      /\ disk[save[h].ino] \in [Chunks -> Written \cup {Absent}]
  BY <1>1, <1>2, <1>4 DEF FilesOK
<1>7. /\ disk'[save[h].ino][c] = save[h].text
      /\ \A k \in Chunks \ {c} : disk'[save[h].ino][k] = disk[save[h].ino][k]
  BY <1>2, <1>6
<1>8. FilesOK'
  <2>1. save[h].text \in Written \cup {Absent}
    BY <1>1 DEF Written
  <2>2. disk'[save[h].ino] \in [Chunks -> Written \cup {Absent}]
    BY <1>6, <2>1
  <2>3. disk' = [disk EXCEPT ![save[h].ino] = disk'[save[h].ino]]
    BY <1>2, <1>4, <1>6 DEF FilesOK
  <2> QED
    BY <1>3, <1>4, <2>2, <2>3 DEF FilesOK, Written, Inodes
<1>9. Apart'
  BY <1>1, <1>2, <1>3, <1>4, <1>5 DEF Apart
<1>10. \A e \in Docs \ {d} : \A i \in {file[e], tmp[e]} \ {0} : disk'[i] = disk[i]
  BY <1>1, <1>4, <1>6 DEF FilesOK, Apart
<1>11. d \notin overlap =>
         /\ OnItsWay(h) /\ Told(h) /\ save[h].ino = tmp[d] /\ file[d] # save[h].ino
  BY <1>1, <1>4 DEF Stored, Calm, OnItsWay, Apart
<1>12. d \notin overlap => Whole(file[d])' = Whole(file[d])
  BY <1>3, <1>4, <1>6, <1>11 DEF Whole, FilesOK
<1>13. d \notin overlap => OnItsWay(h)'
  <2> SUFFICES ASSUME d \notin overlap
               PROVE  OnItsWay(h)'
    OBVIOUS
  <2>1. \A g \in Handlers : save'[g].doc = d => g = h
    BY <1>1, <1>5, <1>11 DEF OnItsWay
  <2>2. tmp'[d] = save[h].ino
    BY <1>3, <1>11
  <2>3. c = 1 => disk'[save[h].ino][1] = r.text
    BY <1>2, <1>7
  <2>4. c = 2 => disk'[save[h].ino][1] = r.text /\ disk'[save[h].ino][2] = r.text
    <3>1. save[h].at = "second" => disk[save[h].ino][1] = save[h].text
      BY <1>1, <1>11 DEF OnItsWay
    <3> QED
      BY <1>2, <1>7, <3>1 DEF Chunks
  <2> QED
    BY <1>2, <1>4, <1>5, <2>1, <2>2, <2>3, <2>4 DEF OnItsWay
<1>14. d \notin overlap => Told(h)'
  <2>1. d \notin overlap =>
          /\ r.text \in expected'[d] /\ r.before \subseteq expected'[d]
          /\ Whole(file[d])' \in r.before
    BY <1>1, <1>2, <1>3, <1>11, <1>12 DEF Told
  <2> QED
    BY <1>2, <1>5, <2>1, ToldNext
<1>15. d \notin overlap => Whole(file[d])' \in expected'[d]
  BY <1>1, <1>3, <1>12, CalmWhole
<1>16. Local(h, d, r)
  BY <1>1, <1>2, <1>3, <1>10 DEF Local
<1>17. expected' \in [Docs -> SUBSET (Written \cup {Absent})]
  BY <1>3 DEF Stored, SavesOK
<1>18. /\ r.at # "idle" /\ r.doc # "none" /\ r.text \in Range(Texts)
       /\ (r.at \in {"first", "second"}) <=> (r.ino # 0)
  BY <1>1, <1>2, <1>4, Constants
<1> QED
  BY <1>8, <1>9, <1>13, <1>14, <1>15, <1>16, <1>17, <1>18, LocalStored

(* A save goes on without a file of its own: r is where it is next.           *)
LEMMA NextAt ==
  ASSUME Stored, NEW h \in Handlers, save[h].at # "idle",
         NEW at \in {"unlink", "answer"},
         \/ save' = [save EXCEPT ![h].at = at] /\ save[h].ino = 0
         \/ save' = [save EXCEPT ![h].at = at, ![h].ino = 0]
  PROVE  \E r \in SaveType :
           /\ save' = [save EXCEPT ![h] = r] /\ r.at = at /\ r.ino = 0
           /\ r.doc = save[h].doc /\ r.text = save[h].text /\ r.before = save[h].before
<1>1. save \in [Handlers -> SaveType] /\ save[h] \in SaveType
  BY DEF Stored, SavesOK
<1>2. CASE save' = [save EXCEPT ![h].at = at] /\ save[h].ino = 0
  <2> DEFINE r == [save[h] EXCEPT !.at = at]
  <2>1. save' = [save EXCEPT ![h] = r]
    BY <1>1, <1>2
  <2>2. /\ r \in SaveType /\ r.at = at /\ r.ino = 0
        /\ r.doc = save[h].doc /\ r.text = save[h].text /\ r.before = save[h].before
    BY <1>1, <1>2 DEF SaveType
  <2> HIDE DEF r
  <2> QED
    BY <2>1, <2>2
<1>3. CASE save' = [save EXCEPT ![h].at = at, ![h].ino = 0]
  <2> DEFINE r == [save[h] EXCEPT !.at = at, !.ino = 0]
  <2>1. save' = [save EXCEPT ![h] = r]
    BY <1>1, <1>3
  <2>2. /\ r \in SaveType /\ r.at = at /\ r.ino = 0
        /\ r.doc = save[h].doc /\ r.text = save[h].text /\ r.before = save[h].before
    BY <1>1 DEF SaveType
  <2> HIDE DEF r
  <2> QED
    BY <2>1, <2>2
<1> QED
  BY <1>2, <1>3

(* A call fails, or the name to rename is gone: nothing on disk changes.      *)
LEMMA GiveUpStored ==
  ASSUME Stored, NEW h \in Handlers, save[h].at \notin {"idle", "answer"},
         \/ save' = [save EXCEPT ![h].at = "unlink"] /\ save[h].ino = 0
         \/ save' = [save EXCEPT ![h].at = "unlink", ![h].ino = 0],
         UNCHANGED <<disk, file, tmp, expected, overlap, saves>>
  PROVE  Stored'
<1>1. PICK d \in Docs :
        /\ d = save[h].doc /\ save[h] \in SaveType /\ save[h].text \in Range(Texts)
  BY DEF Stored, SavesOK, SaveType, Tidy
<1>2. PICK r \in SaveType :
        /\ save' = [save EXCEPT ![h] = r] /\ r.at = "unlink" /\ r.ino = 0
        /\ r.doc = d /\ r.text = save[h].text /\ r.before = save[h].before
  BY <1>1, NextAt
<1>3. save'[h] = r /\ \A g \in Handlers : g # h => save'[g] = save[g]
  BY <1>2 DEF Stored, SavesOK
<1>4. FilesOK' /\ expected' \in [Docs -> SUBSET (Written \cup {Absent})]
  BY DEF Stored, FilesOK, SavesOK
<1>5. Apart'
  BY <1>2, <1>3 DEF Stored, Apart
<1>6. Whole(file[d])' = Whole(file[d])
  BY DEF Whole
<1>7. d \notin overlap => OnItsWay(h) /\ Told(h)
  BY <1>1 DEF Stored, Calm
<1>8. d \notin overlap => OnItsWay(h)'
  BY <1>1, <1>2, <1>3, <1>7 DEF OnItsWay
<1>9. d \notin overlap => Told(h)'
  <2>1. d \notin overlap =>
          /\ r.text \in expected'[d] /\ r.before \subseteq expected'[d]
          /\ Whole(file[d])' \in r.before
    BY <1>1, <1>2, <1>6, <1>7 DEF Told
  <2> QED
    BY <1>2, <1>3, <2>1, ToldNext
<1>10. d \notin overlap => Whole(file[d])' \in expected'[d]
  BY <1>1, <1>6, CalmWhole
<1>11. Local(h, d, r)
  BY <1>1, <1>2 DEF Local
<1>12. r.at # "idle" /\ r.doc # "none" /\ r.text \in Range(Texts)
  BY <1>1, <1>2, Constants
<1> QED
  BY <1>2, <1>4, <1>5, <1>8, <1>9, <1>10, <1>11, <1>12, LocalStored

LEMMA RenameStored ==
  ASSUME Stored, NEW h \in Handlers, Replace(h), tmp[save[h].doc] # 0
  PROVE  Stored'
<1>1. PICK d \in Docs :
        /\ d = save[h].doc /\ save[h] \in SaveType /\ save[h].text \in Range(Texts)
        /\ save[h].at = "replace" /\ save[h].ino = 0 /\ tmp[d] # 0
  BY DEF Replace, Stored, SavesOK, SaveType, Tidy
<1>2. /\ file' = [file EXCEPT ![d] = tmp[d]] /\ tmp' = [tmp EXCEPT ![d] = 0]
      /\ save' = [save EXCEPT ![h].at = "answer"]
      /\ UNCHANGED <<disk, expected, overlap, saves>>
  BY <1>1 DEF Replace
<1>3. PICK r \in SaveType :
        /\ save' = [save EXCEPT ![h] = r] /\ r.at = "answer" /\ r.ino = 0
        /\ r.doc = d /\ r.text = save[h].text /\ r.before = save[h].before
  BY <1>1, <1>2, NextAt
<1>4. save'[h] = r /\ \A g \in Handlers : g # h => save'[g] = save[g]
  BY <1>3 DEF Stored, SavesOK
<1>5. /\ file'[d] = tmp[d] /\ tmp'[d] = 0 /\ tmp[d] \in Inodes
      /\ \A e \in Docs \ {d} : file'[e] = file[e] /\ tmp'[e] = tmp[e]
  BY <1>1, <1>2 DEF Stored, FilesOK
<1>6. FilesOK'
  BY <1>2, <1>5 DEF Stored, FilesOK
<1>7. Apart'
  <2>1. \A e, f \in Docs :
          /\ file'[e] = file'[f] => e = f \/ file'[e] = 0
          /\ tmp'[e] = tmp'[f] => e = f \/ tmp'[e] = 0
          /\ file'[e] = tmp'[f] => file'[e] = 0
    BY <1>1, <1>5 DEF Stored, Apart
  <2>2. \A g \in Handlers, e \in Docs :
          save'[g].ino # 0 /\ save'[g].ino \in {file'[e], tmp'[e]} => save'[g].doc = e
    BY <1>3, <1>4, <1>5 DEF Stored, Apart
  <2> QED
    BY <2>1, <2>2 DEF Apart
<1>8. d \notin overlap =>
        /\ OnItsWay(h) /\ Told(h)
        /\ disk[tmp[d]][1] = save[h].text /\ disk[tmp[d]][2] = save[h].text
  BY <1>1 DEF Stored, Calm, OnItsWay
<1>9. d \notin overlap => Whole(file[d])' = save[h].text
  <2>1. save[h].text # Absent
    BY <1>1, Constants
  <2> QED
    BY <1>1, <1>2, <1>5, <1>8, <2>1 DEF Whole
<1>10. d \notin overlap => OnItsWay(h)'
  BY <1>1, <1>3, <1>4, <1>8 DEF OnItsWay
<1>11. d \notin overlap => Told(h)'
  <2>1. d \notin overlap =>
          /\ r.text \in expected'[d] /\ r.before \subseteq expected'[d]
          /\ Whole(file[d])' = r.text
    BY <1>1, <1>2, <1>3, <1>8, <1>9 DEF Told
  <2> QED
    BY <1>3, <1>4, <2>1, ToldNext
<1>12. d \notin overlap => Whole(file[d])' \in expected'[d]
  BY <1>1, <1>2, <1>8, <1>9 DEF Told
<1>13. Local(h, d, r)
  BY <1>1, <1>2, <1>3, <1>5 DEF Local
<1>14. expected' \in [Docs -> SUBSET (Written \cup {Absent})]
  BY <1>2 DEF Stored, SavesOK
<1>15. r.at # "idle" /\ r.doc # "none" /\ r.text \in Range(Texts)
  BY <1>1, <1>3, Constants
<1> QED
  BY <1>3, <1>6, <1>7, <1>10, <1>11, <1>12, <1>13, <1>14, <1>15, LocalStored

(* The saver is answered, with a 200 or a 500, and the thread ends.           *)
LEMMA AnswerStored ==
  ASSUME Stored, NEW h \in Handlers, Unlink(h) \/ AnswerSaved(h)
  PROVE  Stored'
<1>1. PICK d \in Docs :
        /\ d = save[h].doc /\ save[h] \in SaveType /\ save[h].text \in Range(Texts)
        /\ save[h].at \in {"unlink", "answer"} /\ save[h].ino = 0
  BY DEF Unlink, AnswerSaved, Stored, SavesOK, SaveType, Tidy
<1> DEFINE told == IF save[h].at = "answer" THEN {save[h].text} ELSE save[h].before
<1>2. /\ save' = [save EXCEPT ![h] = NoSave]
      /\ expected' = [expected EXCEPT ![d] = told]
      /\ tmp' = [tmp EXCEPT ![d] = 0] \/ tmp' = tmp
      /\ UNCHANGED <<disk, file, overlap, saves>>
  BY <1>1 DEF Unlink, AnswerSaved, files
<1>3. /\ NoSave \in SaveType /\ NoSave.at = "idle" /\ NoSave.doc = "none"
      /\ NoSave.ino = 0
  BY DEF NoSave, SaveType
<1>4. save'[h] = NoSave /\ \A g \in Handlers : g # h => save'[g] = save[g]
  BY <1>2 DEF Stored, SavesOK
<1>5. /\ tmp'[d] \in {0, tmp[d]}
      /\ \A e \in Docs \ {d} : tmp'[e] = tmp[e] /\ expected'[e] = expected[e]
  BY <1>2 DEF Stored, FilesOK, SavesOK
<1>6. told \in SUBSET (Written \cup {Absent}) /\ expected'[d] = told
  BY <1>1, <1>2 DEF Stored, SavesOK, SaveType, Written
<1>7. expected' \in [Docs -> SUBSET (Written \cup {Absent})]
  BY <1>2, <1>6 DEF Stored, SavesOK
<1>8. FilesOK'
  BY <1>2 DEF Stored, FilesOK
<1>9. Apart'
  BY <1>1, <1>2, <1>3, <1>4, <1>5 DEF Stored, Apart
<1>10. d \notin overlap => Whole(file[d]) \in told
  BY <1>1 DEF Stored, Calm, Told
<1>11. Whole(file[d])' = Whole(file[d])
  BY <1>2 DEF Whole
<1> HIDE DEF told
<1>12. d \notin overlap => Whole(file[d])' \in expected'[d]
  BY <1>6, <1>10, <1>11
<1>13. Local(h, d, NoSave)
  BY <1>1, <1>2, <1>3, <1>5 DEF Local
<1>14. NoSave.doc # d
  BY <1>3, Constants
<1> QED
  BY <1>3, <1>7, <1>8, <1>9, <1>12, <1>13, <1>14, LocalStored

(* The saver is not answered at all, and its thread ends.                     *)
LEMMA EncodeStored ==
  ASSUME Stored, NEW h \in Handlers, EncodeFails(h)
  PROVE  Stored'
<1>1. PICK d \in Docs : d = save[h].doc /\ save[h] \in SaveType
  BY DEF EncodeFails, Stored, SavesOK, SaveType, Tidy
<1>2. /\ save' = [save EXCEPT ![h] = NoSave]
      /\ UNCHANGED <<disk, file, tmp, expected, overlap, saves>>
  BY DEF EncodeFails, files
<1>3. /\ NoSave \in SaveType /\ NoSave.at = "idle" /\ NoSave.doc = "none"
      /\ NoSave.ino = 0
  BY DEF NoSave, SaveType
<1>4. save'[h] = NoSave /\ \A g \in Handlers : g # h => save'[g] = save[g]
  BY <1>2 DEF Stored, SavesOK
<1>5. FilesOK' /\ expected' \in [Docs -> SUBSET (Written \cup {Absent})]
  BY <1>2 DEF Stored, FilesOK, SavesOK
<1>6. Apart'
  BY <1>2, <1>3, <1>4 DEF Stored, Apart
<1>7. Whole(file[d])' = Whole(file[d])
  BY <1>2 DEF Whole
<1>8. d \notin overlap => Whole(file[d])' \in expected'[d]
  BY <1>2, <1>7 DEF Stored, SavesHold
<1>9. Local(h, d, NoSave)
  BY <1>1, <1>2, <1>3 DEF Local
<1>10. NoSave.doc # d
  BY <1>3, Constants
<1> QED
  BY <1>3, <1>5, <1>6, <1>8, <1>9, <1>10, LocalStored

LEMMA DeathStored ==
  ASSUME Stored, ServerDies
  PROVE  Stored'
<1>1. /\ save' = [h \in Handlers |-> NoSave]
      /\ UNCHANGED <<disk, file, tmp, expected, overlap, saves>>
  BY DEF ServerDies, files
<1>2. NoSave \in SaveType /\ NoSave.at = "idle" /\ NoSave.doc = "none" /\ NoSave.ino = 0
  BY DEF NoSave, SaveType
<1>3. \A h \in Handlers : save'[h] = NoSave
  BY <1>1
<1>4. FilesOK'
  BY <1>1 DEF Stored, FilesOK
<1>5. SavesOK'
  BY <1>1, <1>2 DEF Stored, SavesOK, SaveType
<1>6. Tidy' /\ Apart' /\ Calm'
  BY <1>1, <1>2, <1>3, Constants DEF Stored, Tidy, Apart, Calm
<1>7. SavesHold'
  BY <1>1 DEF Stored, SavesHold, Whole
<1> QED
  BY <1>4, <1>5, <1>6, <1>7 DEF Stored

LEMMA SaveStepStored ==
  ASSUME EditorTypeOK, Stored, NEW h \in Handlers, SaveStep(h)
  PROVE  Stored'
<1>1. CASE Replace(h)
  <2>1. CASE tmp[save[h].doc] = 0
    <3>1. /\ save[h].at = "replace" /\ save[h].ino = 0
          /\ save' = [save EXCEPT ![h].at = "unlink"]
          /\ UNCHANGED <<disk, file, tmp, expected, overlap, saves>>
      BY <1>1, <2>1 DEF Replace, Stored, Tidy
    <3> QED
      BY <3>1, GiveUpStored
  <2> QED
    BY <1>1, <2>1, RenameStored
<1>2. CASE CallFails(h)
  <2>1. /\ save[h].at \notin {"idle", "answer"}
        /\ save' = [save EXCEPT ![h].at = "unlink", ![h].ino = 0]
        /\ UNCHANGED <<disk, file, tmp, expected, overlap, saves>>
    BY <1>2 DEF CallFails, files
  <2> QED
    BY <2>1, GiveUpStored
<1> QED
  BY <1>1, <1>2, OpenStored, WriteStored, EncodeStored, AnswerStored DEF SaveStep

LEMMA StoredKept ==
  ASSUME Stored, UNCHANGED <<files, saveVars>>
  PROVE  Stored'
<1>1. UNCHANGED <<disk, file, tmp, save, expected, overlap, saves>>
  BY DEF files, saveVars
<1>2. \A i : Whole(file[i])' = Whole(file[i])
  BY <1>1 DEF Whole
<1>3. FilesOK' /\ SavesOK' /\ Tidy' /\ Apart'
  BY <1>1 DEF Stored, FilesOK, SavesOK, SaveType, Tidy, Apart
<1>4. Calm'
  BY <1>1, <1>2 DEF Stored, Calm, OnItsWay, Told
<1>5. SavesHold'
  BY <1>1, <1>2 DEF Stored, SavesHold
<1> QED
  BY <1>3, <1>4, <1>5 DEF Stored

-----------------------------------------------------------------------------
(* The inductive invariant: what is on disk and what savers have been told    *)
(* agree, and a job has baked what it says.                                   *)
Kept == Stored /\ Baked /\ faults \in 0..MaxFaults

LEMMA KeptTypes == Kept => EditorTypeOK
BY TypeParts DEF Kept, Stored, Baked

LEMMA InitKept ==
  ASSUME EditorInit
  PROVE  Kept
<1>1. /\ FilesOK /\ SavesOK /\ job \in [Jobs -> JobType] /\ faults \in 0..MaxFaults
      /\ FirstFiles(file)
  BY InitTypes, TypeParts
<1>2. /\ save = [h \in Handlers |-> NoSave] /\ tmp = [d \in Docs |-> 0]
      /\ expected = [d \in Docs |-> {IF d \in Existing THEN Original ELSE Absent}]
      /\ job = [j \in Jobs |-> NoJob]
      /\ disk = [i \in Inodes |-> [c \in Chunks |->
                   IF \E d \in Docs : file[d] = i THEN Original ELSE Absent]]
  BY DEF EditorInit
<1>3. NoSave.at = "idle" /\ NoSave.doc = "none" /\ NoSave.ino = 0
  BY DEF NoSave
<1>4. Tidy
  BY <1>2, <1>3 DEF Tidy
<1>5. Apart
  BY <1>1, <1>2, <1>3 DEF Apart, FirstFiles
<1>6. Calm
  BY <1>2, <1>3, Constants DEF Calm
<1>7. SavesHold
  <2> SUFFICES ASSUME NEW d \in Docs
               PROVE  Whole(file[d]) \in expected[d]
    BY DEF SavesHold
  <2>1. CASE d \in Existing
    <3>1. file[d] \in Inodes /\ file[d] # 0
      BY <1>1, <2>1 DEF FirstFiles, FilesOK
    <3>2. disk[file[d]][1] = Original /\ disk[file[d]][2] = Original
      BY <1>2, <3>1 DEF Chunks
    <3>3. Whole(file[d]) = Original
      BY <3>1, <3>2 DEF Whole, Original, Absent
    <3> QED
      BY <1>2, <2>1, <3>3
  <2>2. CASE d \notin Existing
    <3>1. file[d] = 0
      BY <1>1, <2>2 DEF FirstFiles
    <3> QED
      BY <1>2, <2>2, <3>1 DEF Whole
  <2> QED
    BY <2>1, <2>2
<1>8. Baked
  <2>1. NoJob.baker = "off" /\ NoJob.status = "none" /\ NoJob.read = Absent
    BY DEF NoJob
  <2>2. NoJob.inline = FALSE
    BY DEF NoJob
  <2>3. \A j \in Jobs : job[j] = NoJob /\ job[j] \in JobType
    BY <1>1, <1>2
  <2>4. \A j \in Jobs : Sound(j, job[j])
    BY <2>1, <2>2, <2>3 DEF Sound
  <2> QED
    BY <1>1, <2>4 DEF Baked
<1> QED
  BY <1>1, <1>4, <1>5, <1>6, <1>7, <1>8 DEF Kept, Stored

LEMMA DeathBaked ==
  ASSUME ServerDies
  PROVE  Baked'
<1>1. job' = [j \in Jobs |-> NoJob]
  BY DEF ServerDies
<1>2. NoJob \in JobType /\ NoJob.baker = "off" /\ NoJob.status = "none" /\ NoJob.read = Absent
  BY DEF NoJob, JobType
<1>3. NoJob.inline = FALSE
  BY DEF NoJob
<1>4. \A j \in Jobs : Sound(j, NoJob)
  BY <1>2, <1>3 DEF Sound
<1> QED
  BY <1>1, <1>2, <1>4 DEF Baked, Sound, JobType

LEMMA BakedKept ==
  ASSUME Baked, UNCHANGED job
  PROVE  Baked'
BY DEF Baked, Sound, JobType

(* Every step of the server, and none that only reads.                        *)
LEMMA NextKept ==
  ASSUME Kept, [EditorNext]_editorVars
  PROVE  Kept'
<1>1. /\ EditorTypeOK /\ Stored /\ Baked /\ FilesOK /\ faults \in 0..MaxFaults
      /\ MaxFaults \in Nat
  BY KeptTypes, EditorAssumption DEF Kept, Stored
<1>2. ASSUME NEW d \in Docs, BeginSave(d)
      PROVE  Kept'
  <2>1. UNCHANGED <<job, faults>>
    BY <1>2 DEF BeginSave
  <2> QED
    BY <1>1, <1>2, <2>1, BeginStored, BakedKept DEF Kept
<1>3. ASSUME NEW h \in Handlers, SaveStep(h)
      PROVE  Kept'
  <2>1. UNCHANGED job /\ faults' \in 0..MaxFaults
    BY <1>1, <1>3, FailTypes
       DEF SaveStep, OpenTmp, Write, Replace, CallFails, EncodeFails, Unlink,
           AnswerSaved
  <2> QED
    BY <1>1, <1>3, <2>1, SaveStepStored, BakedKept DEF Kept
<1>4. ASSUME NEW j \in Jobs, NEW inline \in BOOLEAN, PostBake(j, inline)
      PROVE  Kept'
  <2>1. UNCHANGED <<files, saveVars>> /\ faults' = faults
    BY <1>4 DEF PostBake
  <2> QED
    BY <1>1, <1>4, <2>1, PostBakeChanges, BakedStep, StoredKept DEF Kept
<1>5. ASSUME NEW j \in Jobs, JobStep(j)
      PROVE  Kept'
  <2>1. UNCHANGED <<files, saveVars>>
    BY <1>5 DEF JobStep, Spawn, BakerReads, BakerExits, FinishError, FinishDone
  <2>2. faults' \in 0..MaxFaults
    <3>1. Spawn(j) \/ BakerReads(j) \/ FinishError(j) \/ FinishDone(j) =>
            faults' = faults \/ Fail
      BY DEF Spawn, BakerReads, FinishError, FinishDone
    <3>2. BakerExits(j) => faults' = faults \/ (faults < MaxFaults /\ faults' = faults + 1)
      BY DEF BakerExits
    <3> QED
      BY <1>1, <1>5, <3>1, <3>2, FailTypes DEF JobStep
  <2> QED
    BY <1>1, <1>5, <2>1, <2>2, JobStepChanges, BakedStep, StoredKept DEF Kept
<1>6. CASE ServerDies
  <2>1. faults' \in 0..MaxFaults
    BY <1>1, <1>6, FailTypes DEF ServerDies
  <2> QED
    BY <1>1, <1>6, <2>1, DeathStored, DeathBaked DEF Kept
<1>7. CASE UNCHANGED editorVars
  <2>1. UNCHANGED <<files, saveVars>> /\ UNCHANGED <<job, faults>>
    BY <1>7 DEF editorVars
  <2> QED
    BY <1>1, <2>1, StoredKept, BakedKept DEF Kept
<1> QED
  BY <1>2, <1>3, <1>4, <1>5, <1>6, <1>7 DEF EditorNext, PostSave, PostSaveSetlist

(* The inductive invariant of the editor's server.                            *)
THEOREM StaysKept == EditorSpec => []Kept
<1>1. EditorInit => Kept
  BY InitKept
<1>2. Kept /\ [EditorNext]_editorVars => Kept'
  BY NextKept
<1> QED
  BY <1>1, <1>2, PTL DEF EditorSpec

(* Every field of every save and job has its type.                            *)
THEOREM EditorTypes == EditorSpec => []EditorTypeOK
BY StaysKept, KeptTypes, PTL

(* A document of which no two saves have overlapped is whole, and is what its *)
(* savers have been told, whichever calls have failed and whenever the server *)
(* has died (_handle_post_save).                                              *)
THEOREM SavesAreWhole == EditorSpec => []SavesHold
<1>1. Kept => SavesHold
  BY DEF Kept, Stored
<1> QED
  BY <1>1, StaysKept, PTL

(* A poll that says done gives the summary and the cache of what the job was  *)
(* asked to bake (_run_job, BakeJob.finish).                                  *)
THEOREM WhatIsDoneIsBaked == EditorSpec => []DoneIsBaked
<1>1. Kept => DoneIsBaked
  <2> SUFFICES ASSUME Baked, NEW j \in Jobs, job[j].status = "done"
               PROVE  /\ job[j].summary = job[j].read /\ job[j].cache = job[j].read
                      /\ job[j].cache \in IF job[j].inline THEN {j} ELSE Written
    BY DEF Kept, DoneIsBaked, Poll
  <2> QED
    BY DEF Baked, Sound
<1> QED
  BY <1>1, StaysKept, PTL

(* No job that has ended runs again or ends otherwise, until the server is    *)
(* started again and has forgotten it.                                        *)
THEOREM JobsEndOnce == EditorSpec => JobEndsOnce
<1> DEFINE Ended(j) == job[j].status \in {"done", "error"} =>
                         job'[j].status \in {job[j].status, "none"}
<1>1. ASSUME Kept, [EditorNext]_editorVars, NEW j \in Jobs
      PROVE  Ended(j)
  <2>1. FilesOK /\ Baked
    BY <1>1 DEF Kept, Stored
  <2>2. ASSUME NEW i \in Jobs, NEW r, JobChanges(i, r)
        PROVE  Ended(j)
    BY <2>1, <2>2 DEF JobChanges, Baked
  <2>3. ASSUME NEW d \in Docs, BeginSave(d)
        PROVE  Ended(j)
    BY <2>3 DEF BeginSave
  <2>4. ASSUME NEW h \in Handlers, SaveStep(h)
        PROVE  Ended(j)
    <3>1. job' = job
      BY <2>4 DEF SaveStep, OpenTmp, Write, Replace, CallFails, EncodeFails, Unlink,
           AnswerSaved
    <3> QED
      BY <3>1
  <2>5. CASE ServerDies
    <3>1. job'[j].status = "none"
      BY <2>5 DEF ServerDies, NoJob
    <3> QED
      BY <3>1
  <2>6. CASE UNCHANGED editorVars
    BY <2>6 DEF editorVars
  <2> QED
    BY <1>1, <2>1, <2>2, <2>3, <2>4, <2>5, <2>6, PostBakeChanges, JobStepChanges
       DEF EditorNext, PostSave, PostSaveSetlist
<1>2. ASSUME Kept, [EditorNext]_editorVars
      PROVE  [\A j \in Jobs : Poll(j).status \in {"done", "error"}
                => Poll(j)'.status \in {Poll(j).status, "none"}]_editorVars
  <2>1. \A j \in Jobs : Poll(j).status = job[j].status /\ Poll(j)'.status = job'[j].status
    BY DEF Poll
  <2> QED
    BY <1>1, <1>2, <2>1
<1> QED
  BY <1>2, StaysKept, PTL DEF EditorSpec, JobEndsOnce

=============================================================================
