----------------------- MODULE DatabaseSession_proofs -----------------------
(***************************************************************************)
(* Proofs about DatabaseBootstrap and DatabaseSession:  no start, no work  *)
(* and no crash in one loses data the reader did not erase, and what       *)
(* starts and works tell is true.                                          *)
(***************************************************************************)
EXTENDS DatabaseSession, SequenceTheorems, TLAPS

-----------------------------------------------------------------------------
(***************************************************************************)
(* The starts.                                                             *)
(***************************************************************************)

-----------------------------------------------------------------------------
(***************************************************************************)
(* The invariant names every point of a start: where the code is, the      *)
(* calls it still goes through, and what stands in the directory.          *)
(***************************************************************************)

RemoveMain(p) == [op |-> "remove main", from |-> p]
RemoveLog(p) == [op |-> "remove log", from |-> p]
RenameMain(p, q) == [op |-> "rename main", from |-> p, to |-> q]
RenameLog(p, q) == [op |-> "rename log", from |-> p, to |-> q]

\* Nothing was lost so far: the reader has a database, and no start was cut
\* between a main file and its log.
Sound == history.had /\ ~history.parted

\* What an opened database or a backup of it may be.
Databases == {"reader", "behind", "damaged"}

\* What holds of the directory whatever the process does.
Directory ==
    /\ log["staged"] = None
    /\ main["file"] \notin {"torn", "mixed"} /\ (main["file"] = "import" => log["file"] = None)
    /\ main["staged"] \in {None, "import", "torn"}
    /\ main["backup"] \in Databases \cup {None}
    /\ main["aside"] \in {None, "damaged"}

\* What holds of it between two sessions.
Between ==
    /\ main["file"] \in {"import", "fresh"} => main["staged"] = None
    /\ main["backup"] # None => main["file"] \in {None, "import"}
    /\ main["staged"] # None \/ main["backup"] # None => history.had
    /\ main["aside"] # None =>
          main["staged"] = None /\ main["backup"] = None /\ main["file"] \in {None, "fresh"}

\* The log of what was moved from p to q follows it: it was moved without the last
\* commits, which are still at p.
Following(p, q) ==
    /\ main[p] = None /\ main[q] \in Databases /\ log[q] = None
    /\ Sound => main[q] \in {"reader", "damaged"} \/ (main[q] = "behind" /\ log[p] = "commits")

\* The database of the reader is somewhere, and a backup of it holds it.
Stands ==
    /\ Sound => Survives
    /\ Sound /\ main["backup"] # None => Complete("backup")

Off ==
    /\ Between
    /\ Stands
    /\ mark => history.crashed
    /\ ~history.cut => main["aside"] = None /\ main["backup"] = None
                          /\ (history.staged <=> main["staged"] # None)

\* A start before it looks at what is staged.
Importing ==
    /\ at = "import" /\ todo = <<>> /\ notice = "none"
    /\ Stands
    /\ ~history.cut => main["backup"] = None /\ (history.staged <=> main["staged"] # None)

\* The database is moved to the backup, for the import to take its place.
BackingUp ==
    /\ at = "validate" /\ main["staged"] = "import"
    /\ \/ /\ main["file"] # None /\ main["backup"] = None
          /\ Sound => Complete("file")
          /\ \/ todo = <<RemoveMain("backup"), RemoveLog("backup"), RenameMain("file", "backup"), RenameLog("file", "backup"),
                         RemoveMain("file"), RemoveLog("file"), RenameMain("staged", "file"), RenameLog("staged", "file")>>
             \/ todo = <<RemoveLog("backup"), RenameMain("file", "backup"), RenameLog("file", "backup"),
                         RemoveMain("file"), RemoveLog("file"), RenameMain("staged", "file"), RenameLog("staged", "file")>>
             \/ /\ todo = <<RenameMain("file", "backup"), RenameLog("file", "backup"),
                            RemoveMain("file"), RemoveLog("file"), RenameMain("staged", "file"), RenameLog("staged", "file")>>
                /\ log["backup"] = None
       \/ /\ Following("file", "backup")
          /\ todo = <<RenameLog("file", "backup"),
                      RemoveMain("file"), RemoveLog("file"), RenameMain("staged", "file"), RenameLog("staged", "file")>>

\* The import takes the place of the database.
TakingPlace ==
    /\ at = "validate" /\ main["file"] = None /\ main["staged"] = "import"
    /\ Sound => Complete("backup")
    /\ \/ todo = <<RemoveMain("file"), RemoveLog("file"), RenameMain("staged", "file"), RenameLog("staged", "file")>>
       \/ todo = <<RemoveLog("file"), RenameMain("staged", "file"), RenameLog("staged", "file")>>
       \/ todo = <<RenameMain("staged", "file"), RenameLog("staged", "file")>> /\ log["file"] = None

\* It is there, and is validated.
InPlace ==
    /\ at = "validate" /\ main["file"] = "import"
    /\ Sound => Complete("backup")
    /\ todo = <<RenameLog("staged", "file")>> \/ todo = <<>>

\* It is accepted.
Accepting ==
    /\ at = "open" /\ notice = "none" /\ main["file"] = "import"
    /\ \/ todo = <<RemoveMain("backup"), RemoveLog("backup")>> /\ Stands
       \/ todo = <<RemoveLog("backup")>> /\ main["backup"] = None

\* A staged file that is refused goes.
Dropping ==
    /\ at = "open" /\ notice = "rejected"
    /\ \/ /\ main["backup"] = None /\ (Sound => Complete("file"))
          /\ \/ todo = <<RemoveMain("staged"), RemoveLog("staged")>>
             \/ todo = <<RemoveLog("staged")>> /\ main["staged"] = None
       \/ /\ main["backup"] # None /\ (Sound => Complete("backup")) /\ main["file"] = None
          /\ \/ todo = <<RemoveMain("staged"), RemoveLog("staged"), RemoveMain("file"), RemoveLog("file"),
                         RemoveMain("file"), RemoveLog("file"), RenameMain("backup", "file"), RenameLog("backup", "file")>>
             \/ /\ todo = <<RemoveLog("staged"), RemoveMain("file"), RemoveLog("file"),
                            RemoveMain("file"), RemoveLog("file"), RenameMain("backup", "file"), RenameLog("backup", "file")>>
                /\ main["staged"] = None

\* The backup comes back.
Restoring ==
    /\ at = "open" /\ notice # "none" /\ main["staged"] = None
    /\ \/ /\ Sound => Complete("backup")
          /\ \/ todo = <<RemoveMain("file"), RemoveLog("file"),
                         RemoveMain("file"), RemoveLog("file"), RenameMain("backup", "file"), RenameLog("backup", "file")>>
             \/ /\ main["file"] = None
                /\ \/ todo = <<RemoveLog("file"), RemoveMain("file"), RemoveLog("file"),
                               RenameMain("backup", "file"), RenameLog("backup", "file")>>
                   \/ todo = <<RemoveMain("file"), RemoveLog("file"), RenameMain("backup", "file"), RenameLog("backup", "file")>>
                   \/ todo = <<RemoveLog("file"), RenameMain("backup", "file"), RenameLog("backup", "file")>>
                   \/ todo = <<RenameMain("backup", "file"), RenameLog("backup", "file")>> /\ log["file"] = None
       \/ /\ todo = <<RenameLog("backup", "file")>>
          /\ Following("backup", "file")

\* The directory is as the start will have it: the database is opened.
Opening ==
    /\ at = "open" /\ todo = <<>> /\ main["staged"] = None /\ main["backup"] = None
    /\ Sound => Survives
    /\ notice # "none" /\ ~history.parted =>
          \/ Complete("file")
          \/ main["aside"] = "damaged" /\ main["file"] \in {None, "fresh"}

\* What cannot be read is moved aside.
MovingAside ==
    /\ at = "fresh" /\ main["staged"] = None /\ main["backup"] = None
    /\ \/ /\ main["file"] = "damaged" /\ main["aside"] = None
          /\ \/ todo = <<RemoveMain("aside"), RemoveLog("aside"), RenameMain("file", "aside"), RenameLog("file", "aside")>>
             \/ todo = <<RemoveLog("aside"), RenameMain("file", "aside"), RenameLog("file", "aside")>>
             \/ todo = <<RenameMain("file", "aside"), RenameLog("file", "aside")>>
       \/ /\ main["file"] = None /\ main["aside"] = "damaged"
          /\ todo = <<RenameLog("file", "aside")>> \/ todo = <<>>

Starting ==
    /\ Between
    /\ recovered => history.crashed
    /\ notice = "interrupted" => history.cut
    /\ at \in {"validate", "import"} => notice = "none"
    /\ at # "import" /\ (at = "validate" \/ notice # "none") => history.had
    /\ ~history.cut => /\ at # "fresh" => main["aside"] = None
                       /\ at \in {"open", "fresh"} /\ notice = "none" /\ history.staged => main["file"] = "import"
    /\ \/ Importing \/ BackingUp \/ TakingPlace \/ InPlace \/ Accepting
       \/ Dropping \/ Restoring \/ Opening \/ MovingAside

Running ==
    /\ main["file"] \in {"reader", "behind", "import", "fresh"} /\ log["file"] = None /\ main["backup"] = None
    /\ Told

BInv ==
    /\ TypeOK /\ Directory
    /\ phase = "off" => Off
    /\ phase = "starting" => Starting
    /\ phase = "session" => Running

-----------------------------------------------------------------------------
(***************************************************************************)
(* The programs of the start, call by call.                                *)
(***************************************************************************)

\* Two calls and the calls that follow them are one sequence: two, four and six more.
LEMMA TwoAndTwo ==
  ASSUME NEW a, NEW b, NEW c, NEW d
  PROVE  <<a, b>> \o <<c, d>> = <<a, b, c, d>>
<1> DEFINE S == {a, b, c, d}
           s == <<a, b>>   t == <<c, d>>   u == <<a, b, c, d>>
<1>1. s \in Seq(S) /\ t \in Seq(S) /\ u \in Seq(S) /\ Len(s) = 2 /\ Len(t) = 2 /\ Len(u) = 4
  OBVIOUS
<1>2. s \o t \in Seq(S) /\ Len(s \o t) = 4
  BY <1>1, ConcatProperties
<1>3. \A i \in 1..4 : (s \o t)[i] = IF i <= 2 THEN s[i] ELSE t[i - 2]
  BY <1>1, ConcatProperties
<1>4. (s \o t)[1] = u[1] /\ (s \o t)[2] = u[2] /\ (s \o t)[3] = u[3] /\ (s \o t)[4] = u[4]
  BY <1>3
<1> HIDE DEF s, t, u
<1>5. \A i \in 1..4 : (s \o t)[i] = u[i]
  <2>1. \A i \in 1..4 : i = 1 \/ i = 2 \/ i = 3 \/ i = 4
    OBVIOUS
  <2> QED BY <2>1, <1>4
<1>6. s \o t = u
  BY <1>1, <1>2, <1>5, SeqEqual
<1> QED BY <1>6 DEF s, t, u

\* Two calls before four.
LEMMA TwoAndFour ==
  ASSUME NEW a, NEW b, NEW c, NEW d, NEW e, NEW f
  PROVE  <<a, b>> \o <<c, d, e, f>> = <<a, b, c, d, e, f>>
<1> DEFINE S == {a, b, c, d, e, f}
           s == <<a, b>>   t == <<c, d, e, f>>   u == <<a, b, c, d, e, f>>
<1>1. s \in Seq(S) /\ t \in Seq(S) /\ u \in Seq(S) /\ Len(s) = 2 /\ Len(t) = 4 /\ Len(u) = 6
  OBVIOUS
<1>2. s \o t \in Seq(S) /\ Len(s \o t) = 6
  BY <1>1, ConcatProperties
<1>3. \A i \in 1..6 : (s \o t)[i] = IF i <= 2 THEN s[i] ELSE t[i - 2]
  BY <1>1, ConcatProperties
<1>4. /\ (s \o t)[1] = u[1] /\ (s \o t)[2] = u[2] /\ (s \o t)[3] = u[3]
      /\ (s \o t)[4] = u[4] /\ (s \o t)[5] = u[5] /\ (s \o t)[6] = u[6]
  BY <1>3
<1> HIDE DEF s, t, u
<1>5. \A i \in 1..6 : (s \o t)[i] = u[i]
  <2>1. \A i \in 1..6 : i = 1 \/ i = 2 \/ i = 3 \/ i = 4 \/ i = 5 \/ i = 6
    OBVIOUS
  <2> QED BY <2>1, <1>4
<1>6. s \o t = u
  BY <1>1, <1>2, <1>5, SeqEqual
<1> QED BY <1>6 DEF s, t, u

\* Four before four.
LEMMA FourAndFour ==
  ASSUME NEW a, NEW b, NEW c, NEW d,
         NEW e, NEW f, NEW g, NEW h
  PROVE  <<a, b, c, d>> \o <<e, f, g, h>> = <<a, b, c, d, e, f, g, h>>
<1> DEFINE S == {a, b, c, d, e, f, g, h}
           s == <<a, b, c, d>>   t == <<e, f, g, h>>   u == <<a, b, c, d, e, f, g, h>>
<1>1. s \in Seq(S) /\ t \in Seq(S) /\ u \in Seq(S) /\ Len(s) = 4 /\ Len(t) = 4 /\ Len(u) = 8
  OBVIOUS
<1>2. s \o t \in Seq(S) /\ Len(s \o t) = 8
  BY <1>1, ConcatProperties
<1>3. \A i \in 1..8 : (s \o t)[i] = IF i <= 4 THEN s[i] ELSE t[i - 4]
  BY <1>1, ConcatProperties
<1>4. /\ (s \o t)[1] = u[1] /\ (s \o t)[2] = u[2] /\ (s \o t)[3] = u[3] /\ (s \o t)[4] = u[4]
      /\ (s \o t)[5] = u[5] /\ (s \o t)[6] = u[6] /\ (s \o t)[7] = u[7] /\ (s \o t)[8] = u[8]
  BY <1>3
<1> HIDE DEF s, t, u
<1>5. \A i \in 1..8 : (s \o t)[i] = u[i]
  <2>1. \A i \in 1..8 : i = 1 \/ i = 2 \/ i = 3 \/ i = 4 \/ i = 5 \/ i = 6 \/ i = 7 \/ i = 8
    OBVIOUS
  <2> QED BY <2>1, <1>4
<1>6. s \o t = u
  BY <1>1, <1>2, <1>5, SeqEqual
<1> QED BY <1>6 DEF s, t, u

\* The four calls are calls.
LEMMA CallsTyped ==
  ASSUME NEW p \in Places, NEW q \in Places
  PROVE  /\ RemoveMain(p) \in Calls /\ RemoveLog(p) \in Calls
         /\ RenameMain(p, q) \in Calls /\ RenameLog(p, q) \in Calls
BY DEF Calls, RemoveMain, RemoveLog, RenameMain, RenameLog

\* A move is four calls.
LEMMA MoveCalls ==
  ASSUME NEW p \in Places, NEW q \in Places
  PROVE  Move(p, q) = <<RemoveMain(q), RemoveLog(q), RenameMain(p, q), RenameLog(p, q)>>
<1>1. /\ RemoveMain(q) \in Calls /\ RemoveLog(q) \in Calls
      /\ RenameMain(p, q) \in Calls /\ RenameLog(p, q) \in Calls
  BY CallsTyped
<1>2. Move(p, q) = <<RemoveMain(q), RemoveLog(q)>> \o <<RenameMain(p, q), RenameLog(p, q)>>
  BY DEF Move, Remove, RemoveMain, RemoveLog, RenameMain, RenameLog
<1> QED BY <1>2, TwoAndTwo

\* To restore is to remove the file and move the backup there.
LEMMA RestoreCalls ==
  Restore = <<RemoveMain("file"), RemoveLog("file"),
              RemoveMain("file"), RemoveLog("file"), RenameMain("backup", "file"), RenameLog("backup", "file")>>
<1>1. /\ RemoveMain("file") \in Calls /\ RemoveLog("file") \in Calls
      /\ RenameMain("backup", "file") \in Calls /\ RenameLog("backup", "file") \in Calls
  BY CallsTyped DEF Places
<1>2. Restore = <<RemoveMain("file"), RemoveLog("file")>>
                  \o <<RemoveMain("file"), RemoveLog("file"), RenameMain("backup", "file"), RenameLog("backup", "file")>>
  BY MoveCalls DEF Restore, Remove, RemoveMain, RemoveLog, Places
<1> QED BY <1>2, TwoAndFour

\* A refused import is removed, and the backup restored.
LEMMA DropCalls ==
  Remove("staged") \o Restore =
     <<RemoveMain("staged"), RemoveLog("staged"), RemoveMain("file"), RemoveLog("file"),
       RemoveMain("file"), RemoveLog("file"), RenameMain("backup", "file"), RenameLog("backup", "file")>>
<1>1. /\ RemoveMain("file") \in Calls /\ RemoveLog("file") \in Calls
      /\ RemoveMain("staged") \in Calls /\ RemoveLog("staged") \in Calls
      /\ RenameMain("backup", "file") \in Calls /\ RenameLog("backup", "file") \in Calls
  BY CallsTyped DEF Places
<1> DEFINE back == <<RemoveMain("file"), RemoveLog("file"), RenameMain("backup", "file"), RenameLog("backup", "file")>>
           dropped == <<RemoveMain("staged"), RemoveLog("staged")>>
           clear == <<RemoveMain("file"), RemoveLog("file")>>
<1>2. back \in Seq(Calls) /\ dropped \in Seq(Calls) /\ clear \in Seq(Calls)
  BY <1>1
<1>3. Restore = clear \o back
  BY MoveCalls DEF Restore, Remove, RemoveMain, RemoveLog, Places
<1>4. Remove("staged") = dropped
  BY DEF Remove, RemoveMain, RemoveLog
<1>5. dropped \o clear = <<RemoveMain("staged"), RemoveLog("staged"), RemoveMain("file"), RemoveLog("file")>>
  BY TwoAndTwo
<1>6. <<RemoveMain("staged"), RemoveLog("staged"), RemoveMain("file"), RemoveLog("file")>> \o back =
        <<RemoveMain("staged"), RemoveLog("staged"), RemoveMain("file"), RemoveLog("file"),
          RemoveMain("file"), RemoveLog("file"), RenameMain("backup", "file"), RenameLog("backup", "file")>>
  BY FourAndFour
<1> HIDE DEF back, dropped, clear
<1>7. dropped \o (clear \o back) = (dropped \o clear) \o back
  BY <1>2, ConcatAssociative
<1> QED BY <1>3, <1>4, <1>5, <1>6, <1>7

\* An import takes the place of the database in eight calls.
LEMMA ReplaceCalls ==
  Move("file", "backup") \o Move("staged", "file") =
     <<RemoveMain("backup"), RemoveLog("backup"), RenameMain("file", "backup"), RenameLog("file", "backup"),
       RemoveMain("file"), RemoveLog("file"), RenameMain("staged", "file"), RenameLog("staged", "file")>>
<1>1. /\ RemoveMain("file") \in Calls /\ RemoveLog("file") \in Calls
      /\ RemoveMain("backup") \in Calls /\ RemoveLog("backup") \in Calls
      /\ RenameMain("file", "backup") \in Calls /\ RenameLog("file", "backup") \in Calls
      /\ RenameMain("staged", "file") \in Calls /\ RenameLog("staged", "file") \in Calls
  BY CallsTyped DEF Places
<1>2. /\ Move("file", "backup") =
            <<RemoveMain("backup"), RemoveLog("backup"), RenameMain("file", "backup"), RenameLog("file", "backup")>>
      /\ Move("staged", "file") =
            <<RemoveMain("file"), RemoveLog("file"), RenameMain("staged", "file"), RenameLog("staged", "file")>>
  BY MoveCalls DEF Places
<1>3. <<RemoveMain("backup"), RemoveLog("backup"), RenameMain("file", "backup"), RenameLog("file", "backup")>>
        \o <<RemoveMain("file"), RemoveLog("file"), RenameMain("staged", "file"), RenameLog("staged", "file")>>
      = <<RemoveMain("backup"), RemoveLog("backup"), RenameMain("file", "backup"), RenameLog("file", "backup"),
          RemoveMain("file"), RemoveLog("file"), RenameMain("staged", "file"), RenameLog("staged", "file")>>
  BY FourAndFour
<1> QED BY <1>2, <1>3

\* What may stand before or after a program is nothing.
LEMMA NothingAround ==
  /\ \A p, q \in Places : Move(p, q) \in Seq(Calls) /\ <<>> \o Move(p, q) = Move(p, q)
  /\ \A p \in Places : Remove(p) \in Seq(Calls) /\ Remove(p) \o <<>> = Remove(p)
<1>1. \A p, q \in Places : Move(p, q) \in Seq(Calls)
  <2> SUFFICES ASSUME NEW p \in Places, NEW q \in Places PROVE Move(p, q) \in Seq(Calls)
    OBVIOUS
  <2>1. Move(p, q) = <<RemoveMain(q), RemoveLog(q), RenameMain(p, q), RenameLog(p, q)>>
    BY MoveCalls
  <2> QED BY <2>1, CallsTyped
<1>2. \A p \in Places : Remove(p) \in Seq(Calls)
  <2> SUFFICES ASSUME NEW p \in Places PROVE Remove(p) \in Seq(Calls)
    OBVIOUS
  <2>1. Remove(p) = <<RemoveMain(p), RemoveLog(p)>>
    BY DEF Remove, RemoveMain, RemoveLog
  <2> QED BY <2>1, CallsTyped
<1> QED BY <1>1, <1>2, ConcatEmptySeq

-----------------------------------------------------------------------------
(***************************************************************************)
(* A call to the file system, at each point of a start.                    *)
(***************************************************************************)

\* What each of the four calls does, place by place.
LEMMA Does ==
  ASSUME TypeOK, Do, NEW p \in Places, NEW q \in Places, p # q
  PROVE  /\ Head(todo) = RemoveMain(p) =>
               log' = log /\ \A r \in Places : main'[r] = IF r = p THEN None ELSE main[r]
         /\ Head(todo) = RemoveLog(p) =>
               main' = main /\ \A r \in Places : log'[r] = IF r = p THEN None ELSE log[r]
         /\ Head(todo) = RenameMain(p, q) =>
               /\ main[p] # None /\ log' = log
               /\ \A r \in Places : main'[r] = IF r = p THEN None ELSE IF r = q THEN main[p] ELSE main[r]
         /\ Head(todo) = RenameLog(p, q) =>
               /\ main' = main
               /\ \A r \in Places : log'[r] = IF r = p THEN None ELSE IF r = q THEN log[p] ELSE log[r]
<1>1. main \in [Places -> Contents \cup {None}] /\ log \in [Places -> {"commits", None}]
  BY DEF TypeOK
<1>2. ~Impossible(Head(todo)) /\ Apply(Head(todo))
  BY DEF Do
<1> DEFINE c == Head(todo)
<1>3. ASSUME c = RemoveMain(p)
      PROVE  log' = log /\ \A r \in Places : main'[r] = IF r = p THEN None ELSE main[r]
  <2> HIDE DEF c
  <2>1. c.op = "remove main" /\ c.from = p
    BY <1>3 DEF RemoveMain
  <2> QED BY <1>1, <1>2, <2>1 DEF Apply, c
<1>4. ASSUME c = RemoveLog(p)
      PROVE  main' = main /\ \A r \in Places : log'[r] = IF r = p THEN None ELSE log[r]
  <2> HIDE DEF c
  <2>1. c.op = "remove log" /\ c.from = p
    BY <1>4 DEF RemoveLog
  <2> QED BY <1>1, <1>2, <2>1 DEF Apply, c
<1>5. ASSUME c = RenameMain(p, q)
      PROVE  /\ main[p] # None /\ log' = log
             /\ \A r \in Places : main'[r] = IF r = p THEN None ELSE IF r = q THEN main[p] ELSE main[r]
  <2> HIDE DEF c
  <2>1. c.op = "rename main" /\ c.from = p /\ c.to = q
    BY <1>5 DEF RenameMain
  <2> QED BY <1>1, <1>2, <2>1 DEF Apply, Impossible, c
<1>6. ASSUME c = RenameLog(p, q)
      PROVE  /\ main' = main
             /\ \A r \in Places : log'[r] = IF r = p THEN None ELSE IF r = q THEN log[p] ELSE log[r]
  <2> HIDE DEF c
  <2>1. c.op = "rename log" /\ c.from = p /\ c.to = q
    BY <1>6 DEF RenameLog
  <2> QED BY <1>1, <1>2, <2>1 DEF Apply, c
<1> HIDE DEF c
<1> QED BY <1>3, <1>4, <1>5, <1>6 DEF c

\* A call changes nothing but the directory and the calls to come.
Elsewhere ==
    /\ phase = "starting" /\ todo' = Tail(todo)
    /\ UNCHANGED <<mark, phase, at, notice, setAside, recovered, cuts, history>>

\* A call to the file system leaves the rest of the start as it is.
LEMMA DoesElsewhere == Do => Elsewhere
BY DEF Do, Elsewhere

\* A call keeps the types.
LEMMA DoTyped == TypeOK /\ Do => TypeOK'
<1> SUFFICES ASSUME TypeOK, Do PROVE TypeOK'
  OBVIOUS
<1>1. Head(todo) \in Calls /\ todo' \in Seq(Calls)
  BY DEF TypeOK, Do
<1>2. /\ main \in [Places -> Contents \cup {None}] /\ log \in [Places -> {"commits", None}]
      /\ Apply(Head(todo))
  BY DEF TypeOK, Do
<1> DEFINE c == Head(todo)
<1>3. /\ c.op \in {"remove main", "remove log", "rename main", "rename log"} /\ c.from \in Places
      /\ c.op \in {"rename main", "rename log"} => c.to \in Places
  BY <1>1 DEF Calls
<1> HIDE DEF c
<1>4. main' \in [Places -> Contents \cup {None}] /\ log' \in [Places -> {"commits", None}]
  <2>1. Apply(c)
    BY <1>2 DEF c
  <2>2. CASE c.op = "remove main"
    BY <2>1, <2>2, <1>2, <1>3 DEF Apply
  <2>3. CASE c.op = "remove log"
    BY <2>1, <2>3, <1>2, <1>3 DEF Apply
  <2>4. CASE c.op = "rename main"
    BY <2>1, <2>4, <1>2, <1>3 DEF Apply
  <2>5. CASE c.op = "rename log"
    BY <2>1, <2>5, <1>2, <1>3 DEF Apply
  <2> QED BY <2>2, <2>3, <2>4, <2>5, <1>3
<1>5. UNCHANGED <<mark, phase, at, notice, setAside, recovered, cuts, history>>
  BY DEF Do
<1> QED BY <1>1, <1>4, <1>5 DEF TypeOK

\* The moves of the database to the backup keep the invariant.
LEMMA DoBackingUp ==
  ASSUME TypeOK, Directory, Starting, BackingUp, Do
  PROVE  Directory' /\ Starting'
<1>1. Elsewhere /\ main["file"] \in Contents \cup {None}
  BY DoesElsewhere DEF TypeOK, Places
<1>2. CASE /\ todo = <<RemoveMain("backup"), RemoveLog("backup"), RenameMain("file", "backup"), RenameLog("file", "backup"),
                    RemoveMain("file"), RemoveLog("file"), RenameMain("staged", "file"), RenameLog("staged", "file")>>
           /\ main["file"] # None /\ main["backup"] = None
           /\ Sound => Complete("file")
  <2>1. Head(todo) = RemoveMain("backup") /\ Tail(todo) = <<RemoveLog("backup"), RenameMain("file", "backup"), RenameLog("file", "backup"),
                      RemoveMain("file"), RemoveLog("file"), RenameMain("staged", "file"), RenameLog("staged", "file")>>
    BY <1>2
  <2>2. /\ main'["file"] = main["file"] /\ main'["staged"] = main["staged"] /\ main'["backup"] = None /\ main'["aside"] = main["aside"]
        /\ log' = log
    BY <2>1, Does DEF Places
  <2>3. todo' = <<RemoveLog("backup"), RenameMain("file", "backup"), RenameLog("file", "backup"),
                  RemoveMain("file"), RemoveLog("file"), RenameMain("staged", "file"), RenameLog("staged", "file")>>
    BY <1>1, <2>1 DEF Elsewhere
  <2>4. Directory'
    BY <1>1, <2>2, <1>2, NoneAssumption DEF Directory, Starting, Between, BackingUp, Following, Databases, Contents
  <2>5. BackingUp'
    BY <1>1, <1>2, <2>2, <2>3, NoneAssumption
       DEF Elsewhere, BackingUp, Directory, Starting, Between, Stands, Survives, Complete, Following, Sound, Databases, Contents
  <2>6. Starting'
    BY <1>1, <1>2, <2>2, <2>5, NoneAssumption
       DEF Elsewhere, BackingUp, Directory, Starting, Between, Following, Databases, Contents
  <2> QED BY <2>4, <2>6
<1>3. CASE /\ todo = <<RemoveLog("backup"), RenameMain("file", "backup"), RenameLog("file", "backup"),
                    RemoveMain("file"), RemoveLog("file"), RenameMain("staged", "file"), RenameLog("staged", "file")>>
           /\ main["file"] # None /\ main["backup"] = None
           /\ Sound => Complete("file")
  <2>1. Head(todo) = RemoveLog("backup") /\ Tail(todo) = <<RenameMain("file", "backup"), RenameLog("file", "backup"),
                      RemoveMain("file"), RemoveLog("file"), RenameMain("staged", "file"), RenameLog("staged", "file")>>
    BY <1>3
  <2>2. /\ main' = main
        /\ log'["file"] = log["file"] /\ log'["staged"] = log["staged"] /\ log'["backup"] = None /\ log'["aside"] = log["aside"]
    BY <2>1, Does DEF Places
  <2>3. todo' = <<RenameMain("file", "backup"), RenameLog("file", "backup"),
                  RemoveMain("file"), RemoveLog("file"), RenameMain("staged", "file"), RenameLog("staged", "file")>>
    BY <1>1, <2>1 DEF Elsewhere
  <2>4. Directory'
    BY <1>1, <2>2, <1>3, NoneAssumption DEF Directory, Starting, Between, BackingUp, Following, Databases, Contents
  <2>5. BackingUp'
    BY <1>1, <1>3, <2>2, <2>3, NoneAssumption
       DEF Elsewhere, BackingUp, Directory, Starting, Between, Stands, Survives, Complete, Following, Sound, Databases, Contents
  <2>6. Starting'
    BY <1>1, <1>3, <2>2, <2>5, NoneAssumption
       DEF Elsewhere, BackingUp, Directory, Starting, Between, Following, Databases, Contents
  <2> QED BY <2>4, <2>6
<1>4. CASE /\ todo = <<RenameMain("file", "backup"), RenameLog("file", "backup"),
                    RemoveMain("file"), RemoveLog("file"), RenameMain("staged", "file"), RenameLog("staged", "file")>>
           /\ main["file"] # None /\ main["backup"] = None
           /\ log["backup"] = None
           /\ Sound => Complete("file")
  <2>1. Head(todo) = RenameMain("file", "backup") /\ Tail(todo) = <<RenameLog("file", "backup"),
                      RemoveMain("file"), RemoveLog("file"), RenameMain("staged", "file"), RenameLog("staged", "file")>>
    BY <1>4
  <2>2. /\ main'["file"] = None /\ main'["staged"] = main["staged"] /\ main'["backup"] = main["file"] /\ main'["aside"] = main["aside"]
        /\ log' = log
        /\ main["file"] # None
    BY <2>1, Does DEF Places
  <2>3. todo' = <<RenameLog("file", "backup"),
                  RemoveMain("file"), RemoveLog("file"), RenameMain("staged", "file"), RenameLog("staged", "file")>>
    BY <1>1, <2>1 DEF Elsewhere
  <2>4. Directory'
    BY <1>1, <2>2, <1>4, NoneAssumption DEF Directory, Starting, Between, BackingUp, Following, Databases, Contents
  <2>5. BackingUp'
    BY <1>1, <1>4, <2>2, <2>3, NoneAssumption
       DEF Elsewhere, BackingUp, Directory, Starting, Between, Stands, Survives, Complete, Following, Sound, Databases, Contents
  <2>6. Starting'
    BY <1>1, <1>4, <2>2, <2>5, NoneAssumption
       DEF Elsewhere, BackingUp, Directory, Starting, Between, Following, Databases, Contents
  <2> QED BY <2>4, <2>6
<1>5. CASE /\ todo = <<RenameLog("file", "backup"),
                    RemoveMain("file"), RemoveLog("file"), RenameMain("staged", "file"), RenameLog("staged", "file")>>
           /\ Following("file", "backup")
  <2>1. Head(todo) = RenameLog("file", "backup") /\ Tail(todo) = <<RemoveMain("file"), RemoveLog("file"), RenameMain("staged", "file"), RenameLog("staged", "file")>>
    BY <1>5
  <2>2. /\ main' = main
        /\ log'["file"] = None /\ log'["staged"] = log["staged"] /\ log'["backup"] = log["file"] /\ log'["aside"] = log["aside"]
    BY <2>1, Does DEF Places
  <2>3. todo' = <<RemoveMain("file"), RemoveLog("file"), RenameMain("staged", "file"), RenameLog("staged", "file")>>
    BY <1>1, <2>1 DEF Elsewhere
  <2>4. Directory'
    BY <1>1, <2>2, <1>5, NoneAssumption DEF Directory, Starting, Between, BackingUp, Following, Databases, Contents
  <2>5. TakingPlace'
    BY <1>1, <1>5, <2>2, <2>3, NoneAssumption
       DEF Elsewhere, BackingUp, TakingPlace, Directory, Starting, Between, Stands, Survives, Complete, Following, Sound, Databases, Contents
  <2>6. Starting'
    BY <1>1, <1>5, <2>2, <2>5, NoneAssumption
       DEF Elsewhere, BackingUp, TakingPlace, Directory, Starting, Between, Following, Databases, Contents
  <2> QED BY <2>4, <2>6
<1> QED BY <1>2, <1>3, <1>4, <1>5 DEF BackingUp

\* The moves of the import to the place of the database keep it.
LEMMA DoTakingPlace ==
  ASSUME TypeOK, Directory, Starting, TakingPlace, Do
  PROVE  Directory' /\ Starting'
<1>1. Elsewhere /\ main["file"] \in Contents \cup {None}
  BY DoesElsewhere DEF TypeOK, Places
<1>2. CASE /\ todo = <<RemoveMain("file"), RemoveLog("file"), RenameMain("staged", "file"), RenameLog("staged", "file")>>
  <2>1. Head(todo) = RemoveMain("file") /\ Tail(todo) = <<RemoveLog("file"), RenameMain("staged", "file"), RenameLog("staged", "file")>>
    BY <1>2
  <2>2. /\ main'["file"] = None /\ main'["staged"] = main["staged"] /\ main'["backup"] = main["backup"] /\ main'["aside"] = main["aside"]
        /\ log' = log
    BY <2>1, Does DEF Places
  <2>3. todo' = <<RemoveLog("file"), RenameMain("staged", "file"), RenameLog("staged", "file")>>
    BY <1>1, <2>1 DEF Elsewhere
  <2>4. Directory'
    BY <1>1, <2>2, <1>2, NoneAssumption DEF Directory, Starting, Between, TakingPlace, Following, Databases, Contents
  <2>5. TakingPlace'
    BY <1>1, <1>2, <2>2, <2>3, NoneAssumption
       DEF Elsewhere, TakingPlace, Directory, Starting, Between, Stands, Survives, Complete, Following, Sound, Databases, Contents
  <2>6. Starting'
    BY <1>1, <1>2, <2>2, <2>5, NoneAssumption
       DEF Elsewhere, TakingPlace, Directory, Starting, Between, Following, Databases, Contents
  <2> QED BY <2>4, <2>6
<1>3. CASE /\ todo = <<RemoveLog("file"), RenameMain("staged", "file"), RenameLog("staged", "file")>>
  <2>1. Head(todo) = RemoveLog("file") /\ Tail(todo) = <<RenameMain("staged", "file"), RenameLog("staged", "file")>>
    BY <1>3
  <2>2. /\ main' = main
        /\ log'["file"] = None /\ log'["staged"] = log["staged"] /\ log'["backup"] = log["backup"] /\ log'["aside"] = log["aside"]
    BY <2>1, Does DEF Places
  <2>3. todo' = <<RenameMain("staged", "file"), RenameLog("staged", "file")>>
    BY <1>1, <2>1 DEF Elsewhere
  <2>4. Directory'
    BY <1>1, <2>2, <1>3, NoneAssumption DEF Directory, Starting, Between, TakingPlace, Following, Databases, Contents
  <2>5. TakingPlace'
    BY <1>1, <1>3, <2>2, <2>3, NoneAssumption
       DEF Elsewhere, TakingPlace, Directory, Starting, Between, Stands, Survives, Complete, Following, Sound, Databases, Contents
  <2>6. Starting'
    BY <1>1, <1>3, <2>2, <2>5, NoneAssumption
       DEF Elsewhere, TakingPlace, Directory, Starting, Between, Following, Databases, Contents
  <2> QED BY <2>4, <2>6
<1>4. CASE /\ todo = <<RenameMain("staged", "file"), RenameLog("staged", "file")>>
           /\ log["file"] = None
  <2>1. Head(todo) = RenameMain("staged", "file") /\ Tail(todo) = <<RenameLog("staged", "file")>>
    BY <1>4
  <2>2. /\ main'["file"] = main["staged"] /\ main'["staged"] = None /\ main'["backup"] = main["backup"] /\ main'["aside"] = main["aside"]
        /\ log' = log
        /\ main["staged"] # None
    BY <2>1, Does DEF Places
  <2>3. todo' = <<RenameLog("staged", "file")>>
    BY <1>1, <2>1 DEF Elsewhere
  <2>4. Directory'
    BY <1>1, <2>2, <1>4, NoneAssumption DEF Directory, Starting, Between, TakingPlace, Following, Databases, Contents
  <2>5. InPlace'
    BY <1>1, <1>4, <2>2, <2>3, NoneAssumption
       DEF Elsewhere, TakingPlace, InPlace, Directory, Starting, Between, Stands, Survives, Complete, Following, Sound, Databases, Contents
  <2>6. Starting'
    BY <1>1, <1>4, <2>2, <2>5, NoneAssumption
       DEF Elsewhere, TakingPlace, InPlace, Directory, Starting, Between, Following, Databases, Contents
  <2> QED BY <2>4, <2>6
<1> QED BY <1>2, <1>3, <1>4 DEF TakingPlace

\* The log of an import, which it does not have, follows it.
LEMMA DoInPlace ==
  ASSUME TypeOK, Directory, Starting, InPlace, Do
  PROVE  Directory' /\ Starting'
<1>1. Elsewhere /\ main["file"] \in Contents \cup {None}
  BY DoesElsewhere DEF TypeOK, Places
<1>2. CASE /\ todo = <<RenameLog("staged", "file")>>
  <2>1. Head(todo) = RenameLog("staged", "file") /\ Tail(todo) = <<>>
    BY <1>2
  <2>2. /\ main' = main
        /\ log'["file"] = log["staged"] /\ log'["staged"] = None /\ log'["backup"] = log["backup"] /\ log'["aside"] = log["aside"]
    BY <2>1, Does DEF Places
  <2>3. todo' = <<>>
    BY <1>1, <2>1 DEF Elsewhere
  <2>4. Directory'
    BY <1>1, <2>2, <1>2, NoneAssumption DEF Directory, Starting, Between, InPlace, Following, Databases, Contents
  <2>5. InPlace'
    BY <1>1, <1>2, <2>2, <2>3, NoneAssumption
       DEF Elsewhere, InPlace, Directory, Starting, Between, Stands, Survives, Complete, Following, Sound, Databases, Contents
  <2>6. Starting'
    BY <1>1, <1>2, <2>2, <2>5, NoneAssumption
       DEF Elsewhere, InPlace, Directory, Starting, Between, Following, Databases, Contents
  <2> QED BY <2>4, <2>6
<1>3. CASE /\ todo = <<>>
  BY <1>3 DEF Do
<1> QED BY <1>2, <1>3 DEF InPlace

\* The removal of the backup keeps it.
LEMMA DoAccepting ==
  ASSUME TypeOK, Directory, Starting, Accepting, Do
  PROVE  Directory' /\ Starting'
<1>1. Elsewhere /\ main["file"] \in Contents \cup {None}
  BY DoesElsewhere DEF TypeOK, Places
<1>2. CASE /\ todo = <<RemoveMain("backup"), RemoveLog("backup")>>
           /\ Stands
  <2>1. Head(todo) = RemoveMain("backup") /\ Tail(todo) = <<RemoveLog("backup")>>
    BY <1>2
  <2>2. /\ main'["file"] = main["file"] /\ main'["staged"] = main["staged"] /\ main'["backup"] = None /\ main'["aside"] = main["aside"]
        /\ log' = log
    BY <2>1, Does DEF Places
  <2>3. todo' = <<RemoveLog("backup")>>
    BY <1>1, <2>1 DEF Elsewhere
  <2>4. Directory'
    BY <1>1, <2>2, <1>2, NoneAssumption DEF Directory, Starting, Between, Accepting, Following, Databases, Contents
  <2>5. Accepting'
    BY <1>1, <1>2, <2>2, <2>3, NoneAssumption
       DEF Elsewhere, Accepting, Directory, Starting, Between, Stands, Survives, Complete, Following, Sound, Databases, Contents
  <2>6. Starting'
    BY <1>1, <1>2, <2>2, <2>5, NoneAssumption
       DEF Elsewhere, Accepting, Directory, Starting, Between, Following, Databases, Contents
  <2> QED BY <2>4, <2>6
<1>3. CASE /\ todo = <<RemoveLog("backup")>>
           /\ main["backup"] = None
  <2>1. Head(todo) = RemoveLog("backup") /\ Tail(todo) = <<>>
    BY <1>3
  <2>2. /\ main' = main
        /\ log'["file"] = log["file"] /\ log'["staged"] = log["staged"] /\ log'["backup"] = None /\ log'["aside"] = log["aside"]
    BY <2>1, Does DEF Places
  <2>3. todo' = <<>>
    BY <1>1, <2>1 DEF Elsewhere
  <2>4. Directory'
    BY <1>1, <2>2, <1>3, NoneAssumption DEF Directory, Starting, Between, Accepting, Following, Databases, Contents
  <2>5. Opening'
    BY <1>1, <1>3, <2>2, <2>3, NoneAssumption
       DEF Elsewhere, Accepting, Opening, Directory, Starting, Between, Stands, Survives, Complete, Following, Sound, Databases, Contents
  <2>6. Starting'
    BY <1>1, <1>3, <2>2, <2>5, NoneAssumption
       DEF Elsewhere, Accepting, Opening, Directory, Starting, Between, Following, Databases, Contents
  <2> QED BY <2>4, <2>6
<1> QED BY <1>2, <1>3 DEF Accepting

\* The removal of a refused import keeps it.
LEMMA DoDropping ==
  ASSUME TypeOK, Directory, Starting, Dropping, Do
  PROVE  Directory' /\ Starting'
<1>1. Elsewhere /\ main["file"] \in Contents \cup {None}
  BY DoesElsewhere DEF TypeOK, Places
<1>2. CASE /\ todo = <<RemoveMain("staged"), RemoveLog("staged")>>
           /\ main["backup"] = None
           /\ Sound => Complete("file")
  <2>1. Head(todo) = RemoveMain("staged") /\ Tail(todo) = <<RemoveLog("staged")>>
    BY <1>2
  <2>2. /\ main'["file"] = main["file"] /\ main'["staged"] = None /\ main'["backup"] = main["backup"] /\ main'["aside"] = main["aside"]
        /\ log' = log
    BY <2>1, Does DEF Places
  <2>3. todo' = <<RemoveLog("staged")>>
    BY <1>1, <2>1 DEF Elsewhere
  <2>4. Directory'
    BY <1>1, <2>2, <1>2, NoneAssumption DEF Directory, Starting, Between, Dropping, Following, Databases, Contents
  <2>5. Dropping'
    BY <1>1, <1>2, <2>2, <2>3, NoneAssumption
       DEF Elsewhere, Dropping, Directory, Starting, Between, Stands, Survives, Complete, Following, Sound, Databases, Contents
  <2>6. Starting'
    BY <1>1, <1>2, <2>2, <2>5, NoneAssumption
       DEF Elsewhere, Dropping, Directory, Starting, Between, Following, Databases, Contents
  <2> QED BY <2>4, <2>6
<1>3. CASE /\ todo = <<RemoveLog("staged")>>
           /\ main["staged"] = None /\ main["backup"] = None
           /\ Sound => Complete("file")
  <2>1. Head(todo) = RemoveLog("staged") /\ Tail(todo) = <<>>
    BY <1>3
  <2>2. /\ main' = main
        /\ log'["file"] = log["file"] /\ log'["staged"] = None /\ log'["backup"] = log["backup"] /\ log'["aside"] = log["aside"]
    BY <2>1, Does DEF Places
  <2>3. todo' = <<>>
    BY <1>1, <2>1 DEF Elsewhere
  <2>4. Directory'
    BY <1>1, <2>2, <1>3, NoneAssumption DEF Directory, Starting, Between, Dropping, Following, Databases, Contents
  <2>5. Opening'
    BY <1>1, <1>3, <2>2, <2>3, NoneAssumption
       DEF Elsewhere, Dropping, Opening, Directory, Starting, Between, Stands, Survives, Complete, Following, Sound, Databases, Contents
  <2>6. Starting'
    BY <1>1, <1>3, <2>2, <2>5, NoneAssumption
       DEF Elsewhere, Dropping, Opening, Directory, Starting, Between, Following, Databases, Contents
  <2> QED BY <2>4, <2>6
<1>4. CASE /\ todo = <<RemoveMain("staged"), RemoveLog("staged"), RemoveMain("file"), RemoveLog("file"),
                    RemoveMain("file"), RemoveLog("file"), RenameMain("backup", "file"), RenameLog("backup", "file")>>
           /\ main["backup"] # None /\ main["file"] = None
           /\ Sound => Complete("backup")
  <2>1. Head(todo) = RemoveMain("staged") /\ Tail(todo) = <<RemoveLog("staged"), RemoveMain("file"), RemoveLog("file"),
                      RemoveMain("file"), RemoveLog("file"), RenameMain("backup", "file"), RenameLog("backup", "file")>>
    BY <1>4
  <2>2. /\ main'["file"] = main["file"] /\ main'["staged"] = None /\ main'["backup"] = main["backup"] /\ main'["aside"] = main["aside"]
        /\ log' = log
    BY <2>1, Does DEF Places
  <2>3. todo' = <<RemoveLog("staged"), RemoveMain("file"), RemoveLog("file"),
                  RemoveMain("file"), RemoveLog("file"), RenameMain("backup", "file"), RenameLog("backup", "file")>>
    BY <1>1, <2>1 DEF Elsewhere
  <2>4. Directory'
    BY <1>1, <2>2, <1>4, NoneAssumption DEF Directory, Starting, Between, Dropping, Following, Databases, Contents
  <2>5. Dropping'
    BY <1>1, <1>4, <2>2, <2>3, NoneAssumption
       DEF Elsewhere, Dropping, Directory, Starting, Between, Stands, Survives, Complete, Following, Sound, Databases, Contents
  <2>6. Starting'
    BY <1>1, <1>4, <2>2, <2>5, NoneAssumption
       DEF Elsewhere, Dropping, Directory, Starting, Between, Following, Databases, Contents
  <2> QED BY <2>4, <2>6
<1>5. CASE /\ todo = <<RemoveLog("staged"), RemoveMain("file"), RemoveLog("file"),
                    RemoveMain("file"), RemoveLog("file"), RenameMain("backup", "file"), RenameLog("backup", "file")>>
           /\ main["backup"] # None /\ main["file"] = None /\ main["staged"] = None
           /\ Sound => Complete("backup")
  <2>1. Head(todo) = RemoveLog("staged") /\ Tail(todo) = <<RemoveMain("file"), RemoveLog("file"),
                      RemoveMain("file"), RemoveLog("file"), RenameMain("backup", "file"), RenameLog("backup", "file")>>
    BY <1>5
  <2>2. /\ main' = main
        /\ log'["file"] = log["file"] /\ log'["staged"] = None /\ log'["backup"] = log["backup"] /\ log'["aside"] = log["aside"]
    BY <2>1, Does DEF Places
  <2>3. todo' = <<RemoveMain("file"), RemoveLog("file"),
                  RemoveMain("file"), RemoveLog("file"), RenameMain("backup", "file"), RenameLog("backup", "file")>>
    BY <1>1, <2>1 DEF Elsewhere
  <2>4. Directory'
    BY <1>1, <2>2, <1>5, NoneAssumption DEF Directory, Starting, Between, Dropping, Following, Databases, Contents
  <2>5. Restoring'
    BY <1>1, <1>5, <2>2, <2>3, NoneAssumption
       DEF Elsewhere, Dropping, Restoring, Directory, Starting, Between, Stands, Survives, Complete, Following, Sound, Databases, Contents
  <2>6. Starting'
    BY <1>1, <1>5, <2>2, <2>5, NoneAssumption
       DEF Elsewhere, Dropping, Restoring, Directory, Starting, Between, Following, Databases, Contents
  <2> QED BY <2>4, <2>6
<1> QED BY <1>2, <1>3, <1>4, <1>5 DEF Dropping

\* The moves that bring the backup back keep it.
LEMMA DoRestoring ==
  ASSUME TypeOK, Directory, Starting, Restoring, Do
  PROVE  Directory' /\ Starting'
<1>1. Elsewhere /\ main["file"] \in Contents \cup {None}
  BY DoesElsewhere DEF TypeOK, Places
<1>2. CASE /\ todo = <<RemoveMain("file"), RemoveLog("file"),
                    RemoveMain("file"), RemoveLog("file"), RenameMain("backup", "file"), RenameLog("backup", "file")>>
           /\ Sound => Complete("backup")
  <2>1. Head(todo) = RemoveMain("file") /\ Tail(todo) = <<RemoveLog("file"),
                      RemoveMain("file"), RemoveLog("file"), RenameMain("backup", "file"), RenameLog("backup", "file")>>
    BY <1>2
  <2>2. /\ main'["file"] = None /\ main'["staged"] = main["staged"] /\ main'["backup"] = main["backup"] /\ main'["aside"] = main["aside"]
        /\ log' = log
    BY <2>1, Does DEF Places
  <2>3. todo' = <<RemoveLog("file"),
                  RemoveMain("file"), RemoveLog("file"), RenameMain("backup", "file"), RenameLog("backup", "file")>>
    BY <1>1, <2>1 DEF Elsewhere
  <2>4. Directory'
    BY <1>1, <2>2, <1>2, NoneAssumption DEF Directory, Starting, Between, Restoring, Following, Databases, Contents
  <2>5. Restoring'
    BY <1>1, <1>2, <2>2, <2>3, NoneAssumption
       DEF Elsewhere, Restoring, Directory, Starting, Between, Stands, Survives, Complete, Following, Sound, Databases, Contents
  <2>6. Starting'
    BY <1>1, <1>2, <2>2, <2>5, NoneAssumption
       DEF Elsewhere, Restoring, Directory, Starting, Between, Following, Databases, Contents
  <2> QED BY <2>4, <2>6
<1>3. CASE /\ todo = <<RemoveLog("file"),
                    RemoveMain("file"), RemoveLog("file"), RenameMain("backup", "file"), RenameLog("backup", "file")>>
           /\ main["file"] = None
           /\ Sound => Complete("backup")
  <2>1. Head(todo) = RemoveLog("file") /\ Tail(todo) = <<RemoveMain("file"), RemoveLog("file"), RenameMain("backup", "file"), RenameLog("backup", "file")>>
    BY <1>3
  <2>2. /\ main' = main
        /\ log'["file"] = None /\ log'["staged"] = log["staged"] /\ log'["backup"] = log["backup"] /\ log'["aside"] = log["aside"]
    BY <2>1, Does DEF Places
  <2>3. todo' = <<RemoveMain("file"), RemoveLog("file"), RenameMain("backup", "file"), RenameLog("backup", "file")>>
    BY <1>1, <2>1 DEF Elsewhere
  <2>4. Directory'
    BY <1>1, <2>2, <1>3, NoneAssumption DEF Directory, Starting, Between, Restoring, Following, Databases, Contents
  <2>5. Restoring'
    BY <1>1, <1>3, <2>2, <2>3, NoneAssumption
       DEF Elsewhere, Restoring, Directory, Starting, Between, Stands, Survives, Complete, Following, Sound, Databases, Contents
  <2>6. Starting'
    BY <1>1, <1>3, <2>2, <2>5, NoneAssumption
       DEF Elsewhere, Restoring, Directory, Starting, Between, Following, Databases, Contents
  <2> QED BY <2>4, <2>6
<1>4. CASE /\ todo = <<RemoveMain("file"), RemoveLog("file"), RenameMain("backup", "file"), RenameLog("backup", "file")>>
           /\ main["file"] = None
           /\ Sound => Complete("backup")
  <2>1. Head(todo) = RemoveMain("file") /\ Tail(todo) = <<RemoveLog("file"), RenameMain("backup", "file"), RenameLog("backup", "file")>>
    BY <1>4
  <2>2. /\ main'["file"] = None /\ main'["staged"] = main["staged"] /\ main'["backup"] = main["backup"] /\ main'["aside"] = main["aside"]
        /\ log' = log
    BY <2>1, Does DEF Places
  <2>3. todo' = <<RemoveLog("file"), RenameMain("backup", "file"), RenameLog("backup", "file")>>
    BY <1>1, <2>1 DEF Elsewhere
  <2>4. Directory'
    BY <1>1, <2>2, <1>4, NoneAssumption DEF Directory, Starting, Between, Restoring, Following, Databases, Contents
  <2>5. Restoring'
    BY <1>1, <1>4, <2>2, <2>3, NoneAssumption
       DEF Elsewhere, Restoring, Directory, Starting, Between, Stands, Survives, Complete, Following, Sound, Databases, Contents
  <2>6. Starting'
    BY <1>1, <1>4, <2>2, <2>5, NoneAssumption
       DEF Elsewhere, Restoring, Directory, Starting, Between, Following, Databases, Contents
  <2> QED BY <2>4, <2>6
<1>5. CASE /\ todo = <<RemoveLog("file"), RenameMain("backup", "file"), RenameLog("backup", "file")>>
           /\ main["file"] = None
           /\ Sound => Complete("backup")
  <2>1. Head(todo) = RemoveLog("file") /\ Tail(todo) = <<RenameMain("backup", "file"), RenameLog("backup", "file")>>
    BY <1>5
  <2>2. /\ main' = main
        /\ log'["file"] = None /\ log'["staged"] = log["staged"] /\ log'["backup"] = log["backup"] /\ log'["aside"] = log["aside"]
    BY <2>1, Does DEF Places
  <2>3. todo' = <<RenameMain("backup", "file"), RenameLog("backup", "file")>>
    BY <1>1, <2>1 DEF Elsewhere
  <2>4. Directory'
    BY <1>1, <2>2, <1>5, NoneAssumption DEF Directory, Starting, Between, Restoring, Following, Databases, Contents
  <2>5. Restoring'
    BY <1>1, <1>5, <2>2, <2>3, NoneAssumption
       DEF Elsewhere, Restoring, Directory, Starting, Between, Stands, Survives, Complete, Following, Sound, Databases, Contents
  <2>6. Starting'
    BY <1>1, <1>5, <2>2, <2>5, NoneAssumption
       DEF Elsewhere, Restoring, Directory, Starting, Between, Following, Databases, Contents
  <2> QED BY <2>4, <2>6
<1>6. CASE /\ todo = <<RenameMain("backup", "file"), RenameLog("backup", "file")>>
           /\ main["file"] = None /\ log["file"] = None
           /\ Sound => Complete("backup")
  <2>1. Head(todo) = RenameMain("backup", "file") /\ Tail(todo) = <<RenameLog("backup", "file")>>
    BY <1>6
  <2>2. /\ main'["file"] = main["backup"] /\ main'["staged"] = main["staged"] /\ main'["backup"] = None /\ main'["aside"] = main["aside"]
        /\ log' = log
        /\ main["backup"] # None
    BY <2>1, Does DEF Places
  <2>3. todo' = <<RenameLog("backup", "file")>>
    BY <1>1, <2>1 DEF Elsewhere
  <2>4. Directory'
    BY <1>1, <2>2, <1>6, NoneAssumption DEF Directory, Starting, Between, Restoring, Following, Databases, Contents
  <2>5. Restoring'
    BY <1>1, <1>6, <2>2, <2>3, NoneAssumption
       DEF Elsewhere, Restoring, Directory, Starting, Between, Stands, Survives, Complete, Following, Sound, Databases, Contents
  <2>6. Starting'
    BY <1>1, <1>6, <2>2, <2>5, NoneAssumption
       DEF Elsewhere, Restoring, Directory, Starting, Between, Following, Databases, Contents
  <2> QED BY <2>4, <2>6
<1>7. CASE /\ todo = <<RenameLog("backup", "file")>>
           /\ Following("backup", "file")
  <2>1. Head(todo) = RenameLog("backup", "file") /\ Tail(todo) = <<>>
    BY <1>7
  <2>2. /\ main' = main
        /\ log'["file"] = log["backup"] /\ log'["staged"] = log["staged"] /\ log'["backup"] = None /\ log'["aside"] = log["aside"]
    BY <2>1, Does DEF Places
  <2>3. todo' = <<>>
    BY <1>1, <2>1 DEF Elsewhere
  <2>4. Directory'
    BY <1>1, <2>2, <1>7, NoneAssumption DEF Directory, Starting, Between, Restoring, Following, Databases, Contents
  <2>5. Opening'
    BY <1>1, <1>7, <2>2, <2>3, NoneAssumption
       DEF Elsewhere, Restoring, Opening, Directory, Starting, Between, Stands, Survives, Complete, Following, Sound, Databases, Contents
  <2>6. Starting'
    BY <1>1, <1>7, <2>2, <2>5, NoneAssumption
       DEF Elsewhere, Restoring, Opening, Directory, Starting, Between, Following, Databases, Contents
  <2> QED BY <2>4, <2>6
<1> QED BY <1>2, <1>3, <1>4, <1>5, <1>6, <1>7 DEF Restoring

\* The moves of an unreadable database keep it.
LEMMA DoMovingAside ==
  ASSUME TypeOK, Directory, Starting, MovingAside, Do
  PROVE  Directory' /\ Starting'
<1>1. Elsewhere /\ main["file"] \in Contents \cup {None}
  BY DoesElsewhere DEF TypeOK, Places
<1>2. CASE /\ todo = <<RemoveMain("aside"), RemoveLog("aside"), RenameMain("file", "aside"), RenameLog("file", "aside")>>
           /\ main["file"] = "damaged" /\ main["aside"] = None
  <2>1. Head(todo) = RemoveMain("aside") /\ Tail(todo) = <<RemoveLog("aside"), RenameMain("file", "aside"), RenameLog("file", "aside")>>
    BY <1>2
  <2>2. /\ main'["file"] = main["file"] /\ main'["staged"] = main["staged"] /\ main'["backup"] = main["backup"] /\ main'["aside"] = None
        /\ log' = log
    BY <2>1, Does DEF Places
  <2>3. todo' = <<RemoveLog("aside"), RenameMain("file", "aside"), RenameLog("file", "aside")>>
    BY <1>1, <2>1 DEF Elsewhere
  <2>4. Directory'
    BY <1>1, <2>2, <1>2, NoneAssumption DEF Directory, Starting, Between, MovingAside, Following, Databases, Contents
  <2>5. MovingAside'
    BY <1>1, <1>2, <2>2, <2>3, NoneAssumption
       DEF Elsewhere, MovingAside, Directory, Starting, Between, Stands, Survives, Complete, Following, Sound, Databases, Contents
  <2>6. Starting'
    BY <1>1, <1>2, <2>2, <2>5, NoneAssumption
       DEF Elsewhere, MovingAside, Directory, Starting, Between, Following, Databases, Contents
  <2> QED BY <2>4, <2>6
<1>3. CASE /\ todo = <<RemoveLog("aside"), RenameMain("file", "aside"), RenameLog("file", "aside")>>
           /\ main["file"] = "damaged" /\ main["aside"] = None
  <2>1. Head(todo) = RemoveLog("aside") /\ Tail(todo) = <<RenameMain("file", "aside"), RenameLog("file", "aside")>>
    BY <1>3
  <2>2. /\ main' = main
        /\ log'["file"] = log["file"] /\ log'["staged"] = log["staged"] /\ log'["backup"] = log["backup"] /\ log'["aside"] = None
    BY <2>1, Does DEF Places
  <2>3. todo' = <<RenameMain("file", "aside"), RenameLog("file", "aside")>>
    BY <1>1, <2>1 DEF Elsewhere
  <2>4. Directory'
    BY <1>1, <2>2, <1>3, NoneAssumption DEF Directory, Starting, Between, MovingAside, Following, Databases, Contents
  <2>5. MovingAside'
    BY <1>1, <1>3, <2>2, <2>3, NoneAssumption
       DEF Elsewhere, MovingAside, Directory, Starting, Between, Stands, Survives, Complete, Following, Sound, Databases, Contents
  <2>6. Starting'
    BY <1>1, <1>3, <2>2, <2>5, NoneAssumption
       DEF Elsewhere, MovingAside, Directory, Starting, Between, Following, Databases, Contents
  <2> QED BY <2>4, <2>6
<1>4. CASE /\ todo = <<RenameMain("file", "aside"), RenameLog("file", "aside")>>
           /\ main["file"] = "damaged" /\ main["aside"] = None
  <2>1. Head(todo) = RenameMain("file", "aside") /\ Tail(todo) = <<RenameLog("file", "aside")>>
    BY <1>4
  <2>2. /\ main'["file"] = None /\ main'["staged"] = main["staged"] /\ main'["backup"] = main["backup"] /\ main'["aside"] = main["file"]
        /\ log' = log
        /\ main["file"] # None
    BY <2>1, Does DEF Places
  <2>3. todo' = <<RenameLog("file", "aside")>>
    BY <1>1, <2>1 DEF Elsewhere
  <2>4. Directory'
    BY <1>1, <2>2, <1>4, NoneAssumption DEF Directory, Starting, Between, MovingAside, Following, Databases, Contents
  <2>5. MovingAside'
    BY <1>1, <1>4, <2>2, <2>3, NoneAssumption
       DEF Elsewhere, MovingAside, Directory, Starting, Between, Stands, Survives, Complete, Following, Sound, Databases, Contents
  <2>6. Starting'
    BY <1>1, <1>4, <2>2, <2>5, NoneAssumption
       DEF Elsewhere, MovingAside, Directory, Starting, Between, Following, Databases, Contents
  <2> QED BY <2>4, <2>6
<1>5. CASE /\ todo = <<RenameLog("file", "aside")>>
           /\ main["file"] = None /\ main["aside"] = "damaged"
  <2>1. Head(todo) = RenameLog("file", "aside") /\ Tail(todo) = <<>>
    BY <1>5
  <2>2. /\ main' = main
        /\ log'["file"] = None /\ log'["staged"] = log["staged"] /\ log'["backup"] = log["backup"] /\ log'["aside"] = log["file"]
    BY <2>1, Does DEF Places
  <2>3. todo' = <<>>
    BY <1>1, <2>1 DEF Elsewhere
  <2>4. Directory'
    BY <1>1, <2>2, <1>5, NoneAssumption DEF Directory, Starting, Between, MovingAside, Following, Databases, Contents
  <2>5. MovingAside'
    BY <1>1, <1>5, <2>2, <2>3, NoneAssumption
       DEF Elsewhere, MovingAside, Directory, Starting, Between, Stands, Survives, Complete, Following, Sound, Databases, Contents
  <2>6. Starting'
    BY <1>1, <1>5, <2>2, <2>5, NoneAssumption
       DEF Elsewhere, MovingAside, Directory, Starting, Between, Following, Databases, Contents
  <2> QED BY <2>4, <2>6
<1>6. CASE /\ todo = <<>>
  BY <1>6 DEF Do
<1> QED BY <1>2, <1>3, <1>4, <1>5, <1>6 DEF MovingAside

\* A call of a start keeps the invariant, at whatever point the start is.
LEMMA DoKeeps == BInv /\ Do => BInv'
<1> SUFFICES ASSUME BInv, Do PROVE BInv'
  OBVIOUS
<1>1. TypeOK /\ Directory /\ Starting /\ phase' = "starting" /\ todo # <<>>
  BY DEF BInv, Do
<1>2. ~Importing /\ ~Opening
  BY <1>1 DEF Importing, Opening
<1>3. \/ BackingUp \/ TakingPlace \/ InPlace \/ Accepting \/ Dropping \/ Restoring \/ MovingAside
  BY <1>1, <1>2 DEF Starting
<1>4. Directory' /\ Starting'
  BY <1>1, <1>3, DoBackingUp, DoTakingPlace, DoInPlace, DoAccepting, DoDropping, DoRestoring, DoMovingAside
<1> QED BY <1>1, <1>4, DoTyped DEF BInv

-----------------------------------------------------------------------------
(***************************************************************************)
(* The steps between the calls.                                            *)
(***************************************************************************)

\* What the check of a file spends stays within the bound.
LEMMA CheckSpends ==
  ASSUME TypeOK, NEW good \in BOOLEAN, Passes(good) \/ Refuses(good)
  PROVE  cuts' \in 0..MaxCuts
BY CutsAssumption DEF TypeOK, Passes, Refuses, Budget, Spend

\* A label and a program of calls have their types.
LEMMA GotoTyped ==
  ASSUME TypeOK, NEW label \in Labels, NEW calls \in Seq(Calls), Goto(label, calls),
         notice' \in Notices, cuts' \in 0..MaxCuts
  PROVE  TypeOK'
BY DEF TypeOK, Goto, directory

\* The programs are sequences of calls.
LEMMA ProgramsTyped ==
  /\ Remove("backup") \in Seq(Calls) /\ Remove("staged") \in Seq(Calls) /\ Restore \in Seq(Calls)
  /\ Remove("staged") \o Restore \in Seq(Calls)
  /\ Move("staged", "file") \in Seq(Calls) /\ Move("file", "aside") \in Seq(Calls)
  /\ Move("file", "backup") \o Move("staged", "file") \in Seq(Calls)
<1>1. \A p, q \in Places : /\ RemoveMain(p) \in Calls /\ RemoveLog(p) \in Calls
                           /\ RenameMain(p, q) \in Calls /\ RenameLog(p, q) \in Calls
  BY CallsTyped
<1>2. Remove("backup") \in Seq(Calls) /\ Remove("staged") \in Seq(Calls)
  BY NothingAround DEF Places
<1>3. Restore \in Seq(Calls)
  BY <1>1, RestoreCalls DEF Places
<1>5. /\ Move("staged", "file") \in Seq(Calls) /\ Move("file", "aside") \in Seq(Calls)
      /\ Move("file", "backup") \in Seq(Calls)
  BY NothingAround DEF Places
<1>6. \A s, t \in Seq(Calls) : s \o t \in Seq(Calls)
  BY ConcatProperties
<1> QED BY <1>2, <1>3, <1>5, <1>6

\* The initial state satisfies the invariant.
LEMMA InitKeeps == Init => BInv
<1> SUFFICES ASSUME Init PROVE BInv
  OBVIOUS
<1>1. TypeOK
  <2>1. todo \in Seq(Calls)
    BY DEF Init
  <2>2. main \in [Places -> Contents \cup {None}] /\ log \in [Places -> {"commits", None}] /\ cuts \in 0..MaxCuts
    BY CutsAssumption DEF Init
  <2>3. history \in [had : BOOLEAN, staged : BOOLEAN, cut : BOOLEAN, parted : BOOLEAN, crashed : BOOLEAN]
    BY DEF Init
  <2> QED BY <2>1, <2>2, <2>3 DEF Init, TypeOK, Labels, Notices
<1>2. Directory
  BY NoneAssumption DEF Init, Directory, Places, Contents
<1>3. Off
  BY NoneAssumption DEF Init, Off, Between, Stands, Sound, Places, Contents
<1> QED BY <1>1, <1>2, <1>3 DEF BInv, Init

\* A start that took the lock has yet to look at what is staged.
LEMMA AcquireKeeps == BInv /\ Acquire => BInv'
<1> SUFFICES ASSUME BInv, Acquire PROVE BInv'
  OBVIOUS
<1>1. TypeOK /\ Directory /\ Off
  BY DEF BInv, Acquire
<1>2. TypeOK'
  <2>1. todo' \in Seq(Calls)
    BY DEF Acquire
  <2> QED BY <1>1, <2>1 DEF Acquire, TypeOK, directory, Labels, Notices
<1>5. Directory'
  BY <1>1 DEF Acquire, Directory, directory
<1>3. Importing'
  BY <1>1 DEF Acquire, Off, Importing, Stands, Sound, Survives, Complete, directory
<1>4. Starting'
  BY <1>1, <1>3 DEF Acquire, Off, Starting, Between, directory
<1> QED BY <1>2, <1>4, <1>5 DEF BInv, Acquire

\* A lock that cannot be taken leaves the directory alone.
LEMMA AcquireFailsKeeps == BInv /\ AcquireFails => BInv'
<1> SUFFICES ASSUME BInv, AcquireFails PROVE BInv'
  OBVIOUS
<1>1. TypeOK /\ Directory /\ Off
  BY DEF BInv, AcquireFails
<1>2. /\ main' = main /\ log' = log /\ history' = history /\ phase' = phase /\ mark' \in {mark, FALSE}
      /\ at' = at /\ todo' = todo /\ notice' = notice /\ setAside' = setAside /\ recovered' = recovered
  BY DEF AcquireFails, directory, start
<1>4. TypeOK'
  <2>1. cuts' \in 0..MaxCuts
    BY <1>1, CutsAssumption DEF TypeOK, AcquireFails, Budget, Spend
  <2>2. mark' \in BOOLEAN
    BY <1>1, <1>2 DEF TypeOK
  <2> QED BY <1>1, <1>2, <2>1, <2>2 DEF TypeOK
<1>5. Directory'
  BY <1>1, <1>2 DEF Directory
<1>6. mark' => history.crashed
  BY <1>1, <1>2 DEF Off
<1>3. Off'
  BY <1>1, <1>2, <1>6 DEF Off, Between, Stands, Sound, Survives, Complete
<1> QED BY <1>3, <1>4, <1>5 DEF BInv, AcquireFails

\* A start that is ready for what is staged has not touched the directory yet.
LEMMA ReadyToImport == Starting /\ Ready("import") => Importing
BY DEF Starting, Ready, Importing, BackingUp, TakingPlace, InPlace, Accepting, Dropping, Restoring, Opening, MovingAside

\* One that is ready to validate has the import in its place.
LEMMA ReadyToValidate == Starting /\ Ready("validate") => InPlace
BY DEF Starting, Ready, Importing, BackingUp, TakingPlace, InPlace, Accepting, Dropping, Restoring, Opening, MovingAside

\* One that is ready to open has nothing left to do in the directory.
LEMMA ReadyToOpen ==
  /\ Starting /\ Ready("open") => Opening
  /\ Starting /\ Ready("fresh") =>
        /\ at = "fresh" /\ main["staged"] = None /\ main["backup"] = None
        /\ main["file"] = None /\ main["aside"] = "damaged"
BY SMTT(30) DEF Starting, Ready, Importing, BackingUp, TakingPlace, InPlace, Accepting, Dropping, Restoring, Opening, MovingAside

\* Where a start may be cut without parting a main file from its log, the
\* database of the reader stands.
Parting == todo # <<>> /\ Head(todo).op = "rename log" /\ log[Head(todo).from] # None

\* What the last call of a move is.
LEMMA RenameLogIs ==
  ASSUME NEW p, NEW q
  PROVE  RenameLog(p, q).op = "rename log" /\ RenameLog(p, q).from = p
BY DEF RenameLog

\* Wherever a start is cut, except between the two, the database of the reader stands.
LEMMA StandsAnywhere == TypeOK /\ Directory /\ Starting /\ ~Parting => Stands
<1> SUFFICES ASSUME TypeOK, Directory, Starting, ~Parting PROVE Stands
  OBVIOUS
<1>1. CASE Importing
  BY <1>1 DEF Importing
<1>2. CASE BackingUp
  <2>1. CASE /\ main["file"] # None /\ main["backup"] = None
             /\ Sound => Complete("file")
    BY <2>1 DEF Stands, Survives
  <2>2. CASE /\ Following("file", "backup")
             /\ todo = <<RenameLog("file", "backup"),
                         RemoveMain("file"), RemoveLog("file"), RenameMain("staged", "file"), RenameLog("staged", "file")>>
    <3>1. todo # <<>> /\ Head(todo) = RenameLog("file", "backup")
      BY <2>2
    <3>2. Head(todo).op = "rename log" /\ Head(todo).from = "file"
      BY ZenonT(30), <3>1, RenameLogIs, Zenon
    <3>3. log["file"] = None
      BY <3>1, <3>2 DEF Parting
    <3> QED BY <2>2, <3>3, NoneAssumption DEF Following, Stands, Survives, Complete
  <2> QED BY <1>2, <2>1, <2>2 DEF BackingUp
<1>3. CASE TakingPlace \/ InPlace
  BY <1>3 DEF TakingPlace, InPlace, Stands, Survives
<1>4. CASE Accepting
  BY <1>4 DEF Accepting, Stands, Survives
<1>5. CASE Dropping
  BY <1>5 DEF Dropping, Stands, Survives
<1>6. CASE Restoring
  <2>1. CASE Sound => Complete("backup")
    BY <2>1 DEF Stands, Survives
  <2>2. CASE /\ todo = <<RenameLog("backup", "file")>>
             /\ Following("backup", "file")
    <3>1. todo # <<>> /\ Head(todo) = RenameLog("backup", "file")
      BY <2>2
    <3>2. Head(todo).op = "rename log" /\ Head(todo).from = "backup"
      BY ZenonT(30), <3>1, RenameLogIs, Zenon
    <3>3. log["backup"] = None
      BY <3>1, <3>2 DEF Parting
    <3> QED BY <2>2, <3>3, NoneAssumption DEF Following, Stands, Survives, Complete
  <2> QED BY <1>6, <2>1, <2>2 DEF Restoring
<1>7. CASE Opening
  BY <1>7 DEF Opening, Stands
<1>8. CASE MovingAside
  BY <1>8 DEF MovingAside, Stands, Survives, Complete
<1> QED BY <1>1, <1>2, <1>3, <1>4, <1>5, <1>6, <1>7, <1>8 DEF Starting

\* The machine refuses a call, or the start fails: the database stands, unless it
\* was being parted from its log, and the lock is released.
LEMMA FailKeeps == BInv /\ Fail => BInv'
<1> SUFFICES ASSUME BInv, Fail PROVE BInv'
  OBVIOUS
<1>1. TypeOK /\ Directory /\ Starting /\ Between
  BY DEF BInv, Fail, Starting
<1>2. /\ log' = log /\ phase' = "off" /\ mark' = FALSE
      /\ at' = at /\ todo' = todo /\ notice' = notice /\ setAside' = setAside /\ recovered' = recovered
      /\ history' = [history EXCEPT !.cut = TRUE, !.parted = @ \/ Parting]
  BY DEF Fail, Cut, start, Parting
<1>3. /\ history'.had = history.had /\ history'.staged = history.staged /\ history'.crashed = history.crashed
      /\ history'.cut /\ (~history'.parted => ~history.parted /\ ~Parting)
  BY <1>1, <1>2 DEF TypeOK
<1>4. \/ main' = main
      \/ /\ todo = <<>> /\ at \in {"open", "fresh"} /\ main["file"] = None
         /\ main' = [main EXCEPT !["file"] = "fresh"]
  BY DEF Fail
<1>5. TypeOK'
  <2>1. main' \in [Places -> Contents \cup {None}]
    BY <1>1, <1>4 DEF TypeOK, Contents, Places
  <2>2. cuts' \in 0..MaxCuts
    BY <1>1, CutsAssumption DEF TypeOK, Fail, Budget, Spend
  <2>3. history' \in [had : BOOLEAN, staged : BOOLEAN, cut : BOOLEAN, parted : BOOLEAN, crashed : BOOLEAN]
    <3>1. Parting \in BOOLEAN
      BY DEF Parting
    <3> QED BY <1>1, <1>2, <3>1 DEF TypeOK
  <2> QED BY <1>1, <1>2, <2>1, <2>2, <2>3 DEF TypeOK
<1>6. Directory' /\ Off'
  <2>1. Sound' => Sound /\ ~Parting
    BY <1>3 DEF Sound
  <2>2. CASE main' = main
    <3>1. Directory' /\ Between'
      BY <1>1, <1>2, <1>3, <2>2 DEF Directory, Between
    <3>2. Stands'
      BY <1>1, <1>2, <2>1, <2>2, StandsAnywhere DEF Stands, Survives, Complete
    <3> QED BY <1>2, <1>3, <3>1, <3>2 DEF Off
  <2>3. CASE /\ todo = <<>> /\ at \in {"open", "fresh"} /\ main["file"] = None
             /\ main' = [main EXCEPT !["file"] = "fresh"]
    <3>1. /\ main'["file"] = "fresh" /\ main'["staged"] = main["staged"]
          /\ main'["backup"] = main["backup"] /\ main'["aside"] = main["aside"]
      BY <1>1, <2>3 DEF TypeOK, Places
    <3>2. main["staged"] = None /\ main["backup"] = None
      <4>1. Ready("open") \/ Ready("fresh")
        BY <2>3 DEF Ready, Fail
      <4> QED BY <1>1, <4>1, ReadyToOpen DEF Opening
    <3>3. Stands
      BY <1>1, <2>3, StandsAnywhere DEF Parting
    <3>4. Directory' /\ Between'
      BY <1>1, <1>2, <1>3, <3>1, <3>2, NoneAssumption DEF Directory, Between, Contents
    <3>5. Stands'
      BY <1>2, <2>1, <2>3, <3>1, <3>2, <3>3, NoneAssumption DEF Stands, Survives, Complete, Contents
    <3> QED BY <1>2, <1>3, <3>4, <3>5 DEF Off
  <2> QED BY <1>4, <2>2, <2>3
<1> QED BY <1>2, <1>5, <1>6 DEF BInv

\* The process dies in a start: the same, with the mark left in the lock file.
LEMMA CrashStartingKeeps == BInv /\ CrashStarting => BInv'
<1> SUFFICES ASSUME BInv, CrashStarting PROVE BInv'
  OBVIOUS
<1>1. TypeOK /\ Directory /\ Starting /\ Between
  BY DEF BInv, CrashStarting, Starting
<1>2. /\ main' = main /\ log' = log /\ phase' = "off" /\ mark' = mark
      /\ at' = at /\ todo' = todo /\ notice' = notice /\ setAside' = setAside /\ recovered' = recovered
      /\ history' = [history EXCEPT !.cut = TRUE, !.parted = @ \/ Parting, !.crashed = TRUE]
  BY DEF CrashStarting, directory, start, Parting
<1>3. /\ history'.had = history.had /\ history'.staged = history.staged /\ history'.crashed
      /\ history'.cut /\ (~history'.parted => ~history.parted /\ ~Parting)
  BY <1>1, <1>2 DEF TypeOK
<1>4. TypeOK'
  <2>1. cuts' \in 0..MaxCuts
    BY <1>1, CutsAssumption DEF TypeOK, CrashStarting, Budget, Spend
  <2>2. history' \in [had : BOOLEAN, staged : BOOLEAN, cut : BOOLEAN, parted : BOOLEAN, crashed : BOOLEAN]
    <3>1. Parting \in BOOLEAN
      BY DEF Parting
    <3> QED BY <1>1, <1>2, <3>1 DEF TypeOK
  <2> QED BY <1>1, <1>2, <2>1, <2>2 DEF TypeOK
<1>5. Directory' /\ Between'
  BY <1>1, <1>2, <1>3 DEF Directory, Between
<1>6. Stands'
  <2>1. Sound' => Sound /\ ~Parting
    BY <1>3 DEF Sound
  <2> QED BY <1>1, <1>2, <2>1, StandsAnywhere DEF Stands, Survives, Complete
<1> QED BY <1>2, <1>3, <1>4, <1>5, <1>6 DEF BInv, Off

-----------------------------------------------------------------------------
(***************************************************************************)
(* The decisions of a start.                                               *)
(***************************************************************************)

\* A decision sets where the start is, its calls, its notice and what it spent.
Decides(label, calls, told) ==
    /\ phase' = "starting" /\ at' = label /\ todo' = calls /\ notice' = told
    /\ main' = main /\ log' = log /\ mark' = mark /\ recovered' = recovered /\ history' = history

\* A step to a label is such a decision.
LEMMA GotoDecides ==
  ASSUME NEW label, NEW calls, NEW told, phase = "starting", notice' = told, Goto(label, calls)
  PROVE  Decides(label, calls, told)
BY DEF Goto, directory, Decides

\* The directory is as it was, whatever is decided.
LEMMA DecidesDirectory ==
  ASSUME NEW label, NEW calls, NEW told, Decides(label, calls, told), Directory, Between
  PROVE  Directory' /\ Between'
BY DEF Decides, Directory, Between

\* An import that was interrupted is accepted, or the backup comes back.
LEMMA InterruptedKeeps ==
  ASSUME BInv, Ready("import"), Interrupted
  PROVE  BInv'
<1>1. TypeOK /\ Directory /\ Starting /\ Between /\ Importing /\ phase = "starting"
  BY ReadyToImport DEF BInv, Ready, Starting
<1>2. main["backup"] # None /\ main["staged"] = None /\ history.cut /\ history.had /\ Stands
  BY <1>1 DEF Interrupted, HasBackup, HasStaged, Importing, Between
<1>3. CASE /\ main["file"] # None /\ Passes(Readable("file"))
           /\ notice' = notice
           /\ Goto("open", Remove("backup"))
  <2>1. Decides("open", <<RemoveMain("backup"), RemoveLog("backup")>>, "none")
    BY <1>1, <1>3, GotoDecides DEF Importing, Remove, RemoveMain, RemoveLog
  <2>2. cuts' \in 0..MaxCuts
    BY <1>1, <1>3 DEF Passes, TypeOK
  <2>3. TypeOK'
    BY <1>1, <1>3, <2>2, ProgramsTyped, GotoTyped DEF Labels, TypeOK
  <2>4. Directory' /\ Between'
    BY <1>1, <2>1, DecidesDirectory
  <2>5. main["file"] = "import"
    BY <1>1, <1>2, <1>3 DEF Between
  <2>6. Accepting'
    BY <1>2, <2>1, <2>5 DEF Decides, Accepting, Stands, Survives, Complete, Sound
  <2>7. Starting'
    BY <1>1, <1>2, <2>1, <2>4, <2>6 DEF Decides, Starting
  <2> QED BY <2>1, <2>3, <2>4, <2>7 DEF BInv, Decides
<1>4. CASE /\ IF main["file"] = None THEN UNCHANGED cuts ELSE Refuses(Readable("file"))
           /\ notice' = "interrupted"
           /\ Goto("open", Restore)
  <2>1. Decides("open", Restore, "interrupted")
    BY <1>1, <1>4, GotoDecides
  <2>2. cuts' \in 0..MaxCuts
    BY <1>1, <1>4, CutsAssumption DEF Refuses, Budget, Spend, TypeOK
  <2>3. TypeOK'
    BY <1>1, <1>4, <2>2, ProgramsTyped, GotoTyped DEF Labels, Notices
  <2>4. Directory' /\ Between'
    BY <1>1, <2>1, DecidesDirectory
  <2>5. Restoring'
    BY <1>2, <2>1, RestoreCalls DEF Decides, Restoring, Stands, Complete, Sound
  <2>6. Starting'
    BY <1>1, <1>2, <2>1, <2>4, <2>5 DEF Decides, Starting
  <2> QED BY <2>1, <2>3, <2>4, <2>6 DEF BInv, Decides
<1> QED BY <1>3, <1>4 DEF Interrupted

\* With nothing staged the database is opened.
LEMMA NoImportKeeps ==
  ASSUME BInv, Ready("import"), NoImport
  PROVE  BInv'
<1>1. TypeOK /\ Directory /\ Starting /\ Between /\ Importing /\ phase = "starting"
  BY ReadyToImport DEF BInv, Ready, Starting
<1>2. main["backup"] = None /\ main["staged"] = None
  BY DEF NoImport, HasBackup, HasStaged
<1>3. Decides("open", <<>>, "none")
  BY <1>1, GotoDecides DEF NoImport, Importing
<1>4. TypeOK'
  <2>1. <<>> \in Seq(Calls)
    OBVIOUS
  <2> QED BY <1>1, <2>1, GotoTyped DEF NoImport, Labels, TypeOK
<1>5. Directory' /\ Between'
  BY <1>1, <1>3, DecidesDirectory
<1>6. Opening'
  BY <1>1, <1>2, <1>3 DEF Decides, Opening, Importing, Stands, Survives, Complete, Sound
<1>7. Starting'
  BY <1>1, <1>2, <1>3, <1>5, <1>6 DEF Decides, Starting, Importing
<1> QED BY <1>3, <1>4, <1>5, <1>7 DEF BInv, Decides

\* What holds before a staged import: the database stands where it was, in its place
\* or in the backup an interrupted start left.
LEMMA StagedOver ==
  ASSUME TypeOK, Directory, Between, Importing, main["staged"] # None
  PROVE  /\ history.had
         /\ main["backup"] # None => main["file"] = None /\ (Sound => Complete("backup"))
         /\ main["backup"] = None => (Sound => Complete("file"))
BY NoneAssumption DEF Directory, Between, Importing, Stands, Survives, Complete, Contents

\* A staged file that is not whole goes, and the backup comes back.
LEMMA DroppedKeeps ==
  ASSUME BInv, Ready("import"), Dropped
  PROVE  BInv'
<1>1. TypeOK /\ Directory /\ Starting /\ Between /\ Importing /\ phase = "starting"
  BY ReadyToImport DEF BInv, Ready, Starting
<1>2. main["staged"] # None
  BY DEF Dropped, HasStaged
<1>3. cuts' \in 0..MaxCuts
  BY <1>1, CutsAssumption DEF Dropped, Refuses, Budget, Spend, TypeOK
<1>4. CASE main["backup"] = None
  <2>1. Goto("open", Remove("staged"))
    BY <1>4, NothingAround DEF Dropped, HasBackup, Places
  <2>2. Decides("open", <<RemoveMain("staged"), RemoveLog("staged")>>, "rejected")
    BY <1>1, <2>1, GotoDecides DEF Dropped, Remove, RemoveMain, RemoveLog
  <2>3. TypeOK'
    BY <1>1, <1>3, <2>1, ProgramsTyped, GotoTyped DEF Dropped, Labels, Notices
  <2>4. Directory' /\ Between'
    BY <1>1, <2>2, DecidesDirectory
  <2>5. Dropping'
    BY <1>1, <1>2, <1>4, <2>2, StagedOver DEF Decides, Dropping, Complete, Sound
  <2>6. Starting'
    BY <1>1, <1>2, <2>2, <2>4, <2>5, StagedOver DEF Decides, Starting, Importing
  <2> QED BY <2>2, <2>3, <2>4, <2>6 DEF BInv, Decides
<1>5. CASE main["backup"] # None
  <2>1. Goto("open", Remove("staged") \o Restore)
    BY <1>5 DEF Dropped, HasBackup
  <2>2. Decides("open", Remove("staged") \o Restore, "rejected")
    BY <1>1, <2>1, GotoDecides DEF Dropped
  <2>3. TypeOK'
    BY <1>1, <1>3, <2>1, ProgramsTyped, GotoTyped DEF Dropped, Labels, Notices
  <2>4. Directory' /\ Between'
    BY <1>1, <2>2, DecidesDirectory
  <2>5. Dropping'
    BY <1>1, <1>2, <1>5, <2>2, StagedOver, DropCalls DEF Decides, Dropping, Complete, Sound
  <2>6. Starting'
    BY <1>1, <1>2, <2>2, <2>4, <2>5, StagedOver DEF Decides, Starting, Importing
  <2> QED BY <2>2, <2>3, <2>4, <2>6 DEF BInv, Decides
<1> QED BY <1>4, <1>5

\* A whole one takes the place of the database.
LEMMA PlacedKeeps ==
  ASSUME BInv, Ready("import"), Placed
  PROVE  BInv'
<1>1. TypeOK /\ Directory /\ Starting /\ Between /\ Importing /\ phase = "starting"
  BY ReadyToImport DEF BInv, Ready, Starting
<1>2. main["staged"] = "import" /\ main["staged"] # None
  BY DEF Placed, HasStaged, Passes, Whole
<1>3. cuts' \in 0..MaxCuts
  BY <1>1 DEF Placed, Passes, TypeOK
<1>4. CASE main["file"] # None /\ main["backup"] = None
  <2>1. Goto("validate", Move("file", "backup") \o Move("staged", "file"))
    BY <1>4 DEF Placed, HasBackup
  <2>2. Decides("validate", Move("file", "backup") \o Move("staged", "file"), "none")
    BY <1>1, <2>1, GotoDecides DEF Placed, Importing
  <2>3. TypeOK'
    BY <1>1, <1>3, <2>1, ProgramsTyped, GotoTyped DEF Placed, Labels, TypeOK
  <2>4. Directory' /\ Between'
    BY <1>1, <2>2, DecidesDirectory
  <2>5. BackingUp'
    BY <1>1, <1>2, <1>4, <2>2, StagedOver, ReplaceCalls DEF Decides, BackingUp, Complete, Sound
  <2>6. Starting'
    BY <1>1, <1>2, <2>2, <2>4, <2>5, StagedOver DEF Decides, Starting, Importing
  <2> QED BY <2>2, <2>3, <2>4, <2>6 DEF BInv, Decides
<1>5. CASE ~(main["file"] # None /\ main["backup"] = None)
  <2>1. Goto("validate", Move("staged", "file"))
    BY <1>5, NothingAround DEF Placed, HasBackup, Places
  <2>2. Decides("validate", Move("staged", "file"), "none")
    BY <1>1, <2>1, GotoDecides DEF Placed, Importing
  <2>3. TypeOK'
    BY <1>1, <1>3, <2>1, ProgramsTyped, GotoTyped DEF Placed, Labels, TypeOK
  <2>4. Directory' /\ Between'
    BY <1>1, <2>2, DecidesDirectory
  <2>5. main["file"] = None /\ (Sound => Complete("backup"))
    BY <1>1, <1>2, <1>5, StagedOver, NoneAssumption DEF Complete, Contents
  <2>6. Move("staged", "file") =
           <<RemoveMain("file"), RemoveLog("file"), RenameMain("staged", "file"), RenameLog("staged", "file")>>
    BY MoveCalls DEF Places
  <2>7. TakingPlace'
    BY <1>2, <2>2, <2>5, <2>6 DEF Decides, TakingPlace, Complete, Sound
  <2>8. Starting'
    BY <1>1, <1>2, <2>2, <2>4, <2>7, StagedOver DEF Decides, Starting, Importing
  <2> QED BY <2>2, <2>3, <2>4, <2>8 DEF BInv, Decides
<1> QED BY <1>4, <1>5

\* A start that applies what is staged keeps the invariant.
LEMMA ApplyKeeps == BInv /\ ApplyStagedImport => BInv'
BY InterruptedKeeps, NoImportKeeps, DroppedKeeps, PlacedKeeps DEF ApplyStagedImport

\* So does one that validates what it placed.
LEMMA ValidateKeeps == BInv /\ Validate => BInv'
<1> SUFFICES ASSUME BInv, Validate PROVE BInv'
  OBVIOUS
<1>1. TypeOK /\ Directory /\ Starting /\ Between /\ InPlace /\ phase = "starting" /\ notice = "none" /\ history.had
  BY ReadyToValidate DEF BInv, Ready, Starting, Validate, InPlace
<1>2. main["staged"] = None
  BY <1>1 DEF InPlace, Between
<1>3. CASE /\ Passes(Readable("file"))
           /\ notice' = notice
           /\ Goto("open", Remove("backup"))
  <2>1. Decides("open", <<RemoveMain("backup"), RemoveLog("backup")>>, "none")
    BY <1>1, <1>3, GotoDecides DEF Remove, RemoveMain, RemoveLog
  <2>2. cuts' \in 0..MaxCuts
    BY <1>1, <1>3 DEF Passes, TypeOK
  <2>3. TypeOK'
    BY <1>1, <1>3, <2>2, ProgramsTyped, GotoTyped DEF Labels, TypeOK
  <2>4. Directory' /\ Between'
    BY <1>1, <2>1, DecidesDirectory
  <2>5. Accepting'
    BY <1>1, <2>1 DEF Decides, Accepting, InPlace, Stands, Survives, Complete, Sound
  <2>6. Starting'
    BY <1>1, <2>1, <2>4, <2>5 DEF Decides, Starting, InPlace
  <2> QED BY <2>1, <2>3, <2>4, <2>6 DEF BInv, Decides
<1>4. CASE /\ Refuses(Readable("file"))
           /\ notice' = "rejected"
           /\ Goto("open", Restore)
  <2>1. Decides("open", Restore, "rejected")
    BY <1>1, <1>4, GotoDecides
  <2>2. cuts' \in 0..MaxCuts
    BY <1>1, <1>4, CutsAssumption DEF Refuses, Budget, Spend, TypeOK
  <2>3. TypeOK'
    BY <1>1, <1>4, <2>2, ProgramsTyped, GotoTyped DEF Labels, Notices
  <2>4. Directory' /\ Between'
    BY <1>1, <2>1, DecidesDirectory
  <2>5. Restoring'
    BY <1>1, <1>2, <2>1, RestoreCalls DEF Decides, Restoring, InPlace, Complete, Sound
  <2>6. Starting'
    BY <1>1, <2>1, <2>4, <2>5 DEF Decides, Starting, InPlace
  <2> QED BY <2>1, <2>3, <2>4, <2>6 DEF BInv, Decides
<1> QED BY <1>3, <1>4 DEF Validate

\* The database is opened: a session of the reader, told the truth.
LEMMA OpenedKeeps == BInv /\ Opened => BInv'
<1> SUFFICES ASSUME BInv, Opened PROVE BInv'
  OBVIOUS
<1>1. TypeOK /\ Directory /\ Starting /\ Between /\ (Ready("open") \/ Ready("fresh"))
  BY DEF BInv, Ready, Starting, Opened
<1>2. /\ main["staged"] = None /\ main["backup"] = None
      /\ at = "open" => Opening
      /\ at = "fresh" => main["file"] = None /\ main["aside"] = "damaged"
      /\ at \in {"open", "fresh"}
  BY <1>1, ReadyToOpen DEF Opening, Ready
<1>3. /\ main'["file"] = Merged("file") /\ main'["staged"] = None
      /\ main'["backup"] = None /\ main'["aside"] = main["aside"]
      /\ log'["file"] = None /\ log'["staged"] = log["staged"]
      /\ phase' = "session" /\ setAside' = (at = "fresh")
      /\ notice' = notice /\ recovered' = recovered /\ history' = history
  BY <1>1, <1>2 DEF Opened, TypeOK, Places
<1>4. /\ Merged("file") \in {"reader", "behind", "import", "fresh"}
      /\ main["file"] = None => Merged("file") = "fresh"
      /\ main["file"] = "fresh" => Merged("file") = "fresh"
      /\ main["file"] = "import" => Merged("file") = "import"
      /\ Complete("file") => Merged("file") = "reader"
  <2>1. main["file"] \in {"reader", "behind", "damaged", "import", "fresh", None}
    BY <1>1 DEF TypeOK, Directory, Places, Contents
  <2>2. Merged("file") \notin {"damaged", "torn"}
    BY DEF Opened, Readable
  <2>3. main["file"] = "import" => log["file"] = None
    BY <1>1 DEF Directory
  <2>4. CASE log["file"] = None
    BY <2>1, <2>2, <2>4, NoneAssumption DEF Merged, Complete, Contents
  <2>5. CASE log["file"] # None
    BY <2>1, <2>2, <2>3, <2>5, NoneAssumption DEF Merged, Complete, Contents
  <2> QED BY <2>4, <2>5
<1>5. TypeOK'
  <2>1. Merged("file") \in Contents \cup {None}
    BY <1>4 DEF Contents
  <2>2. main' \in [Places -> Contents \cup {None}] /\ log' \in [Places -> {"commits", None}]
    BY <1>1, <2>1 DEF Opened, TypeOK
  <2>3. setAside' \in BOOLEAN
    BY <1>3
  <2> QED BY <1>1, <2>2, <2>3 DEF Opened, TypeOK
<1>6. Directory'
  BY <1>1, <1>3, <1>4, NoneAssumption DEF Directory, Contents
<1>7. NoticeTrue'
  <2> SUFFICES ASSUME notice # "none", ~history.parted
               PROVE  main'["file"] = "reader" \/ (main'["file"] = "fresh" /\ main'["aside"] = "damaged")
    BY <1>3 DEF NoticeTrue
  <2>1. CASE at = "open"
    BY <1>2, <1>3, <1>4, <2>1 DEF Opening
  <2>2. CASE at = "fresh"
    BY <1>2, <1>3, <1>4, <2>2
  <2> QED BY <1>2, <2>1, <2>2
<1>8. Answered'
  <2> SUFFICES ASSUME ~history.cut
               PROVE  /\ history.staged => main'["file"] = "import" \/ notice = "rejected"
                      /\ main'["aside"] # None => at = "fresh"
    BY <1>3 DEF Answered
  <2>1. history.staged /\ notice = "none" => main["file"] = "import"
    BY <1>1, <1>2 DEF Starting
  <2>2. at # "fresh" => main["aside"] = None
    BY <1>1 DEF Starting
  <2>3. notice \in {"none", "rejected"}
    BY <1>1 DEF TypeOK, Notices, Starting
  <2> QED BY <1>3, <1>4, <2>1, <2>2, <2>3
<1>9. RecoveredReal'
  BY <1>1, <1>3 DEF RecoveredReal, Starting
<1> QED BY <1>3, <1>4, <1>5, <1>6, <1>7, <1>8, <1>9 DEF BInv, Running, Told

\* What cannot be read is moved aside.
LEMMA SetAsideKeeps == BInv /\ SetAside => BInv'
<1> SUFFICES ASSUME BInv, SetAside PROVE BInv'
  OBVIOUS
<1>1. TypeOK /\ Directory /\ Starting /\ Between /\ Opening /\ phase = "starting"
  BY ReadyToOpen DEF BInv, Ready, Starting, SetAside
<1>2. main["file"] = "damaged" /\ main["aside"] = None
  <2>1. main["file"] \in {"reader", "behind", "damaged", "import", "fresh", None}
    BY <1>1 DEF TypeOK, Directory, Places, Contents
  <2>2. Merged("file") \in {"damaged", "torn"}
    BY DEF SetAside, Readable
  <2>3. main["file"] = "damaged"
    <3>1. CASE log["file"] = None
      BY <2>1, <2>2, <3>1, <1>1 DEF Merged, Directory
    <3>2. CASE log["file"] # None
      BY <2>1, <2>2, <3>2, <1>1, NoneAssumption DEF Merged, Directory, Contents
    <3> QED BY <3>1, <3>2
  <2> QED BY <1>1, <2>3, NoneAssumption DEF Between, Contents
<1>3. Decides("fresh", Move("file", "aside"), notice)
  BY <1>1, GotoDecides DEF SetAside
<1>4. TypeOK'
  BY <1>1, ProgramsTyped, GotoTyped DEF SetAside, Labels, TypeOK
<1>5. Directory' /\ Between'
  BY <1>1, <1>3, DecidesDirectory
<1>6. MovingAside'
  <2>1. Move("file", "aside") =
           <<RemoveMain("aside"), RemoveLog("aside"), RenameMain("file", "aside"), RenameLog("file", "aside")>>
    BY MoveCalls DEF Places
  <2> QED BY <1>1, <1>2, <1>3, <2>1 DEF Decides, MovingAside, Opening
<1>7. Starting'
  BY <1>1, <1>3, <1>5, <1>6 DEF Decides, Starting, Opening
<1> QED BY <1>3, <1>4, <1>5, <1>7 DEF BInv, Decides

-----------------------------------------------------------------------------
(***************************************************************************)
(* The sessions, and the theorems.                                         *)
(***************************************************************************)

\* An import may be staged in a session.
LEMMA StageKeeps ==
  ASSUME BInv, NEW content \in {"import", "torn"}, Stage(content)
  PROVE  BInv'
<1>1. TypeOK /\ Directory /\ Running /\ phase = "session"
  BY DEF BInv, Stage
<1>2. /\ main'["file"] = main["file"] /\ main'["staged"] = content
      /\ main'["backup"] = main["backup"] /\ main'["aside"] = main["aside"]
      /\ log' = log /\ phase' = phase /\ notice' = notice /\ setAside' = setAside /\ recovered' = recovered
      /\ history' = [history EXCEPT !.staged = TRUE]
  BY <1>1 DEF Stage, start, TypeOK, Places
<1>3. /\ history'.had = history.had /\ history'.cut = history.cut
      /\ history'.parted = history.parted /\ history'.crashed = history.crashed
  BY <1>1, <1>2 DEF TypeOK
<1>4. TypeOK'
  <2>1. main' \in [Places -> Contents \cup {None}]
    BY <1>1 DEF Stage, TypeOK, Contents
  <2>2. history' \in [had : BOOLEAN, staged : BOOLEAN, cut : BOOLEAN, parted : BOOLEAN, crashed : BOOLEAN]
    BY <1>1, <1>2 DEF TypeOK
  <2> QED BY <1>1, <1>2, <2>1, <2>2 DEF Stage, start, TypeOK
<1>5. Directory'
  BY <1>1, <1>2 DEF Directory
<1>6. Running'
  BY <1>1, <1>2, <1>3, NoneAssumption DEF Running, Told, NoticeTrue, Answered, RecoveredReal, Contents
<1> QED BY <1>1, <1>2, <1>4, <1>5, <1>6 DEF BInv

\* What a session leaves behind: its database, and no file it set aside.
LEMMA LeavesKeeps ==
  ASSUME TypeOK, Directory, Running, NEW content, NEW commits, NEW crashed \in BOOLEAN,
         \/ content \in {"reader", "damaged"} /\ commits = None
         \/ content \in {"behind", "damaged"} /\ commits = "commits",
         Leaves(content, commits), history' = After(crashed), phase' = "off",
         cuts' \in 0..MaxCuts, mark' \in BOOLEAN, mark' => crashed, UNCHANGED start
  PROVE  BInv'
<1>1. /\ main'["file"] = content /\ main'["staged"] = main["staged"]
      /\ main'["backup"] = None /\ main'["aside"] = None
      /\ log'["file"] = commits /\ log'["staged"] = None
  BY DEF Leaves, Running, TypeOK, Places, Directory
<1>2. content \in Contents /\ commits \in {"commits", None}
  BY DEF Contents
<1>3. TypeOK'
  <2>1. main' \in [Places -> Contents \cup {None}] /\ log' \in [Places -> {"commits", None}]
    BY <1>2 DEF Leaves, TypeOK
  <2>2. history' \in [had : BOOLEAN, staged : BOOLEAN, cut : BOOLEAN, parted : BOOLEAN, crashed : BOOLEAN]
    BY DEF After
  <2> QED BY <2>1, <2>2 DEF TypeOK, start
<1>4. Directory'
  BY <1>1, <1>2, NoneAssumption DEF Directory, Contents
<1>5. Off'
  <2>1. history'.had /\ history'.crashed = crashed /\ history'.staged = (main["staged"] # None)
    BY DEF After
  <2> QED BY <1>1, <2>1, NoneAssumption DEF Off, Between, Stands, Survives, Complete, Contents
<1> QED BY <1>3, <1>4, <1>5 DEF BInv

\* A session ends, cleanly or not, with the database of the reader in its place.
LEMMA StopKeeps == BInv /\ Stop => BInv'
<1> SUFFICES ASSUME BInv, Stop PROVE BInv'
  OBVIOUS
<1>1. TypeOK /\ Directory /\ Running
  BY DEF BInv, Stop
<1>2. PICK content \in {"reader", "damaged"} : Leaves(content, None)
  BY DEF Stop
<1> QED BY <1>1, <1>2, LeavesKeeps DEF Stop, TypeOK

\* A crash of a session keeps the invariant.
LEMMA CrashKeeps == BInv /\ Crash => BInv'
<1> SUFFICES ASSUME BInv, Crash PROVE BInv'
  OBVIOUS
<1>1. TypeOK /\ Directory /\ Running
  BY DEF BInv, Crash
<1>2. cuts' \in 0..MaxCuts /\ mark' \in BOOLEAN /\ history' = After(TRUE) /\ phase' = "off" /\ UNCHANGED start
  BY <1>1, CutsAssumption DEF Crash, Budget, Spend, TypeOK
<1>3. Leaves("behind", "commits") \/ Leaves("damaged", "commits") \/ Leaves("reader", None)
  BY DEF Crash
<1> QED BY <1>1, <1>2, <1>3, LeavesKeeps

\* What the bound alone counts is not part of the invariant.
LEMMA CutsKeep == BInv /\ UNCHANGED <<directory, mark, phase, start, history>> /\ cuts' \in 0..MaxCuts => BInv'
<1> SUFFICES ASSUME BInv, UNCHANGED <<directory, mark, phase, start, history>>, cuts' \in 0..MaxCuts
             PROVE  BInv'
  OBVIOUS
<1>1. /\ main' = main /\ log' = log /\ mark' = mark /\ phase' = phase /\ history' = history
      /\ at' = at /\ todo' = todo /\ notice' = notice /\ setAside' = setAside /\ recovered' = recovered
  BY DEF directory, start
<1>2. TypeOK' /\ Directory'
  BY <1>1 DEF BInv, TypeOK, Directory
<1>3. Stands' = Stands
  BY <1>1 DEF Stands, Sound, Survives, Complete
<1>4. (phase = "off" => Off)'
  BY <1>1, <1>3 DEF BInv, Off, Between
<1>5. (phase = "session" => Running)'
  BY <1>1 DEF BInv, Running, Told, NoticeTrue, Answered, RecoveredReal
<1>6. (phase = "starting" => Starting)'
  <2>1. /\ Between' = Between /\ Importing' = Importing /\ BackingUp' = BackingUp /\ TakingPlace' = TakingPlace
        /\ InPlace' = InPlace /\ Accepting' = Accepting /\ Dropping' = Dropping /\ Restoring' = Restoring
        /\ Opening' = Opening /\ MovingAside' = MovingAside
    BY <1>1, <1>3 DEF Between, Importing, BackingUp, TakingPlace, InPlace, Accepting, Dropping, Restoring,
                      Opening, MovingAside, Following, Sound, Survives, Complete
  <2> QED BY <1>1, <2>1 DEF BInv, Starting
<1> QED BY <1>2, <1>4, <1>5, <1>6 DEF BInv

\* Every step keeps the invariant.
LEMMA StepKeeps == BInv /\ [Next]_vars => BInv'
<1> SUFFICES ASSUME BInv, [Next]_vars PROVE BInv'
  OBVIOUS
<1>1. CASE Next
  BY <1>1, AcquireKeeps, AcquireFailsKeeps, DoKeeps, ApplyKeeps, ValidateKeeps, OpenedKeeps, SetAsideKeeps,
     FailKeeps, CrashStartingKeeps, StageKeeps, StopKeeps, CrashKeeps DEF Next
<1>2. CASE UNCHANGED vars
  <2>1. cuts' \in 0..MaxCuts
    BY <1>2 DEF BInv, TypeOK, vars
  <2>2. UNCHANGED <<directory, mark, phase, start, history>>
    BY <1>2 DEF vars, directory
  <2> QED BY <2>1, <2>2, CutsKeep
<1> QED BY <1>1, <1>2

\* The invariant holds of every start and every session.
THEOREM StartInvariance == Spec => []BInv
<1>1. Init => BInv
  BY InitKeeps
<1>2. BInv /\ [Next]_vars => BInv'
  BY StepKeeps
<1> QED BY <1>1, <1>2, PTL DEF Spec

\* What the invariant says of the properties.
LEMMA InvariantKeeps == BInv => DataKept /\ Told
<1> SUFFICES ASSUME BInv PROVE DataKept /\ Told
  OBVIOUS
<1>1. TypeOK /\ Directory
  BY DEF BInv
<1>2. Kept
  BY DEF BInv, Off, Stands, Sound, Kept
<1>3. NeverMixed
  BY <1>1, NoneAssumption DEF NeverMixed, Directory, Places, Databases, Contents
<1>4. Told
  BY DEF BInv, Running, Told, NoticeTrue, Answered, RecoveredReal
<1> QED BY <1>1, <1>2, <1>3, <1>4 DEF DataKept

\* applyStagedImport, moveDatabase and openForUse: wherever starts are cut, and
\* however often, the database of the reader is kept with every commit, except by
\* a start cut between a main file and its log, and never mixed with another.
THEOREM StartsKeepData == Spec => []DataKept
BY StartInvariance, InvariantKeeps, PTL

\* applyStagedImport and InstanceLock: what a start tells of an import, of a database
\* it set aside and of the session before is true.
THEOREM StartsTellTruth == Spec => []Told
BY StartInvariance, InvariantKeeps, PTL

-----------------------------------------------------------------------------
(***************************************************************************)
(* The works of the sessions between them.                                 *)
(***************************************************************************)

-----------------------------------------------------------------------------
(***************************************************************************)
(* The invariant names every point of a work: the calls it has still to    *)
(* make, what is inside its transaction and what of it is committed.       *)
(***************************************************************************)

\* No transaction is open, unless a ROLLBACK failed and left it.
Idle == open = None \/ stuck

\* The files stand as they did when the work was taken; so does the database.
FilesStand == chosen = job.before.chosen /\ main["staged"] = job.before.staged
Stand == live = job.before.live /\ FilesStand

\* What a success promises.
Done ==
    ~stuck =>
        /\ job.kind = "migrate" => live.version = declared /\ live.tables = declared
        /\ job.kind \in {"transaction", "run"} => live.rows = "whole"
        /\ job.kind \in {"erase", "recover"} => live = Blank
        /\ job.kind = "export" => chosen = live
        /\ job.kind = "import" => main["staged"] # None

Finished == job.todo = <<>> /\ Idle /\ Done

\* A migration changes the tables and then records its version.
Changed(v) == [live EXCEPT !.tables = IF @ = Strange THEN @ ELSE v]

Migrating ==
    /\ FilesStand
    /\ \/ /\ job.todo = <<Call("read"), Call("fits"), Of("loop", View.version + 1), Call("verify")>>
          /\ Idle
       \/ /\ job.todo = <<Call("fits"), Of("loop", View.version + 1), Call("verify")>>
          /\ Idle
       \/ /\ job.todo = <<Of("loop", View.version + 1), Call("verify")>>
          /\ Idle /\ View.version <= declared
       \/ \E v \in 1..declared :
             \/ /\ job.todo = <<Call("begin"), Of("change", v), Call("parents"), Of("record", v), Call("commit"),
                                Of("loop", v + 1), Call("verify")>>
                /\ Idle /\ View.version = v - 1
             \/ /\ job.todo = <<Of("change", v), Call("parents"), Of("record", v), Call("commit"),
                                Of("loop", v + 1), Call("verify")>>
                /\ open = live /\ live.version = v - 1
             \/ /\ job.todo = <<Call("parents"), Of("record", v), Call("commit"), Of("loop", v + 1), Call("verify")>>
                /\ open = Changed(v) /\ live.version = v - 1
             \/ /\ job.todo = <<Of("record", v), Call("commit"), Of("loop", v + 1), Call("verify")>>
                /\ open = Changed(v) /\ live.version = v - 1
             \/ /\ job.todo = <<Call("commit"), Of("loop", v + 1), Call("verify")>>
                /\ open = [Changed(v) EXCEPT !.version = v] /\ live.version = v - 1
       \/ /\ job.todo = <<Call("verify")>>
          /\ Idle /\ View.version = declared
       \/ Finished

Transacting ==
    \/ /\ job.todo = <<Call("begin"), At("write", "half"), At("write", "whole"), Call("commit")>>
       /\ Idle /\ Stand
    \/ /\ job.todo = <<At("write", "half"), At("write", "whole"), Call("commit")>>
       /\ open = live /\ Stand
    \/ /\ job.todo = <<At("write", "whole"), Call("commit")>>
       /\ open = [live EXCEPT !.rows = "half"] /\ live.tables # 0 /\ Stand
    \/ /\ job.todo = <<Call("commit")>>
       /\ open = [live EXCEPT !.rows = "whole"] /\ live.tables # 0 /\ Stand
    \/ Finished /\ FilesStand

RunningOne ==
    \/ /\ job.todo = <<At("write", "whole")>>
       /\ Idle /\ Stand
    \/ Finished /\ FilesStand

\* An erase, whose program is also the second half of a recovery.
ErasePoint ==
    /\ \/ /\ job.todo = <<Call("read"), Call("begin"), Call("drop"), Call("forget"), Call("preferences"), Call("commit")>>
          /\ Idle
       \/ /\ job.todo = <<Call("begin"), Call("drop"), Call("forget"), Call("preferences"), Call("commit")>>
          /\ Idle
       \/ /\ job.todo = <<Call("drop"), Call("forget"), Call("preferences"), Call("commit")>>
          /\ open = live
       \/ /\ job.todo = <<Call("forget"), Call("preferences"), Call("commit")>>
          /\ open = [live EXCEPT !.tables = 0, !.rows = "none"]
       \/ job.todo = <<Call("preferences"), Call("commit")>> /\ open = Blank
       \/ job.todo = <<Call("commit")>> /\ open = Blank
    /\ Stand

Erasing == ErasePoint \/ (Finished /\ FilesStand)

Recovering ==
    \/ /\ Idle /\ Stand
       /\ \/ job.todo = <<Call("folders"), At("touches", "rescue"),
                          Call("reserve"), At("create", "partial"), At("fill", "partial"), At("replace", "rescue"),
                          Call("read"), Call("begin"), Call("drop"), Call("forget"), Call("preferences"), Call("commit")>>
          \/ job.todo = <<At("touches", "rescue"),
                          Call("reserve"), At("create", "partial"), At("fill", "partial"), At("replace", "rescue"),
                          Call("read"), Call("begin"), Call("drop"), Call("forget"), Call("preferences"), Call("commit")>>
          \/ job.todo = <<Call("reserve"), At("create", "partial"), At("fill", "partial"), At("replace", "rescue"),
                          Call("read"), Call("begin"), Call("drop"), Call("forget"), Call("preferences"), Call("commit")>>
          \/ job.todo = <<At("create", "partial"), At("fill", "partial"), At("replace", "rescue"),
                          Call("read"), Call("begin"), Call("drop"), Call("forget"), Call("preferences"), Call("commit")>>
          \/ job.todo = <<At("fill", "partial"), At("replace", "rescue"),
                          Call("read"), Call("begin"), Call("drop"), Call("forget"), Call("preferences"), Call("commit")>>
          \/ /\ job.todo = <<At("replace", "rescue"),
                             Call("read"), Call("begin"), Call("drop"), Call("forget"), Call("preferences"), Call("commit")>>
             /\ job.partial = live
    \/ ErasePoint /\ live \in rescue
    \/ Finished /\ FilesStand

\* An export asks first whether the chosen file is the database itself.
Exporting ==
    \/ /\ Idle /\ Stand
       /\ \/ \E to \in {"chosen", "live"} :
                job.todo = <<At("touches", to),
                             Call("reserve"), At("create", "partial"), At("fill", "partial"), At("replace", to)>>
          \/ job.todo = <<Call("reserve"), At("create", "partial"), At("fill", "partial"), At("replace", "chosen")>>
          \/ job.todo = <<At("create", "partial"), At("fill", "partial"), At("replace", "chosen")>>
          \/ job.todo = <<At("fill", "partial"), At("replace", "chosen")>>
          \/ job.todo = <<At("replace", "chosen")>> /\ job.partial = live
    \/ Finished

Staging ==
    \/ /\ Idle /\ Stand
       /\ \/ job.todo = <<Call("validate"), Call("read"),
                          Call("reserve"), At("create", "partial"), At("fill", "partial"), At("replace", "staged")>>
          \/ job.todo = <<Call("read"),
                          Call("reserve"), At("create", "partial"), At("fill", "partial"), At("replace", "staged")>>
          \/ job.todo = <<Call("reserve"), At("create", "partial"), At("fill", "partial"), At("replace", "staged")>>
          \/ job.todo = <<At("create", "partial"), At("fill", "partial"), At("replace", "staged")>>
          \/ job.todo = <<At("fill", "partial"), At("replace", "staged")>>
          \/ job.todo = <<At("replace", "staged")>>
    \/ Finished

\* The work where it is, answered or not.
Point ==
    /\ job.kind = "migrate" => Migrating
    /\ job.kind = "transaction" => Transacting
    /\ job.kind = "run" => RunningOne
    /\ job.kind = "erase" => Erasing
    /\ job.kind = "recover" => Recovering
    /\ job.kind = "export" => Exporting
    /\ job.kind = "import" => Staging

Work ==
    /\ job.answer = None => Point
    /\ job.answer = "done" => Finished
    /\ job.answer = "failed" =>
          /\ job.todo = <<>> /\ Idle /\ FilesStand
          /\ job.kind # "migrate" => live = job.before.live

SInv ==
    /\ BInv
    /\ SessionTypeOK /\ CopiesWhole /\ Rescued
    /\ phase # "session" => job = None /\ open = None
    /\ job = None => Idle
    /\ job # None => Work

-----------------------------------------------------------------------------
(***************************************************************************)
(* The programs, call by call.                                             *)
(***************************************************************************)

\* Every call of a program is a call of a work.
LEMMA WorkCallsTyped ==
  /\ \A op \in Ops : Call(op) \in WorkCalls
  /\ \A op \in Ops, arg \in Args : At(op, arg) \in WorkCalls
  /\ \A op \in Ops, v \in 0..(MaxVersion + 1) : Of(op, v) \in WorkCalls
BY SessionAssumption DEF Call, At, Of, WorkCalls, Args

\* One call before the four of a snapshot.
LEMMA OneAndFour ==
  ASSUME NEW a, NEW b, NEW c, NEW d, NEW e
  PROVE  <<a>> \o <<b, c, d, e>> = <<a, b, c, d, e>>
<1> DEFINE S == {a, b, c, d, e}
           s == <<a>>   t == <<b, c, d, e>>   u == <<a, b, c, d, e>>
<1>1. s \in Seq(S) /\ t \in Seq(S) /\ u \in Seq(S) /\ Len(s) = 1 /\ Len(t) = 4 /\ Len(u) = 5
  OBVIOUS
<1>2. s \o t \in Seq(S) /\ Len(s \o t) = 5
  BY <1>1, ConcatProperties
<1>3. \A i \in 1..5 : (s \o t)[i] = IF i <= 1 THEN s[i] ELSE t[i - 1]
  BY <1>1, ConcatProperties
<1>4. /\ (s \o t)[1] = u[1] /\ (s \o t)[2] = u[2] /\ (s \o t)[3] = u[3]
      /\ (s \o t)[4] = u[4] /\ (s \o t)[5] = u[5]
  BY <1>3
<1> HIDE DEF s, t, u
<1>5. \A i \in 1..5 : (s \o t)[i] = u[i]
  <2>1. \A i \in 1..5 : i = 1 \/ i = 2 \/ i = 3 \/ i = 4 \/ i = 5
    OBVIOUS
  <2> QED BY <2>1, <1>4
<1>6. s \o t = u
  BY <1>1, <1>2, <1>5, SeqEqual
<1> QED BY <1>6 DEF s, t, u

\* One call before five, and six before six: a recovery.
LEMMA OneAndFive ==
  ASSUME NEW a, NEW b, NEW c, NEW d, NEW e, NEW f
  PROVE  <<a>> \o <<b, c, d, e, f>> = <<a, b, c, d, e, f>>
<1> DEFINE S == {a, b, c, d, e, f}
           s == <<a>>   t == <<b, c, d, e, f>>   u == <<a, b, c, d, e, f>>
<1>1. s \in Seq(S) /\ t \in Seq(S) /\ u \in Seq(S) /\ Len(s) = 1 /\ Len(t) = 5 /\ Len(u) = 6
  OBVIOUS
<1>2. s \o t \in Seq(S) /\ Len(s \o t) = 6
  BY <1>1, ConcatProperties
<1>3. \A i \in 1..6 : (s \o t)[i] = IF i <= 1 THEN s[i] ELSE t[i - 1]
  BY <1>1, ConcatProperties
<1>4. /\ (s \o t)[1] = u[1] /\ (s \o t)[2] = u[2] /\ (s \o t)[3] = u[3]
      /\ (s \o t)[4] = u[4] /\ (s \o t)[5] = u[5] /\ (s \o t)[6] = u[6]
  BY <1>3
<1> HIDE DEF s, t, u
<1>5. \A i \in 1..6 : (s \o t)[i] = u[i]
  <2>1. \A i \in 1..6 : i = 1 \/ i = 2 \/ i = 3 \/ i = 4 \/ i = 5 \/ i = 6
    OBVIOUS
  <2> QED BY <2>1, <1>4
<1>6. s \o t = u
  BY <1>1, <1>2, <1>5, SeqEqual
<1> QED BY <1>6 DEF s, t, u

\* Six calls before six.
LEMMA SixAndSix ==
  ASSUME NEW a, NEW b, NEW c, NEW d, NEW e, NEW f,
         NEW g, NEW h, NEW i, NEW j, NEW k, NEW l
  PROVE  <<a, b, c, d, e, f>> \o <<g, h, i, j, k, l>> = <<a, b, c, d, e, f, g, h, i, j, k, l>>
<1> DEFINE S == {a, b, c, d, e, f, g, h, i, j, k, l}
           s == <<a, b, c, d, e, f>>   t == <<g, h, i, j, k, l>>   u == <<a, b, c, d, e, f, g, h, i, j, k, l>>
<1>1. s \in Seq(S) /\ t \in Seq(S) /\ u \in Seq(S) /\ Len(s) = 6 /\ Len(t) = 6 /\ Len(u) = 12
  OBVIOUS
<1>2. s \o t \in Seq(S) /\ Len(s \o t) = 12
  BY <1>1, ConcatProperties
<1>3. \A n \in 1..12 : (s \o t)[n] = IF n <= 6 THEN s[n] ELSE t[n - 6]
  BY <1>1, ConcatProperties
<1>4. /\ (s \o t)[1] = u[1] /\ (s \o t)[2] = u[2] /\ (s \o t)[3] = u[3]
      /\ (s \o t)[4] = u[4] /\ (s \o t)[5] = u[5] /\ (s \o t)[6] = u[6]
      /\ (s \o t)[7] = u[7] /\ (s \o t)[8] = u[8] /\ (s \o t)[9] = u[9]
      /\ (s \o t)[10] = u[10] /\ (s \o t)[11] = u[11] /\ (s \o t)[12] = u[12]
  BY <1>3
<1> HIDE DEF s, t, u
<1>5. \A n \in 1..12 : (s \o t)[n] = u[n]
  <2>1. \A n \in 1..12 : \/ n = 1 \/ n = 2 \/ n = 3 \/ n = 4 \/ n = 5 \/ n = 6
                         \/ n = 7 \/ n = 8 \/ n = 9 \/ n = 10 \/ n = 11 \/ n = 12
    OBVIOUS
  <2> QED BY ZenonT(30), <2>1, <1>4
<1>6. s \o t = u
  BY SMTT(30), <1>1, <1>2, <1>5, SeqEqual
<1> QED BY <1>6 DEF s, t, u

\* The loop over the migrations: five calls, the loop again and what comes after it.
LEMMA FiveOneOne ==
  ASSUME NEW a, NEW b, NEW c, NEW d, NEW e, NEW f, NEW g
  PROVE  <<a, b, c, d, e>> \o <<f>> \o <<g>> = <<a, b, c, d, e, f, g>>
<1> DEFINE S == {a, b, c, d, e, f, g}
           r == <<a, b, c, d, e>>   s == <<f>>   t == <<g>>   u == <<a, b, c, d, e, f, g>>
<1>1. /\ r \in Seq(S) /\ s \in Seq(S) /\ t \in Seq(S) /\ u \in Seq(S)
      /\ Len(r) = 5 /\ Len(s) = 1 /\ Len(t) = 1 /\ Len(u) = 7
  OBVIOUS
<1>2. r \o s \in Seq(S) /\ Len(r \o s) = 6 /\ \A i \in 1..6 : (r \o s)[i] = IF i <= 5 THEN r[i] ELSE s[i - 5]
  BY <1>1, ConcatProperties
<1>3. /\ (r \o s) \o t \in Seq(S) /\ Len((r \o s) \o t) = 7
      /\ \A i \in 1..7 : ((r \o s) \o t)[i] = IF i <= 6 THEN (r \o s)[i] ELSE t[i - 6]
  BY <1>1, <1>2, ConcatProperties
<1> DEFINE w == (r \o s) \o t
<1>4. w[1] = u[1] /\ w[2] = u[2] /\ w[3] = u[3] /\ w[4] = u[4] /\ w[5] = u[5] /\ w[6] = u[6] /\ w[7] = u[7]
  BY <1>2, <1>3
<1>5. w \in Seq(S) /\ Len(w) = 7
  BY <1>3
<1> HIDE DEF r, s, t, u, w
<1>6. \A i \in 1..7 : w[i] = u[i]
  <2>1. \A i \in 1..7 : i = 1 \/ i = 2 \/ i = 3 \/ i = 4 \/ i = 5 \/ i = 6 \/ i = 7
    OBVIOUS
  <2> QED BY <2>1, <1>4
<1>7. w = u
  BY <1>1, <1>5, <1>6, SeqEqual
<1> QED BY <1>7 DEF r, s, t, u, w

\* The programs that are put together from others.
LEMMA ProgramsAre ==
  ASSUME NEW to \in Args
  PROVE  /\ Export(to) = <<At("touches", to),
                           Call("reserve"), At("create", "partial"), At("fill", "partial"), At("replace", to)>>
         /\ Import(to) = <<Call("validate"), Call("read"),
                           Call("reserve"), At("create", "partial"), At("fill", "partial"), At("replace", to)>>
         /\ Recovery(to) = <<Call("folders"), At("touches", to),
                             Call("reserve"), At("create", "partial"), At("fill", "partial"), At("replace", to),
                             Call("read"), Call("begin"), Call("drop"), Call("forget"), Call("preferences"), Call("commit")>>
<1>1. /\ At("touches", to) \in WorkCalls /\ Call("reserve") \in WorkCalls /\ At("create", "partial") \in WorkCalls
      /\ At("fill", "partial") \in WorkCalls /\ At("replace", to) \in WorkCalls
      /\ Call("validate") \in WorkCalls /\ Call("read") \in WorkCalls /\ Call("folders") \in WorkCalls
      /\ Call("begin") \in WorkCalls /\ Call("drop") \in WorkCalls /\ Call("forget") \in WorkCalls
      /\ Call("preferences") \in WorkCalls /\ Call("commit") \in WorkCalls
  BY WorkCallsTyped DEF Ops, Args
<1>2. Export(to) = <<At("touches", to),
                     Call("reserve"), At("create", "partial"), At("fill", "partial"), At("replace", to)>>
  BY OneAndFour DEF Export, Snapshot
<1>3. Import(to) = <<Call("validate"), Call("read"),
                     Call("reserve"), At("create", "partial"), At("fill", "partial"), At("replace", to)>>
  BY TwoAndFour DEF Import, Snapshot
<1>4. <<Call("folders")>> \o Export(to) =
        <<Call("folders"), At("touches", to),
          Call("reserve"), At("create", "partial"), At("fill", "partial"), At("replace", to)>>
  <2>1. <<Call("folders")>> \o <<At("touches", to),
                                 Call("reserve"), At("create", "partial"), At("fill", "partial"), At("replace", to)>>
          = <<Call("folders"), At("touches", to),
              Call("reserve"), At("create", "partial"), At("fill", "partial"), At("replace", to)>>
    BY OneAndFive
  <2> QED BY <1>2, <2>1
<1>5. <<Call("folders"), At("touches", to),
        Call("reserve"), At("create", "partial"), At("fill", "partial"), At("replace", to)>> \o EraseProgram
        = <<Call("folders"), At("touches", to),
            Call("reserve"), At("create", "partial"), At("fill", "partial"), At("replace", to),
            Call("read"), Call("begin"), Call("drop"), Call("forget"), Call("preferences"), Call("commit")>>
  BY SixAndSix DEF EraseProgram
<1>6. Recovery(to) = (<<Call("folders")>> \o Export(to)) \o EraseProgram
  BY DEF Recovery
<1> QED BY <1>2, <1>3, <1>4, <1>5, <1>6

-----------------------------------------------------------------------------
(***************************************************************************)
(* What a statement does.                                                  *)
(***************************************************************************)

\* What the type invariant says of a work.
LEMMA JobTyped ==
  ASSUME SessionTypeOK, job # None
  PROVE  /\ job \in Jobs /\ job.kind \in Kinds /\ job.todo \in Seq(WorkCalls) /\ job.partial \in Data \cup {None}
         /\ job.answer \in {None, "done", "failed"} /\ live \in Data /\ open \in Data \cup {None}
BY DEF SessionTypeOK, Jobs, Stored

\* The calls after one that went well are calls.
LEMMA RestTyped ==
  ASSUME SessionTypeOK, job # None, job.todo # <<>>
  PROVE  Rest \in Seq(WorkCalls)
<1>1. job.todo \in Seq(WorkCalls)
  BY JobTyped
<1>2. Tail(job.todo) \in Seq(WorkCalls) /\ Now \in WorkCalls
  BY <1>1 DEF Now
<1>3. CASE Now.op = "loop" /\ Now.version <= declared
  <2>1. Now.version \in 0..(MaxVersion + 1) /\ Now.version + 1 \in 0..(MaxVersion + 1)
    BY <1>2, <1>3, SessionAssumption DEF WorkCalls, SessionTypeOK
  <2> DEFINE v == Now.version
  <2>2. /\ Call("begin") \in WorkCalls /\ Of("change", v) \in WorkCalls /\ Call("parents") \in WorkCalls
        /\ Of("record", v) \in WorkCalls /\ Call("commit") \in WorkCalls /\ Of("loop", v + 1) \in WorkCalls
    BY <2>1, WorkCallsTyped DEF Ops
  <2> HIDE DEF v
  <2>3. Migration(v) \in Seq(WorkCalls) /\ <<Of("loop", v + 1)>> \in Seq(WorkCalls)
    BY <2>2 DEF Migration
  <2>4. Migration(v) \o <<Of("loop", v + 1)>> \o Tail(job.todo) \in Seq(WorkCalls)
    BY <2>3, <1>2, ConcatProperties
  <2> QED BY <1>3, <2>4 DEF Rest, v
<1>4. CASE ~(Now.op = "loop" /\ Now.version <= declared)
  BY <1>2, <1>4 DEF Rest
<1> QED BY <1>3, <1>4

\* A statement leaves everything but the database, and what recoveries erased.
StatementFrame ==
    /\ job # None /\ phase = "session" /\ job.answer = None /\ job.todo # <<>>
    /\ job' \in Jobs /\ job' # None
    /\ job'.kind = job.kind /\ job'.partial = job.partial /\ job'.answer = None /\ job'.before = job.before
    /\ job'.todo = Rest
    /\ phase' = phase /\ main' = main /\ declared' = declared /\ chosen' = chosen /\ rescue' = rescue
    /\ stuck' = stuck /\ works' = works

\* So does every statement that runs.
LEMMA StatementFrames == SessionTypeOK /\ Statement => StatementFrame
<1> SUFFICES ASSUME SessionTypeOK, Statement PROVE StatementFrame
  OBVIOUS
<1>1. job # None /\ phase = "session" /\ job.answer = None /\ job.todo # <<>>
  BY DEF Statement, Working
<1>2. job \in Jobs /\ Rest \in Seq(WorkCalls)
  BY <1>1, JobTyped, RestTyped
<1>3. job' = [job EXCEPT !.todo = Rest]
  BY DEF Statement
<1>4. /\ job' \in Jobs
      /\ job'.kind = job.kind /\ job'.partial = job.partial /\ job'.answer = job.answer /\ job'.before = job.before
      /\ job'.todo = Rest
  BY <1>2, <1>3 DEF Jobs
<1>5. job' # None
  BY <1>4, NothingAssumption
<1>6. /\ phase' = phase /\ main' = main /\ declared' = declared /\ chosen' = chosen /\ rescue' = rescue
      /\ stuck' = stuck /\ works' = works
  BY DEF Statement, vars, directory
<1> QED BY <1>1, <1>4, <1>5, <1>6 DEF StatementFrame

\* The calls that change nothing in the database.
Quiet == live' = live /\ open' = open /\ gone' = gone

\* What a call is.
LEMMA CallFields ==
  /\ \A op : Call(op).op = op /\ Call(op).arg = "none"
  /\ \A op, arg : At(op, arg).op = op /\ At(op, arg).arg = arg
  /\ \A op, v : Of(op, v).op = op /\ Of(op, v).version = v
BY DEF Call, At, Of

\* Each statement does this, where it is not refused.
LEMMA StatementDoes ==
  ASSUME SessionTypeOK, Statement
  PROVE  /\ Now.op \notin {"create", "fill", "replace"}
         /\ Now.op # "loop" => job'.todo = Tail(job.todo)
         /\ Now.op = "loop" =>
               /\ Quiet
               /\ Now.version <= declared =>
                     job'.todo = Migration(Now.version) \o <<Of("loop", Now.version + 1)>> \o Tail(job.todo)
               /\ ~(Now.version <= declared) => job'.todo = Tail(job.todo)
         /\ Now.op \in {"read", "parents", "preferences", "folders", "reserve", "validate"} => Quiet
         /\ Now.op = "fits" => Quiet /\ ~Newer
         /\ Now.op = "verify" => Quiet /\ ~Differs
         /\ Now.op = "touches" => Quiet /\ Now.arg # "live"
         /\ Now.op = "begin" => open = None /\ open' = live /\ live' = live /\ gone' = gone
         /\ Now.op = "commit" =>
               /\ live' = open /\ open' = None
               /\ gone' = IF job.kind = "recover" THEN gone \cup {live} ELSE gone
         /\ Now.op = "change" => Sees([View EXCEPT !.tables = IF @ = Strange THEN @ ELSE Now.version]) /\ gone' = gone
         /\ Now.op = "record" => Sees([View EXCEPT !.version = Now.version]) /\ gone' = gone
         /\ Now.op = "write" => View.tables # 0 /\ Sees([View EXCEPT !.rows = Now.arg]) /\ gone' = gone
         /\ Now.op = "drop" => Sees([View EXCEPT !.tables = 0, !.rows = "none"]) /\ gone' = gone
         /\ Now.op = "forget" => Sees([View EXCEPT !.version = 0]) /\ gone' = gone
<1>1. ~Refused(Now)
  BY DEF Statement
<1>2. /\ CASE Now.op = "begin" -> open' = live /\ live' = live
           [] Now.op = "commit" -> live' = open /\ open' = None
           [] Now.op = "change" -> Sees([View EXCEPT !.tables = IF @ = Strange THEN @ ELSE Now.version])
           [] Now.op = "record" -> Sees([View EXCEPT !.version = Now.version])
           [] Now.op = "write" -> Sees([View EXCEPT !.rows = Now.arg])
           [] Now.op = "drop" -> Sees([View EXCEPT !.tables = 0, !.rows = "none"])
           [] Now.op = "forget" -> Sees([View EXCEPT !.version = 0])
           [] OTHER -> Now.op \notin {"create", "fill", "replace"} /\ UNCHANGED <<live, open>>
      /\ gone' = IF Now.op = "commit" /\ job.kind = "recover" THEN gone \cup {live} ELSE gone
  BY DEF Statement
<1>3. job'.todo = Rest
  BY StatementFrames DEF StatementFrame
<1>4. Rest = IF Now.op = "loop" /\ Now.version <= declared
             THEN Migration(Now.version) \o <<Of("loop", Now.version + 1)>> \o Tail(job.todo)
             ELSE Tail(job.todo)
  BY DEF Rest
<1>5. /\ Now.op # "loop" => job'.todo = Tail(job.todo)
      /\ Now.op = "loop" /\ Now.version <= declared =>
            job'.todo = Migration(Now.version) \o <<Of("loop", Now.version + 1)>> \o Tail(job.todo)
      /\ Now.op = "loop" /\ ~(Now.version <= declared) => job'.todo = Tail(job.todo)
  BY <1>3, <1>4
<1>6. Now.op \notin {"begin", "commit", "change", "record", "write", "drop", "forget"} =>
         Quiet /\ Now.op \notin {"create", "fill", "replace"}
  BY <1>2 DEF Quiet
<1>7. /\ Now.op = "begin" => open = None /\ open' = live /\ live' = live /\ gone' = gone
      /\ Now.op = "commit" =>
               /\ live' = open /\ open' = None
               /\ gone' = IF job.kind = "recover" THEN gone \cup {live} ELSE gone
  BY <1>1, <1>2 DEF Refused
<1>8. /\ Now.op = "change" => Sees([View EXCEPT !.tables = IF @ = Strange THEN @ ELSE Now.version]) /\ gone' = gone
      /\ Now.op = "record" => Sees([View EXCEPT !.version = Now.version]) /\ gone' = gone
  BY <1>2
<1>9. /\ Now.op = "write" => View.tables # 0 /\ Sees([View EXCEPT !.rows = Now.arg]) /\ gone' = gone
      /\ Now.op = "drop" => Sees([View EXCEPT !.tables = 0, !.rows = "none"]) /\ gone' = gone
      /\ Now.op = "forget" => Sees([View EXCEPT !.version = 0]) /\ gone' = gone
  BY <1>1, <1>2 DEF Refused
<1>10. /\ Now.op = "fits" => ~Newer
       /\ Now.op = "verify" => ~Differs
       /\ Now.op = "touches" => Now.arg # "live"
  BY <1>1 DEF Refused
<1> QED BY <1>5, <1>6, <1>7, <1>8, <1>9, <1>10

-----------------------------------------------------------------------------
(***************************************************************************)
(* What the statements of a work make of the data.                         *)
(***************************************************************************)

\* Data is its version, its tables and its rows.
LEMMA DataEqual ==
  ASSUME NEW d \in Data, NEW e \in Data, d.version = e.version, d.tables = e.tables, d.rows = e.rows
  PROVE  d = e
BY DEF Data

\* Whole data is data.
LEMMA StoredIs ==
  ASSUME NEW d \in Stored
  PROVE  /\ d \in Data /\ d.version \in 0..MaxVersion /\ d.tables \in 0..Strange /\ d.rows # "half"
<1>1. /\ d \in [version : 0..MaxVersion, tables : 0..Strange, rows : Rows]
      /\ d.tables \in {d.version, Strange} /\ d.rows # "half"
      /\ d.version = 0 => d = Blank
  BY DEF Stored, Data
<1>2. /\ d.version \in 0..MaxVersion /\ d.tables \in 0..Strange /\ d.rows \in Rows
      /\ MaxVersion \in Nat /\ Strange = MaxVersion + 1 /\ 0 \in 0..MaxVersion /\ 0 \in 0..Strange
  BY <1>1, SessionAssumption DEF Strange
<1> QED BY <1>1, <1>2 DEF Data

\* A migration changes the tables and then the version: it ends with whole data.
LEMMA MigrationChanges ==
  ASSUME NEW d \in Stored
  PROVE  \A v \in 1..MaxVersion :
           /\ [d EXCEPT !.tables = IF @ = Strange THEN @ ELSE v] \in Data
           /\ [[d EXCEPT !.tables = IF @ = Strange THEN @ ELSE v] EXCEPT !.version = v] \in Stored
<1>1. /\ d \in [version : 0..MaxVersion, tables : 0..Strange, rows : Rows]
      /\ d.tables \in {d.version, Strange} /\ d.rows # "half"
      /\ d.version = 0 => d = Blank
  BY DEF Stored, Data
<1>2. /\ d.version \in 0..MaxVersion /\ d.tables \in 0..Strange /\ d.rows \in Rows
      /\ MaxVersion \in Nat /\ Strange = MaxVersion + 1 /\ 0 \in 0..MaxVersion /\ 0 \in 0..Strange
  BY <1>1, SessionAssumption DEF Strange
<1>3. ASSUME NEW v \in 1..MaxVersion
      PROVE  /\ [d EXCEPT !.tables = IF @ = Strange THEN @ ELSE v] \in Data
             /\ [[d EXCEPT !.tables = IF @ = Strange THEN @ ELSE v] EXCEPT !.version = v] \in Stored
  <2> DEFINE t == IF d.tables = Strange THEN Strange ELSE v
  <2>1. t \in 0..Strange /\ t \in {v, Strange} /\ v \in 0..MaxVersion /\ v # 0
    BY <1>2
  <2>2. [d EXCEPT !.tables = IF @ = Strange THEN @ ELSE v] = [version |-> d.version, tables |-> t, rows |-> d.rows]
    BY <1>1
  <2> DEFINE e == [version |-> d.version, tables |-> t, rows |-> d.rows]
  <2>5. [e EXCEPT !.version = v] = [version |-> v, tables |-> t, rows |-> d.rows]
    OBVIOUS
  <2>3. [[d EXCEPT !.tables = IF @ = Strange THEN @ ELSE v] EXCEPT !.version = v]
           = [version |-> v, tables |-> t, rows |-> d.rows]
    BY <2>2, <2>5
  <2> HIDE DEF t
  <2>4. [version |-> v, tables |-> t, rows |-> d.rows] \in Stored
    BY <1>1, <1>2, <2>1 DEF Stored, Data
  <2> QED BY <1>2, <2>1, <2>2, <2>3, <2>4 DEF Data
<1> QED BY <1>3

\* Two statements of a plugin write half of its rows and then the whole.
LEMMA WriteChanges ==
  ASSUME NEW d \in Stored
  PROVE  /\ [d EXCEPT !.rows = "half"] \in Data
         /\ d.tables # 0 => [d EXCEPT !.rows = "whole"] \in Stored
         /\ [d EXCEPT !.rows = "whole"] \in Data
         /\ [d EXCEPT !.rows = "whole"].rows = "whole" /\ [d EXCEPT !.rows = "half"].tables = d.tables
         /\ [[d EXCEPT !.rows = "half"] EXCEPT !.rows = "whole"] = [d EXCEPT !.rows = "whole"]
<1>1. /\ d \in [version : 0..MaxVersion, tables : 0..Strange, rows : Rows]
      /\ d.tables \in {d.version, Strange} /\ d.rows # "half"
      /\ d.version = 0 => d = Blank
  BY DEF Stored, Data
<1>2. /\ d.version \in 0..MaxVersion /\ d.tables \in 0..Strange /\ d.rows \in Rows
      /\ MaxVersion \in Nat /\ Strange = MaxVersion + 1 /\ 0 \in 0..MaxVersion /\ 0 \in 0..Strange
  BY <1>1, SessionAssumption DEF Strange
<1>4. [d EXCEPT !.rows = "half"] \in Data
  BY <1>1 DEF Data, Rows
<1>5. d.tables # 0 => [d EXCEPT !.rows = "whole"] \in Stored
  <2> SUFFICES ASSUME d.tables # 0 PROVE [d EXCEPT !.rows = "whole"] \in Stored
    OBVIOUS
  <2>1. [d EXCEPT !.rows = "whole"] = [version |-> d.version, tables |-> d.tables, rows |-> "whole"]
    BY <1>1
  <2>2. d.version # 0
    BY <1>1 DEF Blank
  <2>3. [version |-> d.version, tables |-> d.tables, rows |-> "whole"] \in Stored
    BY <1>1, <1>2, <2>2 DEF Stored, Data, Rows
  <2> QED BY <2>1, <2>3
<1>9. /\ [d EXCEPT !.rows = "whole"].rows = "whole"
      /\ [[d EXCEPT !.rows = "half"] EXCEPT !.rows = "whole"] = [d EXCEPT !.rows = "whole"]
  <2>1. [d EXCEPT !.rows = "half"] = [version |-> d.version, tables |-> d.tables, rows |-> "half"]
    BY <1>1
  <2>2. [d EXCEPT !.rows = "whole"] = [version |-> d.version, tables |-> d.tables, rows |-> "whole"]
    BY <1>1
  <2> DEFINE e == [version |-> d.version, tables |-> d.tables, rows |-> "half"]
  <2>3. [e EXCEPT !.rows = "whole"] = [version |-> d.version, tables |-> d.tables, rows |-> "whole"]
    OBVIOUS
  <2> QED BY <2>1, <2>2, <2>3
<1>10. \A e \in Data : [e EXCEPT !.rows = "whole"] \in Data
  BY DEF Data, Rows
<1>11. [d EXCEPT !.rows = "whole"] \in Data /\ [d EXCEPT !.rows = "half"].tables = d.tables
  BY <1>1, <1>10 DEF Data
<1> QED BY <1>4, <1>5, <1>9, <1>11

\* An erase drops the tables with their rows and then forgets the version.
LEMMA EraseChanges ==
  ASSUME NEW d \in Stored
  PROVE  /\ [d EXCEPT !.tables = 0, !.rows = "none"] \in Data
         /\ [[d EXCEPT !.tables = 0, !.rows = "none"] EXCEPT !.version = 0] = Blank
<1>1. /\ d \in [version : 0..MaxVersion, tables : 0..Strange, rows : Rows]
      /\ d.tables \in {d.version, Strange} /\ d.rows # "half"
      /\ d.version = 0 => d = Blank
  BY DEF Stored, Data
<1>2. /\ d.version \in 0..MaxVersion /\ d.tables \in 0..Strange /\ d.rows \in Rows
      /\ MaxVersion \in Nat /\ Strange = MaxVersion + 1 /\ 0 \in 0..MaxVersion /\ 0 \in 0..Strange
  BY <1>1, SessionAssumption DEF Strange
<1>6. [d EXCEPT !.tables = 0, !.rows = "none"] = [version |-> d.version, tables |-> 0, rows |-> "none"]
  <2>1. [d EXCEPT !.tables = 0] = [version |-> d.version, tables |-> 0, rows |-> d.rows]
    BY <1>1
  <2>2. [d EXCEPT !.tables = 0, !.rows = "none"] = [[d EXCEPT !.tables = 0] EXCEPT !.rows = "none"]
    OBVIOUS
  <2> DEFINE e == [version |-> d.version, tables |-> 0, rows |-> d.rows]
  <2>3. [e EXCEPT !.rows = "none"] = [version |-> d.version, tables |-> 0, rows |-> "none"]
    OBVIOUS
  <2> QED BY <2>1, <2>2, <2>3
<1>7. [[d EXCEPT !.tables = 0, !.rows = "none"] EXCEPT !.version = 0] = Blank
  <2> DEFINE e == [version |-> d.version, tables |-> 0, rows |-> "none"]
  <2>1. [e EXCEPT !.version = 0] = Blank
    BY DEF Blank
  <2> QED BY <1>6, <2>1
<1>8. [version |-> d.version, tables |-> 0, rows |-> "none"] \in Data
  BY <1>2 DEF Data, Rows
<1> QED BY <1>6, <1>7, <1>8

\* A statement that is committed by itself leaves data, whatever it found.
LEMMA WriteTyped == \A e \in Data : [e EXCEPT !.rows = "whole"] \in Data
BY DEF Data, Rows

\* No tables and no version are whole data too.
LEMMA BlankStored == Blank \in Stored /\ Blank \in Data /\ Half \in Data
<1>1. MaxVersion \in Nat /\ Strange = MaxVersion + 1 /\ 0 \in 0..MaxVersion /\ 0 \in 0..Strange
  BY SessionAssumption DEF Strange
<1>2. Blank \in Data
  BY <1>1 DEF Blank, Data, Rows
<1>3. Blank.tables = 0 /\ Blank.version = 0 /\ Blank.rows = "none"
  BY DEF Blank
<1> QED BY <1>2, <1>3 DEF Stored, Half, Data, Rows

-----------------------------------------------------------------------------
(***************************************************************************)
(* A statement, at each point of a work.                                   *)
(***************************************************************************)

\* What a statement leaves of the database and of the copies, whatever it was.
StaysWhole ==
    /\ live' \in Stored /\ open' \in Data \cup {None} /\ gone' \subseteq rescue'

\* What a statement finds.
Found ==
    /\ StatementFrame
    /\ live \in Stored /\ live \in Data /\ open \in Data \cup {None} /\ None \notin Data
    /\ gone \subseteq rescue /\ declared \in 1..MaxVersion /\ MaxVersion \in Nat

\* Whatever the work is, a statement finds this.
LEMMA StatementFinds == SessionTypeOK /\ Rescued /\ Statement => Found
BY StatementFrames, JobTyped, NothingAssumption, SessionAssumption
   DEF SessionTypeOK, Rescued, Found, StatementFrame, Stored

\* A statement of a transaction keeps the point of the work.
LEMMA StatementTransacting ==
  ASSUME SessionTypeOK, Rescued, Statement, job.kind = "transaction", Transacting
  PROVE  StaysWhole /\ Transacting'
<1>1. Found
  BY StatementFinds
<1>2. CASE /\ job.todo = <<Call("begin"), At("write", "half"), At("write", "whole"), Call("commit")>>
           /\ Idle
           /\ Stand
  <2>1. Now = Call("begin") /\ Tail(job.todo) = <<At("write", "half"), At("write", "whole"), Call("commit")>>
    BY <1>2 DEF Now
  <2>5. Now.op = "begin"
    BY <2>1, CallFields, Zenon
  <2>2. job'.todo = Tail(job.todo) /\ open = None /\ open' = live /\ live' = live /\ gone' = gone
    BY <2>5, StatementDoes
  <2> QED BY <1>1, <1>2, <2>1, <2>2, StoredIs, WriteChanges
     DEF Found, StatementFrame, Transacting, StaysWhole, Stand, FilesStand, Idle
<1>3. CASE /\ job.todo = <<At("write", "half"), At("write", "whole"), Call("commit")>>
           /\ open = live
           /\ Stand
  <2>1. Now = At("write", "half") /\ Tail(job.todo) = <<At("write", "whole"), Call("commit")>>
    BY <1>3 DEF Now
  <2>5. Now.op = "write" /\ Now.arg = "half"
    BY SMTT(30), <2>1, CallFields, Zenon
  <2>2. job'.todo = Tail(job.todo) /\ View.tables # 0 /\ Sees([View EXCEPT !.rows = "half"]) /\ gone' = gone
    BY <2>5, StatementDoes
  <2>3. View = IF open = None THEN live ELSE open
    BY DEF View
  <2>4. IF open = None THEN live' = [live EXCEPT !.rows = "half"] /\ open' = open ELSE live' = live /\ open' = [open EXCEPT !.rows = "half"]
    BY <2>2, <2>3 DEF Sees
  <2> QED BY <1>1, <1>3, <2>1, <2>2, <2>3, <2>4, StoredIs, WriteChanges
     DEF Found, StatementFrame, Transacting, StaysWhole, Stand, FilesStand, Idle
<1>4. CASE /\ job.todo = <<At("write", "whole"), Call("commit")>>
           /\ open = [live EXCEPT !.rows = "half"]
           /\ live.tables # 0
           /\ Stand
  <2>1. Now = At("write", "whole") /\ Tail(job.todo) = <<Call("commit")>>
    BY <1>4 DEF Now
  <2>5. Now.op = "write" /\ Now.arg = "whole"
    BY SMTT(30), <2>1, CallFields, Zenon
  <2>2. job'.todo = Tail(job.todo) /\ Sees([View EXCEPT !.rows = "whole"]) /\ gone' = gone
    BY <2>5, StatementDoes
  <2>3. View = IF open = None THEN live ELSE open
    BY DEF View
  <2>4. IF open = None THEN live' = [live EXCEPT !.rows = "whole"] /\ open' = open ELSE live' = live /\ open' = [open EXCEPT !.rows = "whole"]
    BY <2>2, <2>3 DEF Sees
  <2> QED BY ZenonT(30), <1>1, <1>4, <2>1, <2>2, <2>3, <2>4, StoredIs, WriteChanges
     DEF Found, StatementFrame, Transacting, StaysWhole, Stand, FilesStand, Idle
<1>5. CASE /\ job.todo = <<Call("commit")>>
           /\ open = [live EXCEPT !.rows = "whole"]
           /\ live.tables # 0
           /\ Stand
  <2>1. Now = Call("commit") /\ Tail(job.todo) = <<>>
    BY <1>5 DEF Now
  <2>5. Now.op = "commit"
    BY <2>1, CallFields, Zenon
  <2>2. job'.todo = Tail(job.todo) /\ live' = open /\ open' = None /\ gone' = gone
    BY <2>5, StatementDoes
  <2> QED BY <1>1, <1>5, <2>1, <2>2, StoredIs, WriteChanges
     DEF Found, StatementFrame, Transacting, StaysWhole, Stand, FilesStand, Idle, Finished, Done
<1>6. CASE Finished
  BY <1>1, <1>6 DEF Found, StatementFrame, Finished
<1> QED BY <1>2, <1>3, <1>4, <1>5, <1>6 DEF Transacting

\* So does a statement that is committed by itself.
LEMMA StatementRunningOne ==
  ASSUME SessionTypeOK, Rescued, Statement, job.kind = "run", RunningOne
  PROVE  StaysWhole /\ RunningOne'
<1>1. Found
  BY StatementFinds
<1>2. CASE /\ job.todo = <<At("write", "whole")>>
           /\ Idle
           /\ Stand
  <2>1. Now = At("write", "whole") /\ Tail(job.todo) = <<>>
    BY <1>2 DEF Now
  <2>5. Now.op = "write" /\ Now.arg = "whole"
    BY SMTT(30), <2>1, CallFields, Zenon
  <2>2. job'.todo = Tail(job.todo) /\ View.tables # 0 /\ Sees([View EXCEPT !.rows = "whole"]) /\ gone' = gone
    BY <2>5, StatementDoes
  <2>3. View = IF open = None THEN live ELSE open
    BY DEF View
  <2>4. IF open = None THEN live' = [live EXCEPT !.rows = "whole"] /\ open' = open ELSE live' = live /\ open' = [open EXCEPT !.rows = "whole"]
    BY <2>2, <2>3 DEF Sees
  <2> QED BY <1>1, <1>2, <2>1, <2>2, <2>3, <2>4, StoredIs, WriteChanges, WriteTyped
     DEF Found, StatementFrame, RunningOne, StaysWhole, Stand, FilesStand, Idle, Finished, Done
<1>3. CASE Finished
  BY <1>1, <1>3 DEF Found, StatementFrame, Finished
<1> QED BY <1>2, <1>3 DEF RunningOne

\* So does a statement of an erase.
LEMMA StatementErasing ==
  ASSUME SessionTypeOK, Rescued, Statement, job.kind = "erase", Erasing
  PROVE  StaysWhole /\ Erasing'
<1>1. Found
  BY StatementFinds
<1>2. CASE /\ job.todo = <<Call("read"), Call("begin"), Call("drop"), Call("forget"),
                           Call("preferences"), Call("commit")>>
           /\ Idle
           /\ Stand
  <2>1. Now = Call("read") /\ Tail(job.todo) = <<Call("begin"), Call("drop"), Call("forget"), Call("preferences"), Call("commit")>>
    BY <1>2 DEF Now
  <2>5. Now.op = "read"
    BY <2>1, CallFields, Zenon
  <2>2. job'.todo = Tail(job.todo) /\ Quiet
    BY <2>5, StatementDoes
  <2> QED BY <1>1, <1>2, <2>1, <2>2, EraseChanges, BlankStored
     DEF Found, StatementFrame, Erasing, ErasePoint, StaysWhole, Stand, FilesStand, Idle, Quiet
<1>3. CASE /\ job.todo = <<Call("begin"), Call("drop"), Call("forget"), Call("preferences"),
                           Call("commit")>>
           /\ Idle
           /\ Stand
  <2>1. Now = Call("begin") /\ Tail(job.todo) = <<Call("drop"), Call("forget"), Call("preferences"), Call("commit")>>
    BY <1>3 DEF Now
  <2>5. Now.op = "begin"
    BY <2>1, CallFields, Zenon
  <2>2. job'.todo = Tail(job.todo) /\ open = None /\ open' = live /\ live' = live /\ gone' = gone
    BY <2>5, StatementDoes
  <2> QED BY <1>1, <1>3, <2>1, <2>2, EraseChanges, BlankStored
     DEF Found, StatementFrame, Erasing, ErasePoint, StaysWhole, Stand, FilesStand, Idle
<1>4. CASE /\ job.todo = <<Call("drop"), Call("forget"), Call("preferences"), Call("commit")>>
           /\ open = live
           /\ Stand
  <2>1. Now = Call("drop") /\ Tail(job.todo) = <<Call("forget"), Call("preferences"), Call("commit")>>
    BY <1>4 DEF Now
  <2>5. Now.op = "drop"
    BY <2>1, CallFields, Zenon
  <2>2. job'.todo = Tail(job.todo) /\ Sees([View EXCEPT !.tables = 0, !.rows = "none"]) /\ gone' = gone
    BY <2>5, StatementDoes
  <2>3. View = IF open = None THEN live ELSE open
    BY DEF View
  <2>4. IF open = None THEN live' = [live EXCEPT !.tables = 0, !.rows = "none"] /\ open' = open ELSE live' = live /\ open' = [open EXCEPT !.tables = 0, !.rows = "none"]
    BY <2>2, <2>3 DEF Sees
  <2> QED BY <1>1, <1>4, <2>1, <2>2, <2>3, <2>4, EraseChanges, BlankStored
     DEF Found, StatementFrame, Erasing, ErasePoint, StaysWhole, Stand, FilesStand, Idle
<1>5. CASE /\ job.todo = <<Call("forget"), Call("preferences"), Call("commit")>>
           /\ open = [live EXCEPT !.tables = 0, !.rows = "none"]
           /\ Stand
  <2>1. Now = Call("forget") /\ Tail(job.todo) = <<Call("preferences"), Call("commit")>>
    BY <1>5 DEF Now
  <2>5. Now.op = "forget"
    BY <2>1, CallFields, Zenon
  <2>2. job'.todo = Tail(job.todo) /\ Sees([View EXCEPT !.version = 0]) /\ gone' = gone
    BY <2>5, StatementDoes
  <2>3. View = IF open = None THEN live ELSE open
    BY DEF View
  <2>4. IF open = None THEN live' = [live EXCEPT !.version = 0] /\ open' = open ELSE live' = live /\ open' = [open EXCEPT !.version = 0]
    BY <2>2, <2>3 DEF Sees
  <2> QED BY <1>1, <1>5, <2>1, <2>2, <2>3, <2>4, EraseChanges, BlankStored
     DEF Found, StatementFrame, Erasing, ErasePoint, StaysWhole, Stand, FilesStand, Idle
<1>6. CASE /\ job.todo = <<Call("preferences"), Call("commit")>>
           /\ open = Blank
           /\ Stand
  <2>1. Now = Call("preferences") /\ Tail(job.todo) = <<Call("commit")>>
    BY <1>6 DEF Now
  <2>5. Now.op = "preferences"
    BY <2>1, CallFields, Zenon
  <2>2. job'.todo = Tail(job.todo) /\ Quiet
    BY <2>5, StatementDoes
  <2> QED BY <1>1, <1>6, <2>1, <2>2, EraseChanges, BlankStored
     DEF Found, StatementFrame, Erasing, ErasePoint, StaysWhole, Stand, FilesStand, Idle, Quiet
<1>7. CASE /\ job.todo = <<Call("commit")>>
           /\ open = Blank
           /\ Stand
  <2>1. Now = Call("commit") /\ Tail(job.todo) = <<>>
    BY <1>7 DEF Now
  <2>5. Now.op = "commit"
    BY <2>1, CallFields, Zenon
  <2>2. job'.todo = Tail(job.todo) /\ live' = open /\ open' = None /\ gone' = gone
    BY <2>5, StatementDoes
  <2> QED BY <1>1, <1>7, <2>1, <2>2, EraseChanges, BlankStored
     DEF Found, StatementFrame, Erasing, ErasePoint, StaysWhole, Stand, FilesStand, Idle, Finished, Done
<1>8. CASE Finished
  BY <1>1, <1>8 DEF Found, StatementFrame, Finished
<1> QED BY <1>2, <1>3, <1>4, <1>5, <1>6, <1>7, <1>8 DEF Erasing, ErasePoint

\* So does one of a recovery, which erases what it copied before.
LEMMA StatementRecovering ==
  ASSUME SessionTypeOK, Rescued, Statement, job.kind = "recover", Recovering
  PROVE  StaysWhole /\ Recovering'
<1>1. Found
  BY StatementFinds
<1>2. CASE /\ job.todo = <<Call("folders"), At("touches", "rescue"), Call("reserve"),
                           At("create", "partial"), At("fill", "partial"), At("replace", "rescue"),
                           Call("read"), Call("begin"), Call("drop"), Call("forget"),
                           Call("preferences"), Call("commit")>>
           /\ Idle
           /\ Stand
  <2>1. Now = Call("folders") /\ Tail(job.todo) = <<At("touches", "rescue"), Call("reserve"), At("create", "partial"),
              At("fill", "partial"), At("replace", "rescue"), Call("read"), Call("begin"),
              Call("drop"), Call("forget"), Call("preferences"), Call("commit")>>
    BY <1>2 DEF Now
  <2>5. Now.op = "folders"
    BY <2>1, CallFields, Zenon
  <2>2. job'.todo = Tail(job.todo) /\ Quiet
    BY <2>5, StatementDoes
  <2> QED BY <1>1, <1>2, <2>1, <2>2, EraseChanges, BlankStored
     DEF Found, StatementFrame, Recovering, ErasePoint, StaysWhole, Stand, FilesStand, Idle, Quiet
<1>3. CASE /\ job.todo = <<At("touches", "rescue"), Call("reserve"), At("create", "partial"),
                           At("fill", "partial"), At("replace", "rescue"), Call("read"),
                           Call("begin"), Call("drop"), Call("forget"), Call("preferences"),
                           Call("commit")>>
           /\ Idle
           /\ Stand
  <2>1. Now = At("touches", "rescue") /\ Tail(job.todo) = <<Call("reserve"), At("create", "partial"), At("fill", "partial"),
              At("replace", "rescue"), Call("read"), Call("begin"), Call("drop"), Call("forget"),
              Call("preferences"), Call("commit")>>
    BY <1>3 DEF Now
  <2>5. Now.op = "touches"
    BY <2>1, CallFields, Zenon
  <2>2. job'.todo = Tail(job.todo) /\ Quiet
    BY <2>5, StatementDoes
  <2> QED BY <1>1, <1>3, <2>1, <2>2, EraseChanges, BlankStored
     DEF Found, StatementFrame, Recovering, ErasePoint, StaysWhole, Stand, FilesStand, Idle, Quiet
<1>4. CASE /\ job.todo = <<Call("reserve"), At("create", "partial"), At("fill", "partial"),
                           At("replace", "rescue"), Call("read"), Call("begin"), Call("drop"),
                           Call("forget"), Call("preferences"), Call("commit")>>
           /\ Idle
           /\ Stand
  <2>1. Now = Call("reserve") /\ Tail(job.todo) = <<At("create", "partial"), At("fill", "partial"), At("replace", "rescue"), Call("read"),
              Call("begin"), Call("drop"), Call("forget"), Call("preferences"), Call("commit")>>
    BY <1>4 DEF Now
  <2>5. Now.op = "reserve"
    BY <2>1, CallFields, Zenon
  <2>2. job'.todo = Tail(job.todo) /\ Quiet
    BY <2>5, StatementDoes
  <2> QED BY <1>1, <1>4, <2>1, <2>2, EraseChanges, BlankStored
     DEF Found, StatementFrame, Recovering, ErasePoint, StaysWhole, Stand, FilesStand, Idle, Quiet
<1>5. CASE /\ job.todo = <<At("create", "partial"), At("fill", "partial"), At("replace", "rescue"),
                           Call("read"), Call("begin"), Call("drop"), Call("forget"),
                           Call("preferences"), Call("commit")>>
           /\ Idle
           /\ Stand
  <2>1. Now = At("create", "partial")
    BY <1>5 DEF Now
  <2>2. Now.op = "create"
    BY <2>1, CallFields, Zenon
  <2> QED BY <2>2, StatementDoes
<1>6. CASE /\ job.todo = <<At("fill", "partial"), At("replace", "rescue"), Call("read"),
                           Call("begin"), Call("drop"), Call("forget"), Call("preferences"),
                           Call("commit")>>
           /\ Idle
           /\ Stand
  <2>1. Now = At("fill", "partial")
    BY <1>6 DEF Now
  <2>2. Now.op = "fill"
    BY <2>1, CallFields, Zenon
  <2> QED BY <2>2, StatementDoes
<1>7. CASE /\ job.todo = <<At("replace", "rescue"), Call("read"), Call("begin"), Call("drop"),
                           Call("forget"), Call("preferences"), Call("commit")>>
           /\ Idle
           /\ Stand
           /\ job.partial = live
  <2>1. Now = At("replace", "rescue")
    BY <1>7 DEF Now
  <2>2. Now.op = "replace"
    BY <2>1, CallFields, Zenon
  <2> QED BY <2>2, StatementDoes
<1>8. CASE /\ job.todo = <<Call("read"), Call("begin"), Call("drop"), Call("forget"),
                           Call("preferences"), Call("commit")>>
           /\ Idle
           /\ Stand
           /\ live \in rescue
  <2>1. Now = Call("read") /\ Tail(job.todo) = <<Call("begin"), Call("drop"), Call("forget"), Call("preferences"), Call("commit")>>
    BY <1>8 DEF Now
  <2>5. Now.op = "read"
    BY <2>1, CallFields, Zenon
  <2>2. job'.todo = Tail(job.todo) /\ Quiet
    BY <2>5, StatementDoes
  <2> QED BY <1>1, <1>8, <2>1, <2>2, EraseChanges, BlankStored
     DEF Found, StatementFrame, Recovering, ErasePoint, StaysWhole, Stand, FilesStand, Idle, Quiet
<1>9. CASE /\ job.todo = <<Call("begin"), Call("drop"), Call("forget"), Call("preferences"),
                           Call("commit")>>
           /\ Idle
           /\ Stand
           /\ live \in rescue
  <2>1. Now = Call("begin") /\ Tail(job.todo) = <<Call("drop"), Call("forget"), Call("preferences"), Call("commit")>>
    BY <1>9 DEF Now
  <2>5. Now.op = "begin"
    BY <2>1, CallFields, Zenon
  <2>2. job'.todo = Tail(job.todo) /\ open = None /\ open' = live /\ live' = live /\ gone' = gone
    BY <2>5, StatementDoes
  <2> QED BY <1>1, <1>9, <2>1, <2>2, EraseChanges, BlankStored
     DEF Found, StatementFrame, Recovering, ErasePoint, StaysWhole, Stand, FilesStand, Idle
<1>10. CASE /\ job.todo = <<Call("drop"), Call("forget"), Call("preferences"), Call("commit")>>
            /\ open = live
            /\ Stand
            /\ live \in rescue
  <2>1. Now = Call("drop") /\ Tail(job.todo) = <<Call("forget"), Call("preferences"), Call("commit")>>
    BY <1>10 DEF Now
  <2>5. Now.op = "drop"
    BY <2>1, CallFields, Zenon
  <2>2. job'.todo = Tail(job.todo) /\ Sees([View EXCEPT !.tables = 0, !.rows = "none"]) /\ gone' = gone
    BY <2>5, StatementDoes
  <2>3. View = IF open = None THEN live ELSE open
    BY DEF View
  <2>4. IF open = None THEN live' = [live EXCEPT !.tables = 0, !.rows = "none"] /\ open' = open ELSE live' = live /\ open' = [open EXCEPT !.tables = 0, !.rows = "none"]
    BY <2>2, <2>3 DEF Sees
  <2> QED BY <1>1, <1>10, <2>1, <2>2, <2>3, <2>4, EraseChanges, BlankStored
     DEF Found, StatementFrame, Recovering, ErasePoint, StaysWhole, Stand, FilesStand, Idle
<1>11. CASE /\ job.todo = <<Call("forget"), Call("preferences"), Call("commit")>>
            /\ open = [live EXCEPT !.tables = 0, !.rows = "none"]
            /\ Stand
            /\ live \in rescue
  <2>1. Now = Call("forget") /\ Tail(job.todo) = <<Call("preferences"), Call("commit")>>
    BY <1>11 DEF Now
  <2>5. Now.op = "forget"
    BY <2>1, CallFields, Zenon
  <2>2. job'.todo = Tail(job.todo) /\ Sees([View EXCEPT !.version = 0]) /\ gone' = gone
    BY <2>5, StatementDoes
  <2>3. View = IF open = None THEN live ELSE open
    BY DEF View
  <2>4. IF open = None THEN live' = [live EXCEPT !.version = 0] /\ open' = open ELSE live' = live /\ open' = [open EXCEPT !.version = 0]
    BY <2>2, <2>3 DEF Sees
  <2> QED BY <1>1, <1>11, <2>1, <2>2, <2>3, <2>4, EraseChanges, BlankStored
     DEF Found, StatementFrame, Recovering, ErasePoint, StaysWhole, Stand, FilesStand, Idle
<1>12. CASE /\ job.todo = <<Call("preferences"), Call("commit")>>
            /\ open = Blank
            /\ Stand
            /\ live \in rescue
  <2>1. Now = Call("preferences") /\ Tail(job.todo) = <<Call("commit")>>
    BY <1>12 DEF Now
  <2>5. Now.op = "preferences"
    BY <2>1, CallFields, Zenon
  <2>2. job'.todo = Tail(job.todo) /\ Quiet
    BY <2>5, StatementDoes
  <2> QED BY <1>1, <1>12, <2>1, <2>2, EraseChanges, BlankStored
     DEF Found, StatementFrame, Recovering, ErasePoint, StaysWhole, Stand, FilesStand, Idle, Quiet
<1>13. CASE /\ job.todo = <<Call("commit")>>
            /\ open = Blank
            /\ Stand
            /\ live \in rescue
  <2>1. Now = Call("commit") /\ Tail(job.todo) = <<>>
    BY <1>13 DEF Now
  <2>5. Now.op = "commit"
    BY <2>1, CallFields, Zenon
  <2>2. job'.todo = Tail(job.todo) /\ live' = open /\ open' = None /\ gone' = gone \cup {live}
    BY <2>5, StatementDoes
  <2> QED BY <1>1, <1>13, <2>1, <2>2, EraseChanges, BlankStored
     DEF Found, StatementFrame, Recovering, ErasePoint, StaysWhole, Stand, FilesStand, Idle, Finished, Done
<1>14. CASE Finished
  BY <1>1, <1>14 DEF Found, StatementFrame, Finished
<1> QED BY <1>2, <1>3, <1>4, <1>5, <1>6, <1>7, <1>8, <1>9, <1>10, <1>11, <1>12, <1>13, <1>14 DEF Recovering, ErasePoint

\* So does one of an export.
LEMMA StatementExporting ==
  ASSUME SessionTypeOK, Rescued, Statement, job.kind = "export", Exporting
  PROVE  StaysWhole /\ Exporting'
<1>1. Found
  BY StatementFinds
<1>2. CASE /\ job.todo = <<At("touches", "chosen"), Call("reserve"), At("create", "partial"),
                           At("fill", "partial"), At("replace", "chosen")>>
           /\ Idle
           /\ Stand
  <2>1. Now = At("touches", "chosen") /\ Tail(job.todo) = <<Call("reserve"), At("create", "partial"), At("fill", "partial"), At("replace", "chosen")>>
    BY <1>2 DEF Now
  <2>5. Now.op = "touches"
    BY <2>1, CallFields, Zenon
  <2>2. job'.todo = Tail(job.todo) /\ Quiet
    BY <2>5, StatementDoes
  <2> QED BY <1>1, <1>2, <2>1, <2>2, StoredIs
     DEF Found, StatementFrame, Exporting, StaysWhole, Stand, FilesStand, Idle, Quiet
<1>3. CASE /\ job.todo = <<At("touches", "live"), Call("reserve"), At("create", "partial"),
                           At("fill", "partial"), At("replace", "live")>>
           /\ Idle
           /\ Stand
  <2>1. Now = At("touches", "live")
    BY <1>3 DEF Now
  <2>2. Now.op = "touches" /\ Now.arg = "live"
    BY SMTT(30), <2>1, CallFields, Zenon
  <2> QED BY <2>2, StatementDoes
<1>4. CASE /\ job.todo = <<Call("reserve"), At("create", "partial"), At("fill", "partial"),
                           At("replace", "chosen")>>
           /\ Idle
           /\ Stand
  <2>1. Now = Call("reserve") /\ Tail(job.todo) = <<At("create", "partial"), At("fill", "partial"), At("replace", "chosen")>>
    BY <1>4 DEF Now
  <2>5. Now.op = "reserve"
    BY <2>1, CallFields, Zenon
  <2>2. job'.todo = Tail(job.todo) /\ Quiet
    BY <2>5, StatementDoes
  <2> QED BY <1>1, <1>4, <2>1, <2>2, StoredIs
     DEF Found, StatementFrame, Exporting, StaysWhole, Stand, FilesStand, Idle, Quiet
<1>5. CASE /\ job.todo = <<At("create", "partial"), At("fill", "partial"), At("replace", "chosen")>>
           /\ Idle
           /\ Stand
  <2>1. Now = At("create", "partial")
    BY <1>5 DEF Now
  <2>2. Now.op = "create"
    BY <2>1, CallFields, Zenon
  <2> QED BY <2>2, StatementDoes
<1>6. CASE /\ job.todo = <<At("fill", "partial"), At("replace", "chosen")>>
           /\ Idle
           /\ Stand
  <2>1. Now = At("fill", "partial")
    BY <1>6 DEF Now
  <2>2. Now.op = "fill"
    BY <2>1, CallFields, Zenon
  <2> QED BY <2>2, StatementDoes
<1>7. CASE /\ job.todo = <<At("replace", "chosen")>>
           /\ Idle
           /\ Stand
           /\ job.partial = live
  <2>1. Now = At("replace", "chosen")
    BY <1>7 DEF Now
  <2>2. Now.op = "replace"
    BY <2>1, CallFields, Zenon
  <2> QED BY <2>2, StatementDoes
<1>8. CASE Finished
  BY <1>1, <1>8 DEF Found, StatementFrame, Finished
<1> QED BY <1>2, <1>3, <1>4, <1>5, <1>6, <1>7, <1>8 DEF Exporting

\* So does one of an import.
LEMMA StatementStaging ==
  ASSUME SessionTypeOK, Rescued, Statement, job.kind = "import", Staging
  PROVE  StaysWhole /\ Staging'
<1>1. Found
  BY StatementFinds
<1>2. CASE /\ job.todo = <<Call("validate"), Call("read"), Call("reserve"), At("create", "partial"),
                           At("fill", "partial"), At("replace", "staged")>>
           /\ Idle
           /\ Stand
  <2>1. Now = Call("validate") /\ Tail(job.todo) = <<Call("read"), Call("reserve"), At("create", "partial"), At("fill", "partial"),
              At("replace", "staged")>>
    BY <1>2 DEF Now
  <2>5. Now.op = "validate"
    BY <2>1, CallFields, Zenon
  <2>2. job'.todo = Tail(job.todo) /\ Quiet
    BY <2>5, StatementDoes
  <2> QED BY <1>1, <1>2, <2>1, <2>2, StoredIs
     DEF Found, StatementFrame, Staging, StaysWhole, Stand, FilesStand, Idle, Quiet
<1>3. CASE /\ job.todo = <<Call("read"), Call("reserve"), At("create", "partial"),
                           At("fill", "partial"), At("replace", "staged")>>
           /\ Idle
           /\ Stand
  <2>1. Now = Call("read") /\ Tail(job.todo) = <<Call("reserve"), At("create", "partial"), At("fill", "partial"), At("replace", "staged")>>
    BY <1>3 DEF Now
  <2>5. Now.op = "read"
    BY <2>1, CallFields, Zenon
  <2>2. job'.todo = Tail(job.todo) /\ Quiet
    BY <2>5, StatementDoes
  <2> QED BY <1>1, <1>3, <2>1, <2>2, StoredIs
     DEF Found, StatementFrame, Staging, StaysWhole, Stand, FilesStand, Idle, Quiet
<1>4. CASE /\ job.todo = <<Call("reserve"), At("create", "partial"), At("fill", "partial"),
                           At("replace", "staged")>>
           /\ Idle
           /\ Stand
  <2>1. Now = Call("reserve") /\ Tail(job.todo) = <<At("create", "partial"), At("fill", "partial"), At("replace", "staged")>>
    BY <1>4 DEF Now
  <2>5. Now.op = "reserve"
    BY <2>1, CallFields, Zenon
  <2>2. job'.todo = Tail(job.todo) /\ Quiet
    BY <2>5, StatementDoes
  <2> QED BY <1>1, <1>4, <2>1, <2>2, StoredIs
     DEF Found, StatementFrame, Staging, StaysWhole, Stand, FilesStand, Idle, Quiet
<1>5. CASE /\ job.todo = <<At("create", "partial"), At("fill", "partial"), At("replace", "staged")>>
           /\ Idle
           /\ Stand
  <2>1. Now = At("create", "partial")
    BY <1>5 DEF Now
  <2>2. Now.op = "create"
    BY <2>1, CallFields, Zenon
  <2> QED BY <2>2, StatementDoes
<1>6. CASE /\ job.todo = <<At("fill", "partial"), At("replace", "staged")>>
           /\ Idle
           /\ Stand
  <2>1. Now = At("fill", "partial")
    BY <1>6 DEF Now
  <2>2. Now.op = "fill"
    BY <2>1, CallFields, Zenon
  <2> QED BY <2>2, StatementDoes
<1>7. CASE /\ job.todo = <<At("replace", "staged")>>
           /\ Idle
           /\ Stand
  <2>1. Now = At("replace", "staged")
    BY <1>7 DEF Now
  <2>2. Now.op = "replace"
    BY <2>1, CallFields, Zenon
  <2> QED BY <2>2, StatementDoes
<1>8. CASE Finished
  BY <1>1, <1>8 DEF Found, StatementFrame, Finished
<1> QED BY <1>2, <1>3, <1>4, <1>5, <1>6, <1>7, <1>8 DEF Staging

\* So does a statement of a migration.
LEMMA StatementMigrating ==
  ASSUME SessionTypeOK, Rescued, Statement, job.kind = "migrate", Migrating
  PROVE  StaysWhole /\ Migrating'
<1>1. Found /\ FilesStand /\ FilesStand'
  BY StatementFinds DEF Found, StatementFrame, Migrating, FilesStand
<1>2. ASSUME Quiet, job'.todo = Tail(job.todo)
      PROVE  StaysWhole /\ View' = View /\ Idle' = Idle
  BY <1>1, <1>2 DEF Quiet, Found, StatementFrame, StaysWhole, View, Idle
<1>3. CASE /\ job.todo = <<Call("read"), Call("fits"), Of("loop", View.version + 1), Call("verify")>>
           /\ Idle
  <2>1. Now = Call("read") /\ Tail(job.todo) = <<Call("fits"), Of("loop", View.version + 1), Call("verify")>>
    BY <1>3 DEF Now
  <2>2. Now.op = "read"
    BY <2>1, CallFields, Zenon
  <2>3. job'.todo = Tail(job.todo) /\ Quiet
    BY <2>2, StatementDoes
  <2>4. StaysWhole /\ View' = View /\ Idle'
    BY <1>2, <1>3, <2>3
  <2>5. job'.todo = <<Call("fits"), Of("loop", View'.version + 1), Call("verify")>>
    BY <2>1, <2>3, <2>4
  <2> QED BY <1>1, <2>4, <2>5 DEF Migrating
<1>4. CASE /\ job.todo = <<Call("fits"), Of("loop", View.version + 1), Call("verify")>>
           /\ Idle
  <2>1. Now = Call("fits") /\ Tail(job.todo) = <<Of("loop", View.version + 1), Call("verify")>>
    BY <1>4 DEF Now
  <2>2. Now.op = "fits"
    BY <2>1, CallFields, Zenon
  <2>3. job'.todo = Tail(job.todo) /\ Quiet /\ ~Newer
    BY <2>2, StatementDoes
  <2>4. StaysWhole /\ View' = View /\ Idle'
    BY <1>2, <1>4, <2>3
  <2>5. View \in Data
    BY <1>1 DEF View, Found
  <2>6. View'.version <= declared'
    BY <1>1, <2>3, <2>4, <2>5 DEF Newer, Data, Found, StatementFrame
  <2>7. job'.todo = <<Of("loop", View'.version + 1), Call("verify")>>
    BY <2>1, <2>3, <2>4
  <2> QED BY <1>1, <2>4, <2>6, <2>7 DEF Migrating
<1>5. CASE /\ job.todo = <<Of("loop", View.version + 1), Call("verify")>>
           /\ Idle /\ View.version <= declared
  <2> DEFINE v == View.version + 1
  <2>1. Now = Of("loop", v) /\ Tail(job.todo) = <<Call("verify")>>
    BY <1>5 DEF Now
  <2> HIDE DEF v
  <2>2. Now.op = "loop" /\ Now.version = v
    BY SMTT(30), <2>1, CallFields, Zenon
  <2>3. /\ Quiet
        /\ v <= declared => job'.todo = Migration(v) \o <<Of("loop", v + 1)>> \o Tail(job.todo)
        /\ ~(v <= declared) => job'.todo = Tail(job.todo)
    BY <2>2, StatementDoes
  <2>4. StaysWhole /\ View' = View /\ Idle' /\ declared' = declared
    BY <1>1, <1>5, <2>3 DEF Quiet, Found, StatementFrame, StaysWhole, View, Idle
  <2>5. View \in Data
    BY <1>1 DEF View, Found
  <2>6. View.version \in Nat /\ declared \in Nat /\ v \in Nat /\ v = View.version + 1 /\ View.version = v - 1
    BY <1>1, <2>5 DEF Data, Found, v
  <2>7. CASE v <= declared
    <3>1. Migration(v) = <<Call("begin"), Of("change", v), Call("parents"), Of("record", v), Call("commit")>>
      BY DEF Migration
    <3>2. <<Call("begin"), Of("change", v), Call("parents"), Of("record", v), Call("commit")>>
             \o <<Of("loop", v + 1)>> \o <<Call("verify")>>
          = <<Call("begin"), Of("change", v), Call("parents"), Of("record", v), Call("commit"),
              Of("loop", v + 1), Call("verify")>>
      BY FiveOneOne
    <3>3. job'.todo = <<Call("begin"), Of("change", v), Call("parents"), Of("record", v), Call("commit"),
                        Of("loop", v + 1), Call("verify")>>
      BY <2>1, <2>3, <2>7, <3>1, <3>2
    <3>4. v \in 1..declared' /\ View'.version = v - 1
      BY <2>4, <2>6, <2>7
    <3> QED BY <1>1, <2>4, <3>3, <3>4 DEF Migrating
  <2>8. CASE ~(v <= declared)
    <3>1. job'.todo = <<Call("verify")>>
      BY <2>1, <2>3, <2>8
    <3>2. View'.version = declared'
      BY <1>5, <2>4, <2>6, <2>8
    <3> QED BY <1>1, <2>4, <3>1, <3>2 DEF Migrating
  <2> QED BY <2>7, <2>8
<1>6. ASSUME NEW v \in 1..declared,
             /\ job.todo = <<Call("begin"), Of("change", v), Call("parents"), Of("record", v), Call("commit"),
                             Of("loop", v + 1), Call("verify")>>
             /\ Idle /\ View.version = v - 1
      PROVE  StaysWhole /\ Migrating'
  <2>1. /\ Now = Call("begin")
        /\ Tail(job.todo) = <<Of("change", v), Call("parents"), Of("record", v), Call("commit"),
                              Of("loop", v + 1), Call("verify")>>
    BY <1>6 DEF Now
  <2>2. Now.op = "begin"
    BY <2>1, CallFields, Zenon
  <2>3. job'.todo = Tail(job.todo) /\ open = None /\ open' = live /\ live' = live /\ gone' = gone
    BY <2>2, StatementDoes
  <2>4. live.version = v - 1
    BY <1>6, <2>3 DEF View
  <2>5. StaysWhole /\ declared' = declared
    BY <1>1, <2>3, StoredIs DEF Found, StatementFrame, StaysWhole
  <2>6. job'.todo = <<Of("change", v), Call("parents"), Of("record", v), Call("commit"),
                      Of("loop", v + 1), Call("verify")>>
    BY <2>1, <2>3
  <2>7. open' = live' /\ live'.version = v - 1 /\ v \in 1..declared'
    BY <2>3, <2>4, <2>5
  <2> QED BY <1>1, <2>5, <2>6, <2>7 DEF Migrating
<1>7. ASSUME NEW v \in 1..declared,
             /\ job.todo = <<Of("change", v), Call("parents"), Of("record", v), Call("commit"),
                             Of("loop", v + 1), Call("verify")>>
             /\ open = live /\ live.version = v - 1
      PROVE  StaysWhole /\ Migrating'
  <2>1. /\ Now = Of("change", v)
        /\ Tail(job.todo) = <<Call("parents"), Of("record", v), Call("commit"), Of("loop", v + 1), Call("verify")>>
    BY <1>7 DEF Now
  <2>2. Now.op = "change" /\ Now.version = v
    BY SMTT(30), <2>1, CallFields, Zenon
  <2>3. job'.todo = Tail(job.todo) /\ Sees([View EXCEPT !.tables = IF @ = Strange THEN @ ELSE v]) /\ gone' = gone
    BY <2>2, StatementDoes
  <2>4. live' = live /\ open' = Changed(v)
    BY <1>1, <1>7, <2>3 DEF Sees, View, Changed, Found
  <2>5. Changed(v) \in Data
    <3>1. v \in 1..MaxVersion /\ live \in Stored
      BY <1>1 DEF Found
    <3> QED BY <3>1, MigrationChanges DEF Changed
  <2>6. StaysWhole /\ declared' = declared
    BY <1>1, <2>3, <2>4, <2>5 DEF Found, StatementFrame, StaysWhole
  <2>7. job'.todo = <<Call("parents"), Of("record", v), Call("commit"), Of("loop", v + 1), Call("verify")>>
    BY <2>1, <2>3
  <2>8. open' = Changed(v)' /\ live'.version = v - 1 /\ v \in 1..declared'
    BY <1>7, <2>4, <2>6 DEF Changed
  <2> QED BY <1>1, <2>6, <2>7, <2>8 DEF Migrating, Changed
<1>8. ASSUME NEW v \in 1..declared,
             /\ job.todo = <<Call("parents"), Of("record", v), Call("commit"), Of("loop", v + 1), Call("verify")>>
             /\ open = Changed(v) /\ live.version = v - 1
      PROVE  StaysWhole /\ Migrating'
  <2>1. /\ Now = Call("parents")
        /\ Tail(job.todo) = <<Of("record", v), Call("commit"), Of("loop", v + 1), Call("verify")>>
    BY <1>8 DEF Now
  <2>2. Now.op = "parents"
    BY <2>1, CallFields, Zenon
  <2>3. job'.todo = Tail(job.todo) /\ Quiet
    BY <2>2, StatementDoes
  <2>4. StaysWhole /\ live' = live /\ open' = open /\ declared' = declared
    BY <1>1, <1>2, <2>3 DEF Quiet, Found, StatementFrame
  <2>5. job'.todo = <<Of("record", v), Call("commit"), Of("loop", v + 1), Call("verify")>>
    BY <2>1, <2>3
  <2>6. open' = [live' EXCEPT !.tables = IF @ = Strange THEN @ ELSE v] /\ live'.version = v - 1 /\ v \in 1..declared'
    BY <1>8, <2>4 DEF Changed
  <2> QED BY <1>1, <2>4, <2>5, <2>6 DEF Migrating, Changed
<1>9. ASSUME NEW v \in 1..declared,
             /\ job.todo = <<Of("record", v), Call("commit"), Of("loop", v + 1), Call("verify")>>
             /\ open = Changed(v) /\ live.version = v - 1
      PROVE  StaysWhole /\ Migrating'
  <2>1. Now = Of("record", v) /\ Tail(job.todo) = <<Call("commit"), Of("loop", v + 1), Call("verify")>>
    BY <1>9 DEF Now
  <2>2. Now.op = "record" /\ Now.version = v
    BY SMTT(30), <2>1, CallFields, Zenon
  <2>3. job'.todo = Tail(job.todo) /\ Sees([View EXCEPT !.version = v]) /\ gone' = gone
    BY <2>2, StatementDoes
  <2>4. Changed(v) \in Data /\ [Changed(v) EXCEPT !.version = v] \in Stored
    <3>1. v \in 1..MaxVersion /\ live \in Stored
      BY <1>1 DEF Found
    <3> QED BY <3>1, MigrationChanges DEF Changed
  <2>5. live' = live /\ open' = [Changed(v) EXCEPT !.version = v]
    BY <1>1, <1>9, <2>3, <2>4 DEF Sees, View, Found
  <2>6. StaysWhole /\ declared' = declared
    BY <1>1, <2>3, <2>4, <2>5, StoredIs DEF Found, StatementFrame, StaysWhole
  <2>7. job'.todo = <<Call("commit"), Of("loop", v + 1), Call("verify")>>
    BY <2>1, <2>3
  <2>8. /\ open' = [[live' EXCEPT !.tables = IF @ = Strange THEN @ ELSE v] EXCEPT !.version = v]
        /\ live'.version = v - 1 /\ v \in 1..declared'
    BY <1>9, <2>5, <2>6 DEF Changed
  <2> QED BY <1>1, <2>6, <2>7, <2>8 DEF Migrating, Changed
<1>10. ASSUME NEW v \in 1..declared,
              /\ job.todo = <<Call("commit"), Of("loop", v + 1), Call("verify")>>
              /\ open = [Changed(v) EXCEPT !.version = v] /\ live.version = v - 1
       PROVE  StaysWhole /\ Migrating'
  <2>1. Now = Call("commit") /\ Tail(job.todo) = <<Of("loop", v + 1), Call("verify")>>
    BY <1>10 DEF Now
  <2>2. Now.op = "commit"
    BY <2>1, CallFields, Zenon
  <2>3. job'.todo = Tail(job.todo) /\ live' = open /\ open' = None /\ gone' = gone
    BY <2>2, StatementDoes
  <2>4. Changed(v) \in Data /\ [Changed(v) EXCEPT !.version = v] \in Stored
    <3>1. v \in 1..MaxVersion /\ live \in Stored
      BY <1>1 DEF Found
    <3> QED BY <3>1, MigrationChanges DEF Changed
  <2>5. [Changed(v) EXCEPT !.version = v].version = v
    BY <2>4 DEF Data
  <2>6. StaysWhole /\ declared' = declared
    BY <1>1, <1>10, <2>3, <2>4 DEF Found, StatementFrame, StaysWhole
  <2>7. View' = live' /\ live'.version = v /\ v <= declared' /\ Idle'
    BY <1>10, <2>3, <2>5, <2>6 DEF View, Idle
  <2>8. job'.todo = <<Of("loop", View'.version + 1), Call("verify")>>
    BY <2>1, <2>3, <2>7
  <2> QED BY <1>1, <2>6, <2>7, <2>8 DEF Migrating
<1>11. CASE /\ job.todo = <<Call("verify")>>
            /\ Idle /\ View.version = declared
  <2>1. Now = Call("verify") /\ Tail(job.todo) = <<>>
    BY <1>11 DEF Now
  <2>2. Now.op = "verify"
    BY <2>1, CallFields, Zenon
  <2>3. job'.todo = Tail(job.todo) /\ Quiet /\ ~Differs
    BY <2>2, StatementDoes
  <2>4. StaysWhole /\ View' = View /\ Idle' /\ declared' = declared /\ job'.kind = "migrate"
    BY <1>1, <1>2, <1>11, <2>3 DEF Found, StatementFrame
  <2>5. View.tables = declared
    BY <2>3 DEF Differs
  <2>6. Done'
    BY <1>11, <2>4, <2>5 DEF Done, Idle, View
  <2> QED BY <1>1, <2>1, <2>3, <2>4, <2>6 DEF Migrating, Finished
<1>12. CASE Finished
  BY <1>1, <1>12 DEF Found, StatementFrame, Finished
<1> QED BY <1>3, <1>4, <1>5, <1>6, <1>7, <1>8, <1>9, <1>10, <1>11, <1>12 DEF Migrating

\* The call a work comes to, and what stands then: only inside its transaction is
\* anything open, and only a migration has committed something before its end.
Inside == {"change", "parents", "record", "write", "drop", "forget", "preferences", "commit"}

Coming(ops) == Now.op \in ops /\ FilesStand /\ (Now.op \notin Inside => Idle)

\* The calls of a migration.
LEMMA MigratingComes ==
  ASSUME Migrating, job.todo # <<>>
  PROVE  Coming({"read", "fits", "loop", "begin", "change", "parents", "record", "commit", "verify"})
<1>1. FilesStand
  BY DEF Migrating
<1>2. CASE /\ Idle
           /\ \/ job.todo = <<Call("read"), Call("fits"), Of("loop", View.version + 1), Call("verify")>>
              \/ job.todo = <<Call("fits"), Of("loop", View.version + 1), Call("verify")>>
              \/ job.todo = <<Of("loop", View.version + 1), Call("verify")>>
              \/ job.todo = <<Call("verify")>>
  <2>1. Now \in {Call("read"), Call("fits"), Of("loop", View.version + 1), Call("verify")}
    BY <1>2 DEF Now
  <2>2. Now.op \in {"read", "fits", "loop", "verify"}
    BY <2>1 DEF Call, At, Of
  <2> QED BY <1>1, <1>2, <2>2 DEF Coming
<1>3. ASSUME NEW v \in 1..declared,
             job.todo = <<Call("begin"), Of("change", v), Call("parents"), Of("record", v), Call("commit"),
                          Of("loop", v + 1), Call("verify")>>,
             Idle
      PROVE  Coming({"begin"})
  <2>1. Now = Call("begin")
    BY <1>3 DEF Now
  <2>2. Now.op = "begin"
    BY <2>1, CallFields, Zenon
  <2> QED BY <1>1, <1>3, <2>2 DEF Coming
<1>4. ASSUME NEW v \in 1..declared,
             \/ job.todo = <<Of("change", v), Call("parents"), Of("record", v), Call("commit"),
                             Of("loop", v + 1), Call("verify")>>
             \/ job.todo = <<Call("parents"), Of("record", v), Call("commit"), Of("loop", v + 1), Call("verify")>>
             \/ job.todo = <<Of("record", v), Call("commit"), Of("loop", v + 1), Call("verify")>>
             \/ job.todo = <<Call("commit"), Of("loop", v + 1), Call("verify")>>
      PROVE  Coming({"change", "parents", "record", "commit"})
  <2>1. Now \in {Of("change", v), Call("parents"), Of("record", v), Call("commit")}
    BY <1>4 DEF Now
  <2>2. Now.op \in {"change", "parents", "record", "commit"}
    BY <2>1 DEF Call, At, Of
  <2> QED BY <1>1, <2>2 DEF Coming, Inside
<1>5. job.todo # <<>> => ~Finished
  BY DEF Finished
<1> QED BY <1>2, <1>3, <1>4, <1>5 DEF Migrating, Coming

\* The calls of a transaction.
LEMMA TransactingComes ==
  ASSUME Transacting, job.todo # <<>>
  PROVE  Coming({"begin", "write", "commit"}) /\ Stand
<1>1. CASE /\ job.todo = <<Call("begin"), At("write", "half"), At("write", "whole"), Call("commit")>>
           /\ Idle /\ Stand
  <2>1. Now = Call("begin")
    BY <1>1 DEF Now
  <2>2. Now.op = "begin"
    BY <2>1, CallFields, Zenon
  <2> QED BY <1>1, <2>2 DEF Coming, Stand
<1>2. CASE /\ \/ job.todo = <<At("write", "half"), At("write", "whole"), Call("commit")>>
              \/ job.todo = <<At("write", "whole"), Call("commit")>>
              \/ job.todo = <<Call("commit")>>
           /\ Stand
  <2>1. Now \in {At("write", "half"), At("write", "whole"), Call("commit")}
    BY <1>2 DEF Now
  <2>2. Now.op \in {"write", "commit"}
    BY <2>1 DEF Call, At, Of
  <2> QED BY <1>2, <2>2 DEF Coming, Inside, Stand
<1> QED BY <1>1, <1>2 DEF Transacting, Finished

\* The statement that is committed by itself runs with nothing open.
LEMMA RunningOneComes ==
  ASSUME RunningOne, job.todo # <<>>
  PROVE  Coming({"write"}) /\ Stand /\ Idle
<1>1. job.todo = <<At("write", "whole")>> /\ Idle /\ Stand
  BY DEF RunningOne, Finished
<1>2. Now = At("write", "whole")
  BY <1>1 DEF Now
<1>3. Now.op = "write"
  BY <1>2, CallFields, Zenon
<1> QED BY <1>1, <1>3 DEF Coming, Stand

\* The calls of an erase.
LEMMA ErasePointComes ==
  ASSUME ErasePoint
  PROVE  Coming({"read", "begin", "drop", "forget", "preferences", "commit"}) /\ Stand
<1>1. CASE /\ \/ job.todo = <<Call("read"), Call("begin"), Call("drop"), Call("forget"), Call("preferences"), Call("commit")>>
              \/ job.todo = <<Call("begin"), Call("drop"), Call("forget"), Call("preferences"), Call("commit")>>
           /\ Idle /\ Stand
  <2>1. Now \in {Call("read"), Call("begin")}
    BY <1>1 DEF Now
  <2>2. Now.op \in {"read", "begin"}
    BY <2>1, CallFields, Zenon
  <2> QED BY <1>1, <2>2 DEF Coming, Stand
<1>2. CASE /\ \/ job.todo = <<Call("drop"), Call("forget"), Call("preferences"), Call("commit")>>
              \/ job.todo = <<Call("forget"), Call("preferences"), Call("commit")>>
              \/ job.todo = <<Call("preferences"), Call("commit")>>
              \/ job.todo = <<Call("commit")>>
           /\ Stand
  <2>1. Now \in {Call("drop"), Call("forget"), Call("preferences"), Call("commit")}
    BY <1>2 DEF Now
  <2>2. Now.op \in {"drop", "forget", "preferences", "commit"}
    BY <2>1, CallFields, Zenon
  <2> QED BY <1>2, <2>2 DEF Coming, Inside, Stand
<1> QED BY <1>1, <1>2 DEF ErasePoint

\* The copies are made with nothing open.
Copies == {"folders", "touches", "validate", "read", "reserve", "create", "fill", "replace"}

\* The calls of a recovery.
LEMMA RecoveringComes ==
  ASSUME Recovering, job.todo # <<>>
  PROVE  Coming(Copies \cup {"begin", "drop", "forget", "preferences", "commit"}) /\ Stand
<1>1. CASE ErasePoint
  BY <1>1, ErasePointComes DEF Coming, Copies
<1>2. CASE ~ErasePoint
  <2>1. Idle /\ Stand
    BY <1>2 DEF Recovering, Finished
  <2>2. Now \in {Call("folders"), At("touches", "rescue"), Call("reserve"),
                 At("create", "partial"), At("fill", "partial"), At("replace", "rescue")}
    BY <1>2 DEF Recovering, Finished, Now
  <2>3. Now.op \in Copies
    BY <2>2 DEF Call, At, Of, Copies
  <2> QED BY <2>1, <2>3 DEF Coming, Stand
<1> QED BY <1>1, <1>2

\* The calls of an export.
LEMMA ExportingComes ==
  ASSUME Exporting, job.todo # <<>>
  PROVE  Coming(Copies) /\ Stand
<1>1. Idle /\ Stand
  BY DEF Exporting, Finished
<1>2. Now \in {At("touches", "chosen"), At("touches", "live"), Call("reserve"),
               At("create", "partial"), At("fill", "partial"), At("replace", "chosen")}
  BY DEF Exporting, Finished, Now
<1>3. Now.op \in Copies
  BY <1>2 DEF Call, At, Of, Copies
<1> QED BY <1>1, <1>3 DEF Coming, Stand

\* The calls of an import.
LEMMA StagingComes ==
  ASSUME Staging, job.todo # <<>>
  PROVE  Coming(Copies) /\ Stand
<1>1. Idle /\ Stand
  BY DEF Staging, Finished
<1>2. Now \in {Call("validate"), Call("read"), Call("reserve"),
               At("create", "partial"), At("fill", "partial"), At("replace", "staged")}
  BY DEF Staging, Finished, Now
<1>3. Now.op \in Copies
  BY <1>2 DEF Call, At, Of, Copies
<1> QED BY <1>1, <1>3 DEF Coming, Stand

\* Whatever the work is: what a failure of its call would have to leave stands.
LEMMA PointStands ==
  ASSUME job.kind \in Kinds, Point, job.todo # <<>>
  PROVE  /\ FilesStand
         /\ job.kind # "migrate" => live = job.before.live
         /\ job.kind = "run" \/ Now.op \notin Inside => Idle
         /\ Now.op \in {"create", "fill", "replace"} => job.kind \in {"recover", "export", "import"}
<1> USE DEF Coming, Stand, Copies
<1>1. CASE job.kind = "migrate"
  BY <1>1, MigratingComes DEF Point
<1>2. CASE job.kind = "transaction"
  BY <1>2, TransactingComes DEF Point
<1>3. CASE job.kind = "run"
  BY <1>3, RunningOneComes DEF Point
<1>4. CASE job.kind = "erase"
  BY <1>4, ErasePointComes DEF Point, Erasing, Finished
<1>5. CASE job.kind = "recover"
  BY <1>5, RecoveringComes DEF Point
<1>6. CASE job.kind = "export"
  BY <1>6, ExportingComes DEF Point
<1>7. CASE job.kind = "import"
  BY <1>7, StagingComes DEF Point
<1> QED BY <1>1, <1>2, <1>3, <1>4, <1>5, <1>6, <1>7 DEF Kinds

\* A statement keeps the invariant.
LEMMA StatementKeeps == SInv /\ Statement => SInv'
<1> SUFFICES ASSUME SInv, Statement PROVE SInv'
  OBVIOUS
<1>1. SessionTypeOK /\ Rescued /\ CopiesWhole /\ BInv
  BY DEF SInv
<1>2. Found /\ StatementFrame
  BY <1>1, StatementFinds DEF Found
<1>3. job.kind \in Kinds /\ job \in Jobs
  BY <1>1, <1>2, JobTyped DEF StatementFrame
<1>4. Point
  BY <1>2 DEF SInv, Work, StatementFrame
<1>5. StaysWhole /\ Point'
  <2>0. job'.kind = job.kind
    BY <1>2 DEF StatementFrame
  <2>1. CASE job.kind = "migrate"
    BY <2>0, <2>1, <1>1, <1>4, StatementMigrating DEF Point
  <2>2. CASE job.kind = "transaction"
    BY <2>0, <2>2, <1>1, <1>4, StatementTransacting DEF Point
  <2>3. CASE job.kind = "run"
    BY <2>0, <2>3, <1>1, <1>4, StatementRunningOne DEF Point
  <2>4. CASE job.kind = "erase"
    BY <2>0, <2>4, <1>1, <1>4, StatementErasing DEF Point
  <2>5. CASE job.kind = "recover"
    BY <2>0, <2>5, <1>1, <1>4, StatementRecovering DEF Point
  <2>6. CASE job.kind = "export"
    BY <2>0, <2>6, <1>1, <1>4, StatementExporting DEF Point
  <2>7. CASE job.kind = "import"
    BY <2>0, <2>7, <1>1, <1>4, StatementStaging DEF Point
  <2> QED BY <1>3, <2>1, <2>2, <2>3, <2>4, <2>5, <2>6, <2>7 DEF Kinds
<1>6. BInv'
  <2>1. UNCHANGED vars
    BY DEF Statement
  <2> QED BY <1>1, <2>1, StepKeeps
<1>7. SessionTypeOK'
  BY <1>1, <1>2, <1>5 DEF SessionTypeOK, StaysWhole, StatementFrame
<1>8. CopiesWhole' /\ Rescued'
  BY <1>1, <1>2, <1>5 DEF CopiesWhole, Rescued, StaysWhole, StatementFrame
<1>9. Work'
  BY <1>2, <1>5, NothingAssumption DEF Work, StatementFrame
<1> QED BY <1>2, <1>6, <1>7, <1>8, <1>9 DEF SInv, StatementFrame

-----------------------------------------------------------------------------
(***************************************************************************)
(* The copies.                                                             *)
(***************************************************************************)

\* A copy goes on with the work and leaves the database as it is.
CopyFrame ==
    /\ job # None /\ phase = "session" /\ job.answer = None /\ job.todo # <<>>
    /\ job' \in Jobs /\ job' # None
    /\ job'.kind = job.kind /\ job'.answer = None /\ job'.before = job.before /\ job'.todo = Tail(job.todo)
    /\ live' = live /\ open' = open /\ declared' = declared /\ gone' = gone /\ stuck' = stuck /\ works' = works

\* What a copy that is put at a place does there.
LEMMA PutDoes ==
  ASSUME SessionTypeOK, Working, NEW to, NEW copy \in Data \cup {None}, Put(to, copy)
  PROVE  /\ CopyFrame
         /\ to = "partial" => job'.partial = copy /\ chosen' = chosen /\ rescue' = rescue /\ UNCHANGED vars
         /\ to = "chosen" => chosen' = copy /\ rescue' = rescue /\ UNCHANGED vars
         /\ to = "rescue" => chosen' = chosen /\ rescue' = rescue \cup {copy} /\ UNCHANGED vars
         /\ to = "staged" =>
               chosen' = chosen /\ rescue' = rescue /\ \E content \in {"import", "torn"} : Stage(content)
<1>1. job # None /\ phase = "session" /\ job.answer = None /\ job.todo # <<>>
  BY DEF Working
<1>2. job \in Jobs /\ job.todo \in Seq(WorkCalls)
  BY <1>1, JobTyped
<1>3. Tail(job.todo) \in Seq(WorkCalls)
  BY <1>1, <1>2
<1> DEFINE rest == Tail(job.todo)
           part == IF to = "partial" THEN copy ELSE None
<1>4. job' = [job EXCEPT !.todo = rest, !.partial = part]
  BY DEF Put
<1>5. rest \in Seq(WorkCalls) /\ part \in Data \cup {None}
  BY <1>3
<1> HIDE DEF rest, part
<1>6. /\ job' \in Jobs
      /\ job'.kind = job.kind /\ job'.answer = job.answer /\ job'.before = job.before
      /\ job'.todo = rest /\ job'.partial = part
  BY <1>2, <1>4, <1>5 DEF Jobs
<1>7. job' # None
  BY <1>6, NothingAssumption
<1>8. live' = live /\ open' = open /\ declared' = declared /\ gone' = gone /\ stuck' = stuck /\ works' = works
  BY DEF Put
<1>9. CopyFrame
  BY <1>1, <1>6, <1>7, <1>8 DEF CopyFrame, rest
<1>10. to = "partial" => job'.partial = copy /\ chosen' = chosen /\ rescue' = rescue /\ UNCHANGED vars
  BY <1>6 DEF Put, part
<1>11. to = "chosen" => chosen' = copy /\ rescue' = rescue /\ UNCHANGED vars
  BY DEF Put
<1>12. to = "rescue" => chosen' = chosen /\ rescue' = rescue \cup {copy} /\ UNCHANGED vars
  BY DEF Put
<1>13. to = "staged" =>
          chosen' = chosen /\ rescue' = rescue /\ \E content \in {"import", "torn"} : Stage(content)
  BY DEF Put
<1> QED BY <1>9, <1>10, <1>11, <1>12, <1>13

\* Each call of a copy, and what it puts where.
LEMMA CopyDoes ==
  ASSUME SessionTypeOK, Copy
  PROVE  /\ Working
         /\ Now.op \in {"create", "fill", "replace"}
         /\ Now.op = "create" => Put(Now.arg, Half)
         /\ Now.op = "fill" => Put(Now.arg, IF job.kind = "import" THEN Blank ELSE live)
         /\ Now.op = "replace" => Put(Now.arg, job.partial)
BY DEF Copy

\* A file that is not yet in its place is seen by nobody.
LEMMA CopyPartial ==
  ASSUME SessionTypeOK, Copy, Now \in {At("create", "partial"), At("fill", "partial")}
  PROVE  /\ CopyFrame /\ UNCHANGED <<vars, chosen, rescue>>
         /\ Now.op = "fill" /\ job.kind # "import" => job'.partial = live
<1>1. Now.arg = "partial" /\ Now.op \in {"create", "fill"}
  BY DEF Call, At
<1>2. Half \in Data /\ Blank \in Data /\ live \in Data
  BY BlankStored DEF SessionTypeOK, Stored
<1>3. CASE Now.op = "create"
  <2>1. Put("partial", Half)
    BY <1>1, <1>3, CopyDoes
  <2> QED BY <1>2, <1>3, <2>1, CopyDoes, PutDoes
<1>4. CASE Now.op = "fill"
  <2> DEFINE copy == IF job.kind = "import" THEN Blank ELSE live
  <2>1. Put("partial", copy)
    BY <1>1, <1>4, CopyDoes
  <2>2. copy \in Data
    BY <1>2
  <2>3. job.kind # "import" => copy = live
    OBVIOUS
  <2> HIDE DEF copy
  <2> QED BY <2>1, <2>2, <2>3, CopyDoes, PutDoes
<1> QED BY <1>1, <1>3, <1>4

\* What a copy keeps, whatever the work.
CopyLeaves ==
    CopyFrame /\ BInv' /\ chosen' \in Stored \cup {None} /\ rescue \subseteq rescue' /\ rescue' \subseteq Stored

\* A file beside its place changes nothing of this.
LEMMA CopyPartialLeaves ==
  ASSUME SInv, CopyFrame, UNCHANGED <<vars, chosen, rescue>>
  PROVE  CopyLeaves
<1>1. BInv'
  BY StepKeeps DEF SInv
<1> QED BY <1>1 DEF CopyLeaves, SInv, CopiesWhole

\* A recovery copies what it erases.
LEMMA CopyRecovering ==
  ASSUME SInv, Copy, job.kind = "recover", Recovering
  PROVE  CopyLeaves /\ Recovering'
<1>1. SessionTypeOK /\ Working /\ CopiesWhole /\ live \in Stored /\ live \in Data
  BY CopyDoes DEF SInv, SessionTypeOK, Stored
<1>2. Now.op \in {"create", "fill", "replace"} /\ job.todo # <<>>
  BY <1>1, CopyDoes DEF Working
<1>3. ~ErasePoint
  BY <1>2, ErasePointComes DEF Coming
<1>4. Idle /\ Stand
  BY <1>2, <1>3 DEF Recovering, Finished
<1>5. CASE job.todo = <<At("create", "partial"), At("fill", "partial"), At("replace", "rescue"),
                        Call("read"), Call("begin"), Call("drop"), Call("forget"), Call("preferences"), Call("commit")>>
  <2>1. /\ Now = At("create", "partial")
        /\ Tail(job.todo) = <<At("fill", "partial"), At("replace", "rescue"),
                              Call("read"), Call("begin"), Call("drop"), Call("forget"), Call("preferences"), Call("commit")>>
    BY <1>5 DEF Now
  <2>2. CopyFrame /\ UNCHANGED <<vars, chosen, rescue>>
    BY <1>1, <2>1, CopyPartial
  <2>3. CopyLeaves
    BY <2>2, CopyPartialLeaves
  <2>4. Recovering'
    BY <1>4, <2>1, <2>2 DEF Recovering, CopyFrame, Idle, Stand, FilesStand, vars, directory
  <2> QED BY <2>3, <2>4
<1>6. CASE job.todo = <<At("fill", "partial"), At("replace", "rescue"),
                        Call("read"), Call("begin"), Call("drop"), Call("forget"), Call("preferences"), Call("commit")>>
  <2>1. /\ Now = At("fill", "partial")
        /\ Tail(job.todo) = <<At("replace", "rescue"),
                              Call("read"), Call("begin"), Call("drop"), Call("forget"), Call("preferences"), Call("commit")>>
    BY <1>6 DEF Now
  <2>2. Now.op = "fill"
    BY <2>1, CallFields, Zenon
  <2>3. CopyFrame /\ UNCHANGED <<vars, chosen, rescue>> /\ job'.partial = live
    BY <1>1, <2>1, <2>2, CopyPartial
  <2>4. CopyLeaves
    BY <2>3, CopyPartialLeaves
  <2>5. Recovering'
    BY <1>4, <2>1, <2>3 DEF Recovering, CopyFrame, Idle, Stand, FilesStand, vars, directory
  <2> QED BY <2>4, <2>5
<1>7. CASE /\ job.todo = <<At("replace", "rescue"),
                           Call("read"), Call("begin"), Call("drop"), Call("forget"), Call("preferences"), Call("commit")>>
           /\ job.partial = live
  <2>1. /\ Now = At("replace", "rescue")
        /\ Tail(job.todo) = <<Call("read"), Call("begin"), Call("drop"), Call("forget"), Call("preferences"), Call("commit")>>
    BY <1>7 DEF Now
  <2>2. Now.op = "replace" /\ Now.arg = "rescue"
    BY SMTT(30), <2>1, CallFields, Zenon
  <2>3. Put("rescue", live)
    BY <1>1, <1>7, <2>2, CopyDoes
  <2>4. CopyFrame /\ chosen' = chosen /\ rescue' = rescue \cup {live} /\ UNCHANGED vars
    BY <1>1, <2>3, PutDoes
  <2>5. BInv'
    BY <2>4, StepKeeps DEF SInv
  <2>6. CopyLeaves
    BY <1>1, <2>4, <2>5 DEF CopyLeaves, CopiesWhole
  <2>7. ErasePoint' /\ (live \in rescue)'
    BY <1>4, <2>1, <2>4 DEF ErasePoint, CopyFrame, Idle, Stand, FilesStand, vars, directory
  <2> QED BY <2>6, <2>7 DEF Recovering
<1>8. ~\/ job.todo = <<Call("folders"), At("touches", "rescue"),
                       Call("reserve"), At("create", "partial"), At("fill", "partial"), At("replace", "rescue"),
                       Call("read"), Call("begin"), Call("drop"), Call("forget"), Call("preferences"), Call("commit")>>
       \/ job.todo = <<At("touches", "rescue"),
                       Call("reserve"), At("create", "partial"), At("fill", "partial"), At("replace", "rescue"),
                       Call("read"), Call("begin"), Call("drop"), Call("forget"), Call("preferences"), Call("commit")>>
       \/ job.todo = <<Call("reserve"), At("create", "partial"), At("fill", "partial"), At("replace", "rescue"),
                       Call("read"), Call("begin"), Call("drop"), Call("forget"), Call("preferences"), Call("commit")>>
  <2>1. Now \notin {Call("folders"), At("touches", "rescue"), Call("reserve")}
    BY <1>2 DEF Call, At, Of
  <2> QED BY <2>1 DEF Now
<1> QED BY <1>2, <1>3, <1>5, <1>6, <1>7, <1>8 DEF Recovering, Finished

\* What an export chose is the committed data.
LEMMA CopyExporting ==
  ASSUME SInv, Copy, job.kind = "export", Exporting
  PROVE  CopyLeaves /\ Exporting'
<1>1. SessionTypeOK /\ Working /\ CopiesWhole /\ live \in Stored /\ live \in Data
  BY CopyDoes DEF SInv, SessionTypeOK, Stored
<1>2. Now.op \in {"create", "fill", "replace"} /\ job.todo # <<>>
  BY <1>1, CopyDoes DEF Working
<1>4. Idle /\ Stand
  BY <1>2 DEF Exporting, Finished
<1>5. CASE job.todo = <<At("create", "partial"), At("fill", "partial"), At("replace", "chosen")>>
  <2>1. /\ Now = At("create", "partial")
        /\ Tail(job.todo) = <<At("fill", "partial"), At("replace", "chosen")>>
    BY <1>5 DEF Now
  <2>2. CopyFrame /\ UNCHANGED <<vars, chosen, rescue>>
    BY <1>1, <2>1, CopyPartial
  <2>3. CopyLeaves
    BY <2>2, CopyPartialLeaves
  <2>4. Exporting'
    BY <1>4, <2>1, <2>2 DEF Exporting, CopyFrame, Idle, Stand, FilesStand, vars, directory
  <2> QED BY <2>3, <2>4
<1>6. CASE job.todo = <<At("fill", "partial"), At("replace", "chosen")>>
  <2>1. /\ Now = At("fill", "partial")
        /\ Tail(job.todo) = <<At("replace", "chosen")>>
    BY <1>6 DEF Now
  <2>2. Now.op = "fill"
    BY <2>1, CallFields, Zenon
  <2>3. CopyFrame /\ UNCHANGED <<vars, chosen, rescue>> /\ job'.partial = live
    BY <1>1, <2>1, <2>2, CopyPartial
  <2>4. CopyLeaves
    BY <2>3, CopyPartialLeaves
  <2>5. Exporting'
    BY <1>4, <2>1, <2>3 DEF Exporting, CopyFrame, Idle, Stand, FilesStand, vars, directory
  <2> QED BY <2>4, <2>5
<1>7. CASE job.todo = <<At("replace", "chosen")>> /\ job.partial = live
  <2>1. Now = At("replace", "chosen") /\ Tail(job.todo) = <<>>
    BY <1>7 DEF Now
  <2>2. Now.op = "replace" /\ Now.arg = "chosen"
    BY SMTT(30), <2>1, CallFields, Zenon
  <2>3. Put("chosen", live)
    BY <1>1, <1>7, <2>2, CopyDoes
  <2>4. CopyFrame /\ chosen' = live /\ rescue' = rescue /\ UNCHANGED vars
    BY <1>1, <2>3, PutDoes
  <2>5. BInv'
    BY <2>4, StepKeeps DEF SInv
  <2>6. CopyLeaves
    BY <1>1, <2>4, <2>5 DEF CopyLeaves, CopiesWhole
  <2>7. Finished'
    BY <1>4, <2>1, <2>4 DEF Finished, Done, CopyFrame, Idle
  <2> QED BY <2>6, <2>7 DEF Exporting
<1>8. ~\/ \E to \in {"chosen", "live"} :
             job.todo = <<At("touches", to),
                          Call("reserve"), At("create", "partial"), At("fill", "partial"), At("replace", to)>>
       \/ job.todo = <<Call("reserve"), At("create", "partial"), At("fill", "partial"), At("replace", "chosen")>>
  <2>1. Now \notin {At("touches", "chosen"), At("touches", "live"), Call("reserve")}
    BY <1>2 DEF Call, At, Of
  <2> QED BY <2>1 DEF Now
<1> QED BY <1>2, <1>5, <1>6, <1>7, <1>8 DEF Exporting, Finished

\* An import stages a file, and nothing else.
LEMMA CopyStaging ==
  ASSUME SInv, Copy, job.kind = "import", Staging
  PROVE  CopyLeaves /\ Staging'
<1>1. SessionTypeOK /\ Working /\ CopiesWhole /\ BInv
  BY CopyDoes DEF SInv
<1>2. Now.op \in {"create", "fill", "replace"} /\ job.todo # <<>>
  BY <1>1, CopyDoes DEF Working
<1>4. Idle /\ Stand
  BY <1>2 DEF Staging, Finished
<1>5. CASE job.todo = <<At("create", "partial"), At("fill", "partial"), At("replace", "staged")>>
  <2>1. Now = At("create", "partial") /\ Tail(job.todo) = <<At("fill", "partial"), At("replace", "staged")>>
    BY <1>5 DEF Now
  <2>2. CopyFrame /\ UNCHANGED <<vars, chosen, rescue>>
    BY <1>1, <2>1, CopyPartial
  <2>3. CopyLeaves
    BY <2>2, CopyPartialLeaves
  <2>4. Staging'
    BY <1>4, <2>1, <2>2 DEF Staging, CopyFrame, Idle, Stand, FilesStand, vars, directory
  <2> QED BY <2>3, <2>4
<1>6. CASE job.todo = <<At("fill", "partial"), At("replace", "staged")>>
  <2>1. Now = At("fill", "partial") /\ Tail(job.todo) = <<At("replace", "staged")>>
    BY <1>6 DEF Now
  <2>2. CopyFrame /\ UNCHANGED <<vars, chosen, rescue>>
    BY <1>1, <2>1, CopyPartial
  <2>3. CopyLeaves
    BY <2>2, CopyPartialLeaves
  <2>4. Staging'
    BY <1>4, <2>1, <2>2 DEF Staging, CopyFrame, Idle, Stand, FilesStand, vars, directory
  <2> QED BY <2>3, <2>4
<1>7. CASE job.todo = <<At("replace", "staged")>>
  <2>1. Now = At("replace", "staged") /\ Tail(job.todo) = <<>>
    BY <1>7 DEF Now
  <2>2. Now.op = "replace" /\ Now.arg = "staged"
    BY SMTT(30), <2>1, CallFields, Zenon
  <2>3. Put("staged", job.partial)
    BY <1>1, <2>2, CopyDoes
  <2>4. CopyFrame /\ chosen' = chosen /\ rescue' = rescue /\ \E content \in {"import", "torn"} : Stage(content)
    <3>1. job.partial \in Data \cup {None}
      BY <1>1, JobTyped DEF Working
    <3> QED BY <1>1, <2>3, <3>1, PutDoes
  <2>5. BInv'
    BY <1>1, <2>4, StageKeeps
  <2>6. CopyLeaves
    BY <1>1, <2>4, <2>5 DEF CopyLeaves, CopiesWhole
  <2>7. main'["staged"] # None
    BY <1>1, <2>4, NoneAssumption DEF Stage, BInv, TypeOK, Places, Contents
  <2>8. Finished'
    BY <1>4, <2>1, <2>4, <2>7 DEF Finished, Done, CopyFrame, Idle
  <2> QED BY <2>6, <2>8 DEF Staging
<1>8. ~\/ job.todo = <<Call("validate"), Call("read"),
                       Call("reserve"), At("create", "partial"), At("fill", "partial"), At("replace", "staged")>>
       \/ job.todo = <<Call("read"),
                       Call("reserve"), At("create", "partial"), At("fill", "partial"), At("replace", "staged")>>
       \/ job.todo = <<Call("reserve"), At("create", "partial"), At("fill", "partial"), At("replace", "staged")>>
  <2>1. Now \notin {Call("validate"), Call("read"), Call("reserve")}
    BY SMTT(30), <1>2, CallFields, Zenon
  <2> QED BY <2>1 DEF Now
<1> QED BY <1>2, <1>5, <1>6, <1>7, <1>8 DEF Staging, Finished

\* A copy keeps the invariant.
LEMMA CopyKeeps == SInv /\ Copy => SInv'
<1> SUFFICES ASSUME SInv, Copy PROVE SInv'
  OBVIOUS
<1>1. SessionTypeOK /\ Rescued /\ CopiesWhole /\ Working
  BY CopyDoes DEF SInv
<1>2. job # None /\ job.answer = None /\ job.todo # <<>>
  BY <1>1 DEF Working
<1>3. job.kind \in Kinds /\ Point
  BY <1>1, <1>2, JobTyped DEF SInv, Work
<1>4. job.kind \in {"recover", "export", "import"}
  BY <1>1, <1>2, <1>3, CopyDoes, PointStands
<1>5. CopyLeaves /\ Point'
  <2>1. CASE job.kind = "recover"
    BY <1>3, <2>1, CopyRecovering DEF Point, CopyLeaves, CopyFrame
  <2>2. CASE job.kind = "export"
    BY <1>3, <2>2, CopyExporting DEF Point, CopyLeaves, CopyFrame
  <2>3. CASE job.kind = "import"
    BY <1>3, <2>3, CopyStaging DEF Point, CopyLeaves, CopyFrame
  <2> QED BY <1>4, <2>1, <2>2, <2>3
<1>6. SessionTypeOK'
  BY <1>1, <1>5 DEF SessionTypeOK, CopyLeaves, CopyFrame
<1>7. CopiesWhole' /\ Rescued'
  BY <1>1, <1>5 DEF CopiesWhole, Rescued, CopyLeaves, CopyFrame
<1>8. Work'
  BY <1>5, NothingAssumption DEF Work, CopyLeaves, CopyFrame
<1>9. phase' = "session"
  <2>1. phase' = phase
    BY <1>1, CopyDoes DEF Put, Stage, vars
  <2> QED BY <1>5, <2>1 DEF CopyLeaves, CopyFrame
<1> QED BY <1>5, <1>6, <1>7, <1>8, <1>9 DEF SInv, CopyLeaves, CopyFrame

-----------------------------------------------------------------------------
(***************************************************************************)
(* A failure, an answer and the next work.                                 *)
(***************************************************************************)

\* A job changed in these fields is a job.
LEMMA Failing ==
  ASSUME SessionTypeOK, job # None, job' = [job EXCEPT !.answer = "failed", !.todo = <<>>, !.partial = None]
  PROVE  /\ job' \in Jobs /\ job' # None
         /\ job'.kind = job.kind /\ job'.answer = "failed" /\ job'.todo = <<>> /\ job'.before = job.before
<1>1. job \in Jobs
  BY JobTyped
<1>2. <<>> \in Seq(WorkCalls)
  OBVIOUS
<1>3. /\ job' \in Jobs
      /\ job'.kind = job.kind /\ job'.answer = "failed" /\ job'.todo = <<>> /\ job'.before = job.before
  BY <1>1, <1>2 DEF Jobs
<1> QED BY <1>3, NothingAssumption

\* The first call that fails leaves what stood before.
LEMMA BreakKeeps == SInv /\ Break => SInv'
<1> SUFFICES ASSUME SInv, Break PROVE SInv'
  OBVIOUS
<1>1. SessionTypeOK /\ Rescued /\ CopiesWhole /\ BInv
  BY DEF SInv
<1>2. phase = "session" /\ job # None /\ job.answer = None /\ job.todo # <<>>
  BY DEF Break, Working
<1>3. job.kind \in Kinds /\ Point
  BY <1>1, <1>2, JobTyped DEF SInv, Work
<1> DEFINE own == job.kind # "run" /\ RollsBack(Now.op)
<1>4. /\ \/ cuts' = cuts /\ open' = IF own THEN None ELSE open
         \/ Budget /\ Spend /\ open' = IF own THEN None ELSE open
         \/ Budget /\ Spend /\ own /\ stuck' = TRUE /\ open' = open
      /\ own \/ stuck' = stuck
      /\ stuck' \in {stuck, TRUE}
  BY DEF Break
<1>5. job' = [job EXCEPT !.answer = "failed", !.todo = <<>>, !.partial = None]
  BY DEF Break
<1>6. UNCHANGED <<directory, mark, phase, start, history, live, declared, chosen, rescue, gone, works>>
  BY DEF Break
<1>7. /\ job' \in Jobs /\ job' # None
      /\ job'.kind = job.kind /\ job'.answer = "failed" /\ job'.todo = <<>> /\ job'.before = job.before
  BY <1>1, <1>2, <1>5, Failing
<1>8. /\ FilesStand
      /\ job.kind # "migrate" => live = job.before.live
      /\ ~own => Idle
  <2>1. RollsBack(Now.op) <=> Now.op \in Inside
    BY DEF RollsBack, Inside
  <2> QED BY <1>2, <1>3, <2>1, PointStands
<1> HIDE DEF own
<1>9. Idle'
  BY <1>4, <1>8 DEF Idle
<1>10. cuts' \in 0..MaxCuts
  BY <1>1, <1>4, CutsAssumption DEF Budget, Spend, BInv, TypeOK
<1>11. BInv'
  BY <1>1, <1>6, <1>10, CutsKeep
<1>12. SessionTypeOK'
  BY <1>1, <1>4, <1>6, <1>7 DEF SessionTypeOK
<1>13. CopiesWhole' /\ Rescued'
  BY <1>1, <1>6 DEF CopiesWhole, Rescued
<1>14. FilesStand'
  BY <1>6, <1>7, <1>8 DEF FilesStand, directory
<1>15. job'.kind # "migrate" => live' = job'.before.live
  BY <1>6, <1>7, <1>8
<1>16. Work'
  BY <1>7, <1>9, <1>14, <1>15, NothingAssumption DEF Work
<1> QED BY <1>2, <1>6, <1>7, <1>11, <1>12, <1>13, <1>16 DEF SInv

\* A work that has nothing left to do has done it.
LEMMA SucceedKeeps == SInv /\ Succeed => SInv'
<1> SUFFICES ASSUME SInv, Succeed PROVE SInv'
  OBVIOUS
<1>1. SessionTypeOK /\ Rescued /\ CopiesWhole /\ BInv
  BY DEF SInv
<1>2. phase = "session" /\ job # None /\ job.answer = None /\ job.todo = <<>>
  BY DEF Succeed
<1>3. job \in Jobs /\ job.kind \in Kinds /\ Point
  BY <1>1, <1>2, JobTyped DEF SInv, Work
<1>4. job' = [job EXCEPT !.answer = "done"] /\ UNCHANGED <<vars, data, works>>
  BY DEF Succeed
<1>5. /\ job' \in Jobs
      /\ job'.kind = job.kind /\ job'.answer = "done" /\ job'.todo = <<>>
  BY <1>2, <1>3, <1>4 DEF Jobs
<1>6. job' # None
  BY <1>5, NothingAssumption
<1>7. Finished
  <2>1. CASE job.kind = "migrate"
    BY <1>2, <1>3, <2>1 DEF Point, Migrating
  <2>2. CASE job.kind = "transaction"
    BY <1>2, <1>3, <2>2 DEF Point, Transacting
  <2>3. CASE job.kind = "run"
    BY <1>2, <1>3, <2>3 DEF Point, RunningOne
  <2>4. CASE job.kind = "erase"
    BY <1>2, <1>3, <2>4 DEF Point, Erasing, ErasePoint
  <2>5. CASE job.kind = "recover"
    BY <1>2, <1>3, <2>5 DEF Point, Recovering, ErasePoint
  <2>6. CASE job.kind = "export"
    BY <1>2, <1>3, <2>6 DEF Point, Exporting
  <2>7. CASE job.kind = "import"
    BY <1>2, <1>3, <2>7 DEF Point, Staging
  <2> QED BY <1>3, <2>1, <2>2, <2>3, <2>4, <2>5, <2>6, <2>7 DEF Kinds
<1>8. UNCHANGED <<live, open, declared, chosen, rescue, gone, stuck, works, main, phase>>
  BY <1>4 DEF data, vars, directory
<1>9. Finished'
  BY <1>5, <1>7, <1>8 DEF Finished, Done, Idle
<1>10. BInv'
  BY <1>1, <1>4, StepKeeps
<1>11. SessionTypeOK' /\ CopiesWhole' /\ Rescued'
  BY <1>1, <1>5, <1>8 DEF SessionTypeOK, CopiesWhole, Rescued
<1>12. Work'
  BY <1>5, <1>9, NothingAssumption DEF Work
<1> QED BY <1>2, <1>6, <1>8, <1>10, <1>11, <1>12 DEF SInv

\* An answered work leaves no transaction behind.
LEMMA AnswerKeeps == SInv /\ Answer => SInv'
<1> SUFFICES ASSUME SInv, Answer PROVE SInv'
  OBVIOUS
<1>1. SessionTypeOK /\ Rescued /\ CopiesWhole /\ BInv
  BY DEF SInv
<1>2. job # None /\ job.answer # None /\ job' = None /\ UNCHANGED <<vars, data, works>>
  BY DEF Answer
<1>3. job.answer \in {"done", "failed"}
  BY <1>1, <1>2, JobTyped
<1>4. Idle
  BY <1>2, <1>3 DEF SInv, Work, Finished
<1>5. UNCHANGED <<live, open, declared, chosen, rescue, gone, stuck, works, main, phase>>
  BY <1>2 DEF data, vars, directory
<1>6. BInv'
  BY <1>1, <1>2, StepKeeps
<1>7. SessionTypeOK' /\ CopiesWhole' /\ Rescued'
  BY <1>1, <1>2, <1>5 DEF SessionTypeOK, CopiesWhole, Rescued
<1>8. Idle' /\ phase = "session"
  BY <1>2, <1>4, <1>5 DEF Idle, SInv
<1> QED BY <1>2, <1>5, <1>6, <1>7, <1>8 DEF SInv

\* The programs a work may be are those of its point.
LEMMA ProgramTyped ==
  ASSUME SessionTypeOK, NEW kind \in Kinds, NEW to \in Destination(kind)
  PROVE  Program(kind, to) \in Seq(WorkCalls) /\ to \in Args
<1>1. /\ \A op \in Ops : Call(op) \in WorkCalls
      /\ At("touches", to) \in WorkCalls /\ At("create", "partial") \in WorkCalls
      /\ At("fill", "partial") \in WorkCalls /\ At("replace", to) \in WorkCalls
      /\ At("write", "half") \in WorkCalls /\ At("write", "whole") \in WorkCalls
      /\ to \in Args
  <2>1. to \in Args
    BY DEF Destination, Kinds, Args
  <2>2. /\ "touches" \in Ops /\ "create" \in Ops /\ "fill" \in Ops /\ "replace" \in Ops /\ "write" \in Ops
        /\ "partial" \in Args /\ "half" \in Args /\ "whole" \in Args
    BY DEF Ops, Args
  <2> QED BY <2>1, <2>2, WorkCallsTyped
<1>2. /\ Call("read") \in WorkCalls /\ Call("begin") \in WorkCalls /\ Call("drop") \in WorkCalls
      /\ Call("forget") \in WorkCalls /\ Call("preferences") \in WorkCalls /\ Call("commit") \in WorkCalls
      /\ Call("folders") \in WorkCalls /\ Call("reserve") \in WorkCalls /\ Call("validate") \in WorkCalls
      /\ Call("fits") \in WorkCalls /\ Call("verify") \in WorkCalls
  BY <1>1 DEF Ops
<1>3. Of("loop", View.version + 1) \in WorkCalls
  <2>1. View \in Data
    BY DEF View, SessionTypeOK, Stored
  <2>2. View.version + 1 \in 0..(MaxVersion + 1)
    BY <2>1, SessionAssumption DEF Data
  <2> QED BY <2>2, WorkCallsTyped DEF Ops
<1>4. CASE kind = "migrate"
  BY <1>1, <1>2, <1>3, <1>4 DEF Program, Migrations
<1>5. CASE kind = "transaction"
  BY <1>1, <1>2, <1>5 DEF Program, Transaction
<1>6. CASE kind = "run"
  BY <1>1, <1>6 DEF Program
<1>7. CASE kind = "erase"
  BY <1>1, <1>2, <1>7 DEF Program, EraseProgram
<1> DEFINE t == At("touches", to)   r == Call("reserve")
           c == At("create", "partial")   f == At("fill", "partial")   p == At("replace", to)
<1>11. t \in WorkCalls /\ r \in WorkCalls /\ c \in WorkCalls /\ f \in WorkCalls /\ p \in WorkCalls
  BY <1>1, <1>2
<1>8. CASE kind = "recover"
  <2>1. Recovery(to) = <<Call("folders"), t, r, c, f, p,
                         Call("read"), Call("begin"), Call("drop"), Call("forget"), Call("preferences"), Call("commit")>>
    BY <1>1, ProgramsAre
  <2> HIDE DEF t, r, c, f, p
  <2>2. Recovery(to) \in Seq(WorkCalls)
    BY <1>2, <1>11, <2>1
  <2> QED BY <1>1, <1>8, <2>2 DEF Program
<1>9. CASE kind = "export"
  <2>1. Export(to) = <<t, r, c, f, p>>
    BY <1>1, ProgramsAre
  <2> HIDE DEF t, r, c, f, p
  <2>2. Export(to) \in Seq(WorkCalls)
    BY <1>11, <2>1
  <2> QED BY <1>1, <1>9, <2>2 DEF Program
<1>10. CASE kind = "import"
  <2>1. Import(to) = <<Call("validate"), Call("read"), r, c, f, p>>
    BY <1>1, ProgramsAre
  <2> HIDE DEF t, r, c, f, p
  <2>2. Import(to) \in Seq(WorkCalls)
    BY <1>2, <1>11, <2>1
  <2> QED BY <1>1, <1>10, <2>2 DEF Program
<1> QED BY <1>1, <1>4, <1>5, <1>6, <1>7, <1>8, <1>9, <1>10 DEF Kinds

\* The next work starts at its first point.
LEMMA TakeKeeps ==
  ASSUME SInv, NEW kind \in Kinds, Take(kind)
  PROVE  SInv'
<1>1. SessionTypeOK /\ Rescued /\ CopiesWhole /\ BInv
  BY DEF SInv
<1>2. /\ phase = "session" /\ job = None /\ works < MaxWorks /\ works' = works + 1
      /\ UNCHANGED <<vars, data>>
  BY DEF Take
<1>3. PICK to \in Destination(kind) :
         job' = [kind |-> kind, todo |-> Program(kind, to), partial |-> None, answer |-> None,
                 before |-> [live |-> live, chosen |-> chosen, staged |-> main["staged"]]]
  BY DEF Take
<1>4. Program(kind, to) \in Seq(WorkCalls) /\ to \in Args
  BY <1>1, ProgramTyped
<1> DEFINE b == [live |-> live, chosen |-> chosen, staged |-> main["staged"]]
           p == Program(kind, to)
<1>5. b \in [live : Data, chosen : Data \cup {None}, staged : Contents \cup {None}]
  <2>1. live \in Data /\ chosen \in Data \cup {None} /\ main["staged"] \in Contents \cup {None}
    BY <1>1 DEF SessionTypeOK, CopiesWhole, Stored, BInv, TypeOK, Places
  <2> QED BY <2>1
<1>6. b.live = live /\ b.chosen = chosen /\ b.staged = main["staged"]
  OBVIOUS
<1>7. UNCHANGED <<live, open, declared, chosen, rescue, gone, stuck, main, phase>>
  BY <1>2 DEF data, vars, directory
<1> HIDE DEF b, p
<1>8. /\ job' \in Jobs
      /\ job'.kind = kind /\ job'.todo = p /\ job'.answer = None /\ job'.before = b
  BY <1>3, <1>4, <1>5 DEF Jobs, b, p
<1>9. job' # None
  BY <1>8, NothingAssumption
<1>10. Idle' /\ Stand'
  <2>1. Idle
    BY <1>2 DEF SInv
  <2> QED BY <1>6, <1>7, <1>8, <2>1 DEF Idle, Stand, FilesStand
<1>11. View' = View
  BY <1>7 DEF View
<1>12. Point'
  <2>1. CASE kind = "migrate"
    BY <1>8, <1>10, <1>11, <2>1 DEF Point, Program, Migrations, Migrating, Stand, p
  <2>2. CASE kind = "transaction"
    BY <1>8, <1>10, <2>2 DEF Point, Program, Transaction, Transacting, p
  <2>3. CASE kind = "run"
    BY <1>8, <1>10, <2>3 DEF Point, Program, RunningOne, p
  <2>4. CASE kind = "erase"
    BY <1>8, <1>10, <2>4 DEF Point, Program, EraseProgram, Erasing, ErasePoint, p
  <2>5. CASE kind = "recover"
    <3>1. p = Recovery(to) /\ to = "rescue"
      BY <2>5 DEF Program, Destination, p
    <3> QED BY <1>4, <1>8, <1>10, <2>5, <3>1, ProgramsAre DEF Point, Recovering
  <2>6. CASE kind = "export"
    <3>1. p = Export(to) /\ to \in {"chosen", "live"}
      BY <2>6 DEF Program, Destination, p
    <3> QED BY <1>4, <1>8, <1>10, <2>6, <3>1, ProgramsAre DEF Point, Exporting
  <2>7. CASE kind = "import"
    <3>1. p = Import(to) /\ to = "staged"
      BY <2>7 DEF Program, Destination, p
    <3> QED BY <1>4, <1>8, <1>10, <2>7, <3>1, ProgramsAre DEF Point, Staging
  <2> QED BY <2>1, <2>2, <2>3, <2>4, <2>5, <2>6, <2>7 DEF Kinds
<1>13. BInv'
  BY <1>1, <1>2, StepKeeps
<1>14. SessionTypeOK'
  BY <1>1, <1>2, <1>7, <1>8, SessionAssumption DEF SessionTypeOK
<1>15. CopiesWhole' /\ Rescued'
  BY <1>1, <1>7 DEF CopiesWhole, Rescued
<1>16. Work'
  BY <1>8, <1>12, NothingAssumption DEF Work
<1> QED BY <1>2, <1>7, <1>9, <1>13, <1>14, <1>15, <1>16 DEF SInv

-----------------------------------------------------------------------------
(***************************************************************************)
(* The sessions around the works, and the theorems.                        *)
(***************************************************************************)

\* A start, or a part of one, between two sessions.
LEMMA BetweenKeeps ==
  ASSUME SInv, Next, phase # "session", phase' # "session", UNCHANGED <<data, job, works>>
  PROVE  SInv'
<1>1. BInv'
  BY StepKeeps DEF SInv
<1>2. SessionTypeOK' /\ CopiesWhole' /\ Rescued'
  BY DEF SInv, SessionTypeOK, CopiesWhole, Rescued, data
<1>3. job' = None /\ open' = None
  BY DEF SInv, data
<1> QED BY <1>1, <1>2, <1>3 DEF SInv, Idle

\* No step of a start between two sessions disturbs the invariant.
LEMMA StartsKeep == SInv /\ (Starts \/ GoesOn \/ CutShort) => SInv'
<1> SUFFICES ASSUME SInv, Starts \/ GoesOn \/ CutShort PROVE SInv'
  OBVIOUS
<1>1. CASE Starts
  BY <1>1, BetweenKeeps DEF Starts, Acquire, Next
<1>2. CASE GoesOn
  <2>1. UNCHANGED <<data, job, works>> /\ (Do \/ ApplyStagedImport \/ Validate \/ SetAside \/ Fail)
    BY <1>2 DEF GoesOn
  <2>2. phase = "starting"
    BY <2>1 DEF Do, ApplyStagedImport, Validate, SetAside, Fail, Ready
  <2>3. phase' \in {"starting", "off"}
    BY <2>1, <2>2 DEF Do, ApplyStagedImport, Interrupted, NoImport, Dropped, Placed, Validate, SetAside, Fail, Goto
  <2>4. Next
    BY <2>1 DEF Next
  <2> QED BY <2>1, <2>2, <2>3, <2>4, BetweenKeeps
<1>3. CASE CutShort
  <2>1. UNCHANGED <<data, job, works>> /\ (AcquireFails \/ CrashStarting)
    BY <1>3 DEF CutShort
  <2>2. phase # "session" /\ phase' # "session"
    BY <2>1 DEF AcquireFails, CrashStarting
  <2>3. Next
    BY <2>1 DEF Next
  <2> QED BY <2>1, <2>2, <2>3, BetweenKeeps
<1> QED BY <1>1, <1>2, <1>3

\* A session opens whole data with nothing in a transaction.
LEMMA EnterKeeps == SInv /\ Enter => SInv'
<1> SUFFICES ASSUME SInv, Enter PROVE SInv'
  OBVIOUS
<1>1. SessionTypeOK /\ Rescued /\ CopiesWhole /\ BInv
  BY DEF SInv
<1>2. Opened /\ Next
  BY DEF Enter, Next
<1>3. BInv'
  BY <1>1, <1>2, StepKeeps
<1>4. phase' = "session" /\ phase # "session"
  BY <1>2 DEF Opened, Ready
<1>5. job = None /\ job' = None
  BY <1>4 DEF SInv, Enter
<1>6. live' \in Stored
  BY <1>1, BlankStored DEF Enter, Holds, SessionTypeOK
<1>7. SessionTypeOK'
  BY <1>1, <1>5, <1>6 DEF Enter, SessionTypeOK
<1>8. CopiesWhole' /\ Rescued'
  BY <1>1 DEF Enter, CopiesWhole, Rescued
<1>9. Idle'
  BY DEF Enter, Idle
<1> QED BY <1>3, <1>4, <1>5, <1>7, <1>8, <1>9 DEF SInv

\* What was inside a transaction is lost with the session, and nothing else.
LEMMA LeaveKeeps == SInv /\ Leave => SInv'
<1> SUFFICES ASSUME SInv, Leave PROVE SInv'
  OBVIOUS
<1>1. SessionTypeOK /\ Rescued /\ CopiesWhole /\ BInv
  BY DEF SInv
<1>2. Next
  BY DEF Leave, Next
<1>3. BInv'
  BY <1>1, <1>2, StepKeeps
<1>4. open' = None /\ job' = None /\ UNCHANGED <<live, declared, chosen, rescue, gone, stuck, works>>
  BY DEF Leave
<1>5. SessionTypeOK' /\ CopiesWhole' /\ Rescued' /\ Idle'
  BY <1>1, <1>4 DEF SessionTypeOK, CopiesWhole, Rescued, Idle
<1> QED BY <1>3, <1>4, <1>5 DEF SInv

\* Before the first start there is no database.
LEMMA SessionInitKeeps == SessionInit => SInv
<1> SUFFICES ASSUME SessionInit PROVE SInv
  OBVIOUS
<1>1. BInv /\ phase = "off"
  BY InitKeeps DEF SessionInit, Init
<1>2. SessionTypeOK
  <2>1. 1 \in 1..MaxVersion /\ 0 \in 0..MaxWorks
    BY SessionAssumption
  <2> QED BY <2>1, BlankStored DEF SessionInit, SessionTypeOK
<1>3. CopiesWhole /\ Rescued /\ Idle /\ job = None /\ open = None
  BY DEF SessionInit, CopiesWhole, Rescued, Idle
<1> QED BY <1>1, <1>2, <1>3 DEF SInv

\* Every step of a session keeps the invariant.
LEMMA SessionStepKeeps == SInv /\ [SessionNext]_sessionVars => SInv'
<1> SUFFICES ASSUME SInv, [SessionNext]_sessionVars PROVE SInv'
  OBVIOUS
<1>1. CASE Starts \/ GoesOn \/ CutShort
  BY <1>1, StartsKeep
<1>2. CASE Enter
  BY <1>2, EnterKeeps
<1>3. CASE Leave
  BY <1>3, LeaveKeeps
<1>4. CASE \E kind \in Kinds : Take(kind)
  BY <1>4, TakeKeeps
<1>5. CASE Statement
  BY <1>5, StatementKeeps
<1>6. CASE Copy
  BY <1>6, CopyKeeps
<1>7. CASE Succeed
  BY <1>7, SucceedKeeps
<1>8. CASE Break
  BY <1>8, BreakKeeps
<1>9. CASE Answer
  BY <1>9, AnswerKeeps
<1>10. CASE UNCHANGED sessionVars
  <2>1. UNCHANGED <<vars, job, works, live, open, declared, chosen, rescue, gone, stuck>>
    BY <1>10 DEF sessionVars, data
  <2>2. main' = main /\ phase' = phase
    BY <2>1 DEF vars, directory
  <2>3. BInv'
    BY <2>1, StepKeeps DEF SInv
  <2>4. SessionTypeOK' /\ CopiesWhole' /\ Rescued'
    BY <2>1 DEF SInv, SessionTypeOK, CopiesWhole, Rescued
  <2>5. Idle' = Idle /\ FilesStand' = FilesStand /\ Stand' = Stand /\ View' = View /\ Done' = Done
    BY <2>1, <2>2 DEF Idle, FilesStand, Stand, View, Done
  <2>6. Finished' = Finished /\ ErasePoint' = ErasePoint
    BY <2>1, <2>5 DEF Finished, ErasePoint
  <2>7. Work' = Work
    <3>1. Migrating' = Migrating
      BY <2>1, <2>5, <2>6 DEF Migrating, Changed
    <3>2. Transacting' = Transacting /\ RunningOne' = RunningOne /\ Erasing' = Erasing
      BY <2>1, <2>5, <2>6 DEF Transacting, RunningOne, Erasing
    <3>3. Recovering' = Recovering /\ Exporting' = Exporting /\ Staging' = Staging
      BY <2>1, <2>5, <2>6 DEF Recovering, Exporting, Staging
    <3>4. Point' = Point
      BY <2>1, <3>1, <3>2, <3>3 DEF Point
    <3> QED BY <2>1, <2>5, <2>6, <3>4 DEF Work
  <2> QED BY <2>1, <2>2, <2>3, <2>4, <2>5, <2>7 DEF SInv
<1> QED BY <1>1, <1>2, <1>3, <1>4, <1>5, <1>6, <1>7, <1>8, <1>9, <1>10 DEF SessionNext

\* The invariant: the database, the copies and the work at hand stand as the point
\* of the code says, in every session and every start between two of them.
THEOREM SessionInvariance == SessionSpec => []SInv
<1>1. SessionInit => SInv
  BY SessionInitKeeps
<1>2. SInv /\ [SessionNext]_sessionVars => SInv'
  BY SessionStepKeeps
<1> QED BY <1>1, <1>2, PTL DEF SessionSpec

\* No work, no crash in one and no start loses data the reader did not erase: what
\* is committed is whole, a copy that can be seen is whole, and what a recovery
\* erased stands in a copy (PluginDatabase, ConfigurationTransfer, StorageHost).
THEOREM SessionsKeepData == SessionSpec => []SessionKept
<1>1. SInv => SessionKept
  BY InvariantKeeps DEF SInv, SessionKept
<1> QED BY <1>1, SessionInvariance, PTL

\* Every answer is true: a success is in the database or in the file it names, a
\* failure left what stood before, and no work leaves its transaction to the next.
THEOREM SessionsTellTruth == SessionSpec => []SessionTold
<1>1. SInv => SessionTold
  <2> SUFFICES ASSUME SInv PROVE SessionTold
    OBVIOUS
  <2>1. Told
    BY InvariantKeeps DEF SInv
  <2>2. job # None => job.answer \in {None, "done", "failed"}
    BY JobTyped DEF SInv
  <2>3. None \notin {"done", "failed"}
    BY NothingAssumption
  <2>4. DoneIsDone
    <3>1. Answers("done") => Finished
      BY DEF Answers, SInv, Work
    <3> QED BY <3>1 DEF Answers, DoneIsDone, Finished, Done
  <2>5. FailedIsNothing
    BY DEF Answers, FailedIsNothing, SInv, Work, FilesStand
  <2>6. (job = None \/ job.answer # None) => (open = None \/ stuck)
    BY <2>2, <2>3 DEF SInv, Work, Idle, Finished
  <2> QED BY <2>1, <2>4, <2>5, <2>6 DEF SessionTold
<1> QED BY <1>1, SessionInvariance, PTL
=============================================================================
