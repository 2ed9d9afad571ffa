----------------------------- MODULE CrioSession ----------------------------
(***************************************************************************)
(* Clients of internal/runtime/crio, one at a time: any sequence of Setup, *)
(* AddRuntime, RemoveRuntime, Save and Restart, beside a CRI-O that stops  *)
(* and starts and an administrator who edits its file.                     *)
(*                                                                         *)
(* Unlike the containerd back end this one never reads the file it writes: *)
(* Setup asks the running CRI-O (`crio status config`), and Save puts what *)
(* came of that into /etc/crio/crio.conf.                                  *)
(***************************************************************************)
EXTENDS CrioConfig

CONSTANTS
  KataConfigs,  \* paths of kata configurations
  BuiltIn,      \* what CRI-O uses for what its file leaves open
  UserFiles,    \* the files the administrator writes
  NoTree, Down,
  MaxCalls, MaxEdits   \* bounds on what happens (of TLC's runs, not of the code)

\* Nothing is at the path of the file, or one that does not parse.
NoFile  == << >>
Corrupt == [p \in {Root} |-> Absent]

ASSUME Distinct ==
  /\ {NoTree, Down} \intersect (UserFiles \union {BuiltIn, EmptyTree, NoFile, Corrupt}) = {}
  /\ NoTree # Down
ASSUME PathsAreValues == {Table, Absent} \intersect KataConfigs = {}

\* The configuration CRI-O runs with after it has read a file: what the file
\* says, and what is built in where it says nothing.
Effective(f) ==
  LET t == IF f = NoFile THEN EmptyTree ELSE f
  IN  [p \in DOMAIN t \union DOMAIN BuiltIn |-> IF p \in DOMAIN t THEN t[p] ELSE BuiltIn[p]]

\* What is built in are a runtime and the default that names it, and no class.
ASSUME BuiltInSound ==
  /\ Editable(BuiltIn) /\ DefaultThere(BuiltIn)
  /\ DefaultRuntime(BuiltIn) \notin Names \union {Absent}
  /\ RuntimesOf(BuiltIn) = {}

\* Tables are where CRI-O knows tables: it takes no other file.
Fits(t) == \A p \in DOMAIN t \intersect DOMAIN BuiltIn : t[p] = Table <=> BuiltIn[p] = Table

\* The administrator's files are ones CRI-O starts with.
ASSUME FilesAreSound ==
  \A f \in UserFiles : Editable(f) /\ Fits(f) /\ DefaultThere(Effective(f))

VARIABLES
  tree,   \* the tree of the client's Config, or NoTree between two clients
  live,   \* the configuration CRI-O runs with, or Down
  file,
  saving, \* "begun" from os.Create of Save to its write, "raced" if edited since, else "no"
  user,   \* history: the administrator's part of CRI-O's configuration, as he wrote it
  blame,  \* history, since he last wrote it: what may have damaged it
  left    \* how many more edits of a tree or of the file there may be, and of the file

vars == <<tree, live, file, saving, user, blame, left>>

SpendCall == left.calls > 0 /\ left' = [left EXCEPT !.calls = @ - 1]

\* Is the administrator's part the same?  The default is no longer part of it once
\* a client has replaced it, or when he himself has made it a class.
Same(c, d) ==
  LET rest(u) == [p \in DOMAIN u \ {DefaultPath} |-> u[p]]
  IN  IF "default" \in blame THEN rest(c) = rest(d) ELSE c = d

ClassDefault(f) == IF DefaultRuntime(Effective(f)) \in Names THEN {"default"} ELSE {}

Init ==
  /\ tree = NoTree
  /\ file \in UserFiles \union {NoFile}
  /\ live \in {Effective(file), Down}
  /\ saving = "no"
  /\ user = UserConfig(Effective(file))
  /\ blame = ClassDefault(file)
  /\ left = [calls |-> MaxCalls, edits |-> MaxEdits]

\* crio.Setup; it fails, and changes nothing, while CRI-O is down.  What is in
\* the file and not yet in force is not seen.
Setup ==
  /\ tree = NoTree
  /\ live # Down
  /\ tree' = live
  /\ blame' = blame \union
       (IF file # Corrupt /\ Same(UserConfig(live), UserConfig(Effective(file))) THEN {}
        ELSE {"unapplied"})
  /\ UNCHANGED <<live, file, saving, user, left>>

\* A client makes one call at a time.
Idle == tree # NoTree /\ saving = "no"

Add(n, path, setAsDefault) ==
  /\ Idle
  /\ SpendCall
  /\ tree' = AddRuntime(tree, n, path, setAsDefault)
  /\ blame' = blame \union (IF setAsDefault THEN {"default"} ELSE {})
  /\ UNCHANGED <<live, file, saving, user>>

\* RemoveRuntime.  Its failure, with the default already deleted, is no action:
\* RemovalNeverFails says that it does not come to that.
Drop(n) ==
  /\ Idle
  /\ SpendCall
  /\ CanRemove(tree, n)
  /\ tree' = RemoveRuntime(tree, n)
  /\ UNCHANGED <<live, file, saving, user, blame>>

\* os.Create of Save, also of a tree without a key: the file is never removed.  A
\* CRI-O that starts before the write has nothing but what is built in.
TruncateFile ==
  /\ Idle
  /\ file' = EmptyTree
  /\ saving' = "begun"
  /\ UNCHANGED <<tree, live, user, blame, left>>

\* The write of Save.  If the administrator has written the file since, in place, his
\* text is overwritten as far as the new one goes; if he has put another in its place,
\* what is written goes to the one that has no name any more.
WriteFile ==
  /\ saving # "no"
  /\ file' \in IF saving = "begun" THEN {tree} ELSE {tree, file, Corrupt}
  /\ saving' = "no"
  /\ UNCHANGED <<tree, live, user, blame, left>>

\* A client that ends, or meets an error, between the os.Create of Save and the
\* end of its write.
SaveCut ==
  /\ saving # "no"
  /\ tree' = NoTree
  /\ file' \in {file, Corrupt}
  /\ saving' = "no"
  /\ blame' = blame \union {"torn"}
  /\ UNCHANGED <<live, user, left>>

\* systemctl restart crio.
Restart ==
  /\ Idle
  /\ live' = IF file = Corrupt THEN Down ELSE Effective(file)
  /\ UNCHANGED <<tree, file, saving, user, blame, left>>

\* A client is done, or dies.
Finish == Idle /\ tree' = NoTree /\ UNCHANGED <<live, file, saving, user, blame, left>>

CrioStarts ==
  /\ file # Corrupt
  /\ live' = Effective(file)
  /\ UNCHANGED <<tree, file, saving, user, blame, left>>

CrioStops == live' = Down /\ UNCHANGED <<tree, file, saving, user, blame, left>>

\* The administrator writes the file anew (it counts as a call, too).
EditFile ==
  /\ left.calls > 0 /\ left.edits > 0
  /\ left' = [calls |-> left.calls - 1, edits |-> left.edits - 1]
  /\ file' \in UserFiles
  /\ saving' = IF saving = "no" THEN "no" ELSE "raced"
  /\ user' = UserConfig(Effective(file'))
  /\ blame' = IF tree = NoTree THEN ClassDefault(file') ELSE {"raced"}
  /\ UNCHANGED <<tree, live>>

Next ==
  \/ Setup \/ TruncateFile \/ WriteFile \/ SaveCut \/ Restart \/ Finish
  \/ \E n \in Names, path \in KataConfigs, d \in BOOLEAN : Add(n, path, d)
  \/ \E n \in Names : Drop(n)
  \/ CrioStarts \/ CrioStops \/ EditFile

Spec == Init /\ [][Next]_vars

-----------------------------------------------------------------------------
(* Properties.                                                             *)

\* What CRI-O would start with is the administrator's but for kata's entries, across
\* any number of clients and restarts, except between the os.Create and the write of a
\* save, and unless a client found CRI-O running with something else than its file (it
\* had been edited, or CRI-O was started in the middle of a save), the file was edited
\* while a client had a tree, or a save was cut short (option.go:91-116, crio.go:144-162).
KeepsUserConfig ==
  (saving = "no" /\ blame \subseteq {"default"}) =>
    file # Corrupt /\ Same(UserConfig(Effective(file)), user)

\* The default runtime is one that is there, in what a client edits, in what CRI-O
\* runs with and in what it will find: RemoveRuntime takes the default with the
\* runtime it names (crio.go:110-119).  CRI-O would not start otherwise.
DefaultDefined ==
  /\ \A t \in {tree, live} \ {NoTree, Down} : DefaultThere(t)
  /\ file # Corrupt => DefaultThere(Effective(file))

\* RemoveRuntime never fails, since CRI-O always reports a runtime that is no
\* class: the default is never gone from a tree whose entry is still looked for
\* (crio.go:110-124), whatever was removed before and however often.
RemovalNeverFails ==
  \A t \in {tree, live} \ {NoTree, Down} : \A n \in Names : CanRemove(t, n)

\* To add a class to a configuration in which an earlier run left its entry gives
\* what adding it to a clean one gives: nothing of the old entry is left, nor
\* depends the new one on it, unless the class is the very source of the options
\* (crio.go:68-82).
Rerun ==
  live # Down =>
    \A n \in Names \ {DefaultRuntime(live), DefaultCrioRuntime}, path \in KataConfigs :
      AddRuntime(live, n, path, FALSE) = AddRuntime(RemoveRuntime(live, n), n, path, FALSE)

\* What a client sees of a tree: the classes with their paths, and the default if it
\* is one of them.
View(t) ==
  [paths   |-> [n \in RuntimesOf(t) |-> GetPath(t, Entry(n, "runtime_path"))],
   default |-> {DefaultRuntime(t)} \intersect Names]

\* The calls are those of the interface: one changes the class it is given and no
\* other, though it is made from a copy of another; and what Save was called on is
\* what a CRI-O that starts after it reports, though it fills in what is missing; one
\* that starts in the middle of a save reports no class at all (crio.go:60-162,
\* option.go:91-116).
Interface == INSTANCE RuntimeInterface WITH
  client  <- IF tree = NoTree THEN {} ELSE {View(tree)},
  saved   <- IF file = Corrupt THEN {} ELSE {View(file)},
  source  <- IF live = Down THEN {} ELSE {View(live)},
  Written <- {View(f) : f \in UserFiles}

ImplementsInterface == Interface!Spec

=============================================================================
