----------------------------- MODULE Artifacts ------------------------------
(***************************************************************************)
(* The artifacts directory of one runtime class, over the life of a node:  *)
(* the loop of Run() in cmd/k8s-kata-manager/main.go pulls the artifact    *)
(* into it, takes the first *.toml, rewrites that in place and gives its   *)
(* path to AddRuntime.  Nothing ever deletes a file there, so what an      *)
(* earlier artifact, or a worker that died, left is there at the next      *)
(* start.  What the containerd configuration says is entry, which kata     *)
(* follows whenever a pod is started.                                      *)
(***************************************************************************)
EXTENDS KataTransform, FiniteSets

CONSTANTS
  Published,   \* the artifacts the URL can lead to: name -> content
  Tomls,       \* the names of *.toml files, in the order of Glob
  ClassDir,    \* the directory of the class, a file path
  Torn,        \* what a file is that was truncated and not written
  NoFile,
  MaxPublishes, MaxFaults      \* bounds of the model

ASSUME TomlsListed == DOMAIN Tomls \subseteq Nat
ASSUME ArtifactBounds == {MaxPublishes, MaxFaults} \subseteq Nat

FileNames == UNION {DOMAIN a : a \in Published}

TomlNames == {Tomls[i] : i \in DOMAIN Tomls} \intersect FileNames

\* What such a file can hold: what was published, and that once or twice transformed.
\* (The second time differs for an asset that was empty; a third changes nothing.)
Configs    == UNION {{a[n] : n \in DOMAIN a \intersect TomlNames} : a \in Published}
Rewrites(S) == {Transform(t, ClassDir) : t \in {u \in S : Transformable(u)}}

ASSUME ClassDirIsPath == ClassDir \in Seq(STRING)
ASSUME NoContents ==
  {Torn, NoFile} \intersect (Configs \union Rewrites(Configs) \union Rewrites(Rewrites(Configs))) = {}

VARIABLES
  remote,   \* the artifact the URL leads to
  pc,       \* "down", "pull", "pick", "rewrite", "save", "wait"
  pulling,  \* the artifact that is pulled, or was last
  todo,     \* its files not yet asked for
  writing,  \* its files being written
  dir,      \* name -> content, NoFile or Torn
  picked,   \* kataConfigPath
  config,   \* what transformKataConfig() read
  entry,    \* the kata configuration the containerd configuration leads to
  left,     \* budget: [publishes, faults]
  abandoned \* history: entry is that of a worker that ended without CleanUp

worker == <<pc, pulling, todo, writing, picked, config>>
vars   == <<remote, worker, dir, entry, left, abandoned>>

-----------------------------------------------------------------------------

Init ==
  /\ remote \in Published
  /\ pc = "down" /\ pulling = remote /\ todo = {} /\ writing = {}
  /\ dir = [n \in FileNames |-> NoFile]
  /\ picked = NoFile /\ config = NoFile /\ entry = NoFile /\ abandoned = FALSE
  /\ left = [publishes |-> MaxPublishes, faults |-> MaxFaults]

Spend(kind) == left[kind] > 0 /\ left' = [left EXCEPT ![kind] = @ - 1]

\* An error, a panic, a kill: the worker goes, the files stay.
Ends ==
  /\ pc' = "down" /\ todo' = {} /\ writing' = {}
  /\ UNCHANGED <<pulling, picked, config>>

\* Mutant: what is there is not pulled.
PullMissing ==
  /\ pc = "down"
  /\ pc' = "pull" /\ pulling' = remote /\ todo' = {n \in DOMAIN remote : dir[n] = NoFile}
  /\ UNCHANGED <<remote, writing, dir, picked, config, entry, left, abandoned>>

\* The tag is resolved once.
Pull ==
  /\ pc = "down"
  /\ pc' = "pull" /\ pulling' = remote /\ todo' = DOMAIN remote
  /\ UNCHANGED <<remote, writing, dir, picked, config, entry, left, abandoned>>

\* The files come in any order and at once: each is truncated ...
OpenFile(n) ==
  /\ pc = "pull" /\ n \in todo
  /\ todo' = todo \ {n} /\ writing' = writing \union {n}
  /\ dir' = [dir EXCEPT ![n] = Torn]
  /\ UNCHANGED <<remote, pc, pulling, picked, config, entry, left, abandoned>>

\* ... and written.
WriteFile(n) ==
  /\ pc = "pull" /\ n \in writing
  /\ writing' = writing \ {n}
  /\ dir' = [dir EXCEPT ![n] = pulling[n]]
  /\ UNCHANGED <<remote, pc, pulling, todo, picked, config, entry, left, abandoned>>

Candidates == {i \in DOMAIN Tomls : Tomls[i] \in FileNames /\ dir[Tomls[i]] # NoFile}

First(S) == CHOOSE i \in S : \A j \in S : i <= j

Pulled ==
  /\ pc = "pull" /\ todo = {} /\ writing = {}
  /\ pc' = "pick"
  /\ UNCHANGED <<remote, pulling, todo, writing, dir, picked, config, entry, left, abandoned>>

\* Mutant: the last one is taken.
ChosenLast == Tomls[CHOOSE i \in Candidates : \A j \in Candidates : j <= i]

Chosen == Tomls[First(Candidates)]

\* It is not empty, and its assets are strings.
Usable == Candidates # {} /\ dir[Chosen] # Torn /\ Transformable(dir[Chosen])

\* The first *.toml is read, transformed in memory, and truncated ...
OpenKataConfig ==
  /\ pc = "pick" /\ Usable
  /\ pc' = "rewrite" /\ picked' = Chosen
  /\ config' = dir[Chosen]
  /\ dir' = [dir EXCEPT ![Chosen] = Torn]
  /\ UNCHANGED <<remote, pulling, todo, writing, entry, left, abandoned>>

\* ... unless there is none that can be.
NoKataConfig ==
  /\ pc = "pick" /\ ~Usable
  /\ Ends
  /\ UNCHANGED <<remote, dir, entry, left, abandoned>>

\* ... and written.
Rewrite ==
  /\ pc = "rewrite"
  /\ pc' = "save" /\ dir' = [dir EXCEPT ![picked] = Transform(config, ClassDir)]
  /\ UNCHANGED <<remote, pulling, todo, writing, picked, config, entry, left, abandoned>>

\* AddRuntime and Save.
AddEntry ==
  /\ pc = "save"
  /\ pc' = "wait" /\ entry' = picked /\ abandoned' = FALSE
  /\ UNCHANGED <<remote, pulling, todo, writing, dir, picked, config, left>>

\* Mutant: the worker ends without it.
EndsOnly ==
  /\ pc = "wait"
  /\ Ends
  /\ UNCHANGED <<remote, dir, entry, left, abandoned>>

\* CleanUp(), and the end of Run().
CleanUp ==
  /\ pc = "wait"
  /\ Ends /\ entry' = NoFile
  /\ UNCHANGED <<remote, dir, left, abandoned>>

\* A failed pull, or the death of the worker.
Die ==
  /\ pc # "down" /\ Spend("faults") /\ Ends
  /\ abandoned' = (abandoned \/ pc = "wait")
  /\ UNCHANGED <<remote, dir, entry>>

\* The tag is moved, or the config map names another one.
Publish ==
  /\ Spend("publishes")
  /\ remote' \in Published \ {remote}
  /\ UNCHANGED <<worker, dir, entry, abandoned>>

Work ==
  \/ Pull \/ (\E n \in FileNames : OpenFile(n) \/ WriteFile(n)) \/ Pulled
  \/ OpenKataConfig \/ NoKataConfig \/ Rewrite \/ AddEntry

Next == Work \/ CleanUp \/ Die \/ Publish

Spec == Init /\ [][Next]_vars

\* A worker that is not waiting for the registry goes on, and one that ended is
\* started again.
FairSpec == Spec /\ WF_vars(Work)

-----------------------------------------------------------------------------
(* Properties.                                                             *)

IsTree(c) == c # NoFile /\ c # Torn

\* What an earlier artifact left.
Stale(n) == n \notin DOMAIN pulling

\* Types of the variables.
TypeOK ==
  /\ remote \in Published /\ pulling \in Published
  /\ pc \in {"down", "pull", "pick", "rewrite", "save", "wait"}
  /\ todo \subseteq FileNames /\ writing \subseteq FileNames /\ todo \intersect writing = {}
  /\ DOMAIN dir = FileNames
  /\ picked \in TomlNames \union {NoFile} /\ entry \in TomlNames \union {NoFile}
  /\ pc \in {"rewrite", "save", "wait"} => IsTree(config)

\* While a worker waits, the kata configuration containerd was given is that of the
\* artifact pulled for this start, of which only the assets are changed, each to a
\* file of its own name in the directory of the class; or one of an artifact pulled
\* earlier that sorts first (main.go:285-312).
Faithful(tree, original) ==
  /\ DOMAIN tree = DOMAIN original
  /\ \A p \in DOMAIN original :
       IF Len(p) = 3 /\ p[1] = "hypervisor" /\ p[3] \in {"kernel", "image", "initrd"}
       THEN \/ original[p] # << >> /\ tree[p] = Append(ClassDir, original[p][Len(original[p])])
            \/ original[p] = << >> /\ tree[p] = ClassDir
            \/ original[p] # << >> /\ original[p][Len(original[p])] = "." /\ tree[p] = ClassDir
       ELSE tree[p] = original[p]

ConfigExplained ==
  pc = "wait" =>
    \/ picked \in DOMAIN pulling /\ Faithful(dir[picked], pulling[picked])
    \/ Stale(picked)

\* The assets it names are whole, as they were pulled, unless it is a stale one.
AssetsWhole ==
  (pc = "wait" /\ ~Stale(picked)) =>
    \A n \in DOMAIN pulling \ {picked} : dir[n] = pulling[n]

\* The path in the containerd configuration leads to a kata configuration that is
\* whole and transformed, and of a worker that waits, unless one ended without its
\* CleanUp: then pods meet, until the next one waits, what a pull or a transform has
\* made of that file so far (main.go:290, 438).
EntryUsable ==
  entry # NoFile =>
    \/ abandoned
    \/ /\ pc = "wait"
       /\ IsTree(dir[entry])
       /\ \A p \in Assets(dir[entry]) : IsPrefix(ClassDir, dir[entry][p])

\* The file of that name once the artifact is pulled: one of an earlier artifact stays.
Pulls(n) == IF n \in DOMAIN remote THEN remote[n] ELSE dir[n]

\* The *.toml that sorts first then: there is none, it is a torn one of an earlier
\* artifact, or it cannot be transformed.
Hopeless ==
  LET tomls == {i \in DOMAIN Tomls : Tomls[i] \in FileNames /\ Pulls(Tomls[i]) # NoFile}
      first == Pulls(Tomls[First(tomls)])
  IN  tomls = {} \/ first = Torn \/ ~Transformable(first)

\* A start gets to the end, or starts again: for ever only when the *.toml that sorts
\* first in what is pulled and what is left cannot be transformed, which no further
\* pull repairs (main.go:296-308, 434).
Recovers == []<>(pc = "wait" \/ Hopeless)

=============================================================================
