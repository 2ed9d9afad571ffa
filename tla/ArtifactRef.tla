---------------------------- MODULE ArtifactRef -----------------------------
(***************************************************************************)
(* From the URL of a runtime class, or the argument of kata-manager pull,  *)
(* to the request a registry gets: GetCredentials() of internal/client-go, *)
(* NewArtifact() and Pull() of internal/oras, which cut the reference each *)
(* at its own separator.  A reference is a sequence of separators and of   *)
(* "n", any other character.                                               *)
(***************************************************************************)
EXTENDS Integers, SequencesExt

CONSTANTS
  MaxLen,                \* bound of the model: characters of a reference
  Stored,                \* host -> "password" or "auth": what an entry of the secret has
  Nil, Anonymous, Typed, \* no credentials, empty ones, those of the command line
  None

ASSUME RefBounds == MaxLen \in Nat
ASSUME CredsDiffer == Nil \notin {Anonymous, Typed} \union DOMAIN Stored

Chars == {"n", "/", ":", "@"}

Refs == UNION {[1 .. n -> Chars] : n \in 0 .. MaxLen}

VARIABLES
  ref,     \* the reference
  secret,  \* its pull secret: "", "stored", or "bad": missing, or undecodable
  step,    \* "start", "new", "pull"; then "error", "panic" or "done"
  caller,  \* "class" or "command"
  creds,   \* Nil, Anonymous, Typed, or the host whose entry they are
  art,     \* the Artifact
  request  \* what the registry gets: the host, and credentials

refVars == <<ref, secret, step, caller, creds, art, request>>

-----------------------------------------------------------------------------

FirstOf(s, c) == SelectInSeq(s, LAMBDA x : x = c)
LastOf(s, c) == SelectLastInSeq(s, LAMBDA x : x = c)

Before(s, i) == SubSeq(s, 1, i - 1)
After(s, i) == SubSeq(s, i + 1, Len(s))

\* Mutant: the port is no part of the registry.
ParseRegistryHost(s) ==
  LET host == IF FirstOf(s, "/") = 0 THEN s ELSE Before(s, FirstOf(s, "/"))
  IN  IF FirstOf(host, ":") = 0 THEN host ELSE Before(host, FirstOf(host, ":"))

\* All there is before the first "/".
ParseRegistry(s) == IF FirstOf(s, "/") = 0 THEN s ELSE Before(s, FirstOf(s, "/"))

\* Mutant: a reference with a ":" has a tag.
SeparatorTagFirst(s) == IF LastOf(s, ":") # 0 THEN LastOf(s, ":") ELSE LastOf(s, "@")

\* Where the repository ends, or 0: a digest comes before a tag.
Separator(s) == IF LastOf(s, "@") # 0 THEN LastOf(s, "@") ELSE LastOf(s, ":")

\* The test is for index 1 of Go, where -1 is meant.
Unparsed(s) == LastOf(s, "@") = 0 /\ LastOf(s, ":") = 2

Artifact(s) ==
  [registry |-> ParseRegistry(s), repository |-> Before(s, Separator(s)),
   tag |-> After(s, Separator(s))]

ValidateArgs(s) == FirstOf(s, "@") # 0 \/ FirstOf(s, ":") # 0

\* What GetCredentials() finds; of an entry the fields username and password only.
Entry(host) ==
  IF host \in DOMAIN Stored /\ Stored[host] = "password" THEN host ELSE Anonymous

\* The registry the library connects to, if it takes the repository for a name.
Host(repository) == Before(repository, FirstOf(repository, "/"))

CanConnect(repository) ==
  FirstOf(repository, "/") > 1 /\ FirstOf(Host(repository), "@") = 0

-----------------------------------------------------------------------------

RefInit ==
  /\ ref \in Refs /\ secret \in {"", "stored", "bad"}
  /\ step = "start" /\ caller = None /\ creds = Nil /\ art = None /\ request = None

GetCredentials ==
  /\ step = "start" /\ caller' = "class" /\ UNCHANGED <<ref, secret, art, request>>
  /\ \/ secret = "" /\ step' = "new" /\ creds' = Nil
     \/ secret = "stored" /\ step' = "new" /\ creds' = Entry(ParseRegistry(ref))
     \/ secret = "bad" /\ step' = "error" /\ UNCHANGED creds

\* --username and --password, or their defaults.
Flags == {Anonymous, Typed}

PullCommand ==
  /\ step = "start" /\ caller' = "command" /\ UNCHANGED <<ref, secret, art, request>>
  /\ \/ ValidateArgs(ref) /\ step' = "new" /\ creds' \in Flags
     \/ ~ValidateArgs(ref) /\ step' = "error" /\ UNCHANGED creds

\* Slicing the reference at -1 is a panic.
NewArtifact ==
  /\ step = "new" /\ UNCHANGED <<ref, secret, caller, creds, request>>
  /\ \/ Unparsed(ref) /\ step' = "error" /\ UNCHANGED art
     \/ Separator(ref) = 0 /\ step' = "panic" /\ UNCHANGED art
     \/ Separator(ref) # 0 /\ ~Unparsed(ref) /\ art' = Artifact(ref) /\ step' = "pull"

\* Credentials are for the registry of the artifact; another host gets none.
Sent(a, host) == IF creds = Nil \/ host # a.registry THEN Anonymous ELSE creds

Pull ==
  /\ step = "pull" /\ UNCHANGED <<ref, secret, caller, creds, art>>
  /\ \/ step' = "error" /\ UNCHANGED request
     \/ /\ CanConnect(art.repository)
        /\ step' = "done"
        /\ LET host == Host(art.repository)
           IN  request' = [host |-> host, creds |-> Sent(art, host)]

RefNext == GetCredentials \/ PullCommand \/ NewArtifact \/ Pull

RefSpec == RefInit /\ [][RefNext]_refVars

-----------------------------------------------------------------------------
(* Properties.                                                             *)

\* What a user writes, from its parts (pull.go:56 of cmd/kata-manager/pull).
Name(s) == s # << >> /\ \A i \in DOMAIN s : s[i] = "n"
HostPort(s) ==
  Name(s) \/ \E i \in DOMAIN s : s[i] = ":" /\ Name(Before(s, i)) /\ Name(After(s, i))
Path(s) ==
  /\ s # << >> /\ \A i \in DOMAIN s : s[i] \in {"n", "/"}
  /\ \A i \in DOMAIN s : s[i] = "/" => i \notin {1, Len(s)} /\ s[i + 1] # "/"
Reference(sep, s) == IF sep = ":" THEN Name(s) ELSE HostPort(s) /\ ~Name(s)

WellFormed(host, path, sep, tag) ==
  HostPort(host) /\ Path(path) /\ sep \in {":", "@"} /\ Reference(sep, tag)

\* A reference of the documented form is cut into the parts it was written from:
\* the port is no tag, and the ":" of a digest no separator (oras/pull.go:52-61).
Parsed ==
  art # None \/ step = "panic" =>
    \A i, j \in DOMAIN ref :
      (i < j /\ ref[i] = "/" /\ WellFormed(Before(ref, i), SubSeq(ref, i + 1, j - 1), ref[j], After(ref, j))) =>
        art = [registry |-> Before(ref, i), repository |-> Before(ref, j), tag |-> After(ref, j)]

\* A registry gets the credentials the secret stores under its own name, or those
\* that were typed next to it, its port with it, and no others, although the
\* reference is cut three times, by two packages and a library (secrets.go:60,
\* oras/pull.go:47 and 81).
OwnCredentials ==
  step = "done" =>
    /\ request.host = Before(ref, FirstOf(ref, "/"))
    /\ request.creds = IF caller = "command" THEN creds
                       ELSE IF secret = "" THEN Anonymous ELSE Entry(request.host)

=============================================================================
