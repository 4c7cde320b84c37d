----------------------------- MODULE ServeSocket -----------------------------
(***************************************************************************)
(* The start of gatekeeper serve (runServe, Listen, WriteJWKS): several    *)
(* serve processes of one configuration, of which one may own a socket     *)
(* path, some told to listen elsewhere (--socket); the signing key they    *)
(* load and the key set the owner publishes; an operator who removes what  *)
(* no server uses and replaces the key; and what gatekeeper mint, under    *)
(* the same configuration, makes of the assertions they issue.             *)
(*                                                                         *)
(* A server is one process, and never runs again once it is gone.  A step  *)
(* is one change of the file system.  The socket a server binds is an      *)
(* inode of its own; path says whose inode, if any, a socket path names.   *)
(* publishFileAt changes what others see in its rename alone, so the       *)
(* temporary file it writes before that is left out.                       *)
(***************************************************************************)
EXTENDS Integers, FiniteSets

CONSTANTS
  Server,         \* serve processes
  Elsewhere,      \* those started with --socket, naming another path
  Key, NoKey,     \* signing keys, and no key loaded or published yet
  Free, Foreign   \* a socket path: nothing there, or something not a server's

CONSTANTS MaxFailures, MaxRotations  \* bounds: calls that fail, new keys

ASSUME ServerAssumption ==
  /\ Elsewhere \subseteq Server
  /\ Free \notin Server /\ Foreign \notin Server /\ Free # Foreign
  /\ NoKey \notin Key
ASSUME BoundAssumption == MaxFailures \in Nat /\ MaxRotations \in Nat

VARIABLES
  pc,        \* how far each server is
  mode,      \* mode of the socket each server bound
  private,   \* the servers whose private directory is there
  path,      \* what each socket path names
  jwks,      \* whose key set is at jwks_path
  owned,     \* history: servers that have linked their path
  failures,
  config,    \* whether identity.issuer and identity.jwks_path are set
  keyFile,   \* the key at identity.key_path
  loaded,    \* the key each server loaded
  issued,    \* the servers that have issued an assertion
  rotations

keys == <<config, keyFile, loaded, issued, rotations>>
vars == <<pc, mode, private, path, jwks, owned, failures, keys>>

\* socketFor: --socket, else the path of the configuration.
Sockets == {"configured", "elsewhere"}
SocketFor(s) == IF s \in Elsewhere THEN "elsewhere" ELSE "configured"

Pcs == {"off", "loaded", "private", "bound", "moded", "linked", "publish", "serving",
        "failed", "gone"}

At(s, p) == pc[s] = p
Goto(s, p) == pc' = [pc EXCEPT ![s] = p]

\* The listener accepts connections from bind (net.ListenUnix listens) to Close.
Listening(s) == pc[s] \in {"bound", "moded", "linked", "publish", "serving"}

-----------------------------------------------------------------------------
(* NewIssuer, as far as it decides what is signed with; module TrustRoot   *)
(* has the directories it verifies                                         *)

LoadKeyring(s) ==
  /\ At(s, "off") /\ Goto(s, "loaded")
  /\ loaded' = [loaded EXCEPT ![s] = keyFile]
  /\ UNCHANGED <<mode, private, path, jwks, owned, failures, config, keyFile,
                 issued, rotations>>

-----------------------------------------------------------------------------
(* Listen                                                                  *)

MakePrivate(s) ==
  /\ At(s, "loaded") /\ Goto(s, "private")
  /\ private' = private \cup {s}
  /\ UNCHANGED <<mode, path, jwks, owned, failures, keys>>

Bind(s) ==
  /\ At(s, "private") /\ Goto(s, "bound")
  /\ mode' = [mode EXCEPT ![s] = "default"]
  /\ UNCHANGED <<private, path, jwks, owned, failures, keys>>

\* Broken form: the mode is left for later.
SetMode_Later(s) ==
  /\ At(s, "bound") /\ Goto(s, "moded")
  /\ UNCHANGED <<mode, private, path, jwks, owned, failures, keys>>

SetMode(s) ==
  /\ At(s, "bound") /\ Goto(s, "moded")
  /\ mode' = [mode EXCEPT ![s] = "configured"]
  /\ UNCHANGED <<private, path, jwks, owned, failures, keys>>

\* Broken form: the socket is renamed to the path.
Link_Replaces(s) ==
  /\ At(s, "moded")
  /\ Goto(s, "linked")
  /\ path' = [path EXCEPT ![SocketFor(s)] = s] /\ owned' = owned \cup {s}
  /\ UNCHANGED <<mode, private, jwks, failures, keys>>

\* link(2) never replaces.
Link(s) ==
  /\ At(s, "moded") /\ path[SocketFor(s)] = Free
  /\ Goto(s, "linked")
  /\ path' = [path EXCEPT ![SocketFor(s)] = s] /\ owned' = owned \cup {s}
  /\ UNCHANGED <<mode, private, jwks, failures, keys>>

\* Broken form: the key set was written before the path was asked for.
Refuse_Published(s) ==
  /\ At(s, "moded") /\ path[SocketFor(s)] # Free
  /\ Goto(s, "gone")
  /\ private' = private \ {s}
  /\ jwks' = IF config.jwks THEN s ELSE jwks
  /\ UNCHANGED <<mode, path, owned, failures, keys>>

\* Anything at the path refuses the start: close, clean up, exit.
Refuse(s) ==
  /\ At(s, "moded") /\ path[SocketFor(s)] # Free
  /\ Goto(s, "gone")
  /\ private' = private \ {s}
  /\ UNCHANGED <<mode, path, jwks, owned, failures, keys>>

\* A failure before the link ends the start the same way.
ListenFails(s) ==
  /\ pc[s] \in {"private", "bound", "moded"}
  /\ failures < MaxFailures /\ failures' = failures + 1
  /\ Goto(s, "gone")
  /\ private' = private \ {s}
  /\ UNCHANGED <<mode, path, jwks, owned, keys>>

\* After the link the private directory goes; failing that is only reported.
RemovePrivate(s) ==
  /\ At(s, "linked") /\ Goto(s, "publish")
  /\ \/ private' = private \ {s} /\ UNCHANGED failures
     \/ /\ failures < MaxFailures /\ failures' = failures + 1
        /\ UNCHANGED private
  /\ UNCHANGED <<mode, path, jwks, owned, keys>>

-----------------------------------------------------------------------------
(* runServe after Listen                                                   *)

PublishKeys(s) ==
  /\ At(s, "publish") /\ Goto(s, "serving")
  /\ jwks' = IF config.jwks THEN s ELSE jwks
  /\ UNCHANGED <<mode, private, path, owned, failures, keys>>

\* WriteJWKS fails, before its rename or in the flush that follows it, and the
\* listener is closed.
PublishFails(s) ==
  /\ At(s, "publish") /\ config.jwks
  /\ failures < MaxFailures /\ failures' = failures + 1
  /\ Goto(s, "failed")
  /\ jwks' \in {jwks, s}
  /\ UNCHANGED <<mode, private, path, owned, keys>>

\* os.Remove(sock) takes the name, whatever it names by then.
RemoveSocket(s) ==
  /\ At(s, "failed") /\ Goto(s, "gone")
  /\ path' = [path EXCEPT ![SocketFor(s)] = Free]
  /\ UNCHANGED <<mode, private, jwks, owned, failures, keys>>

\* SIGINT or SIGTERM while serving closes the listener and leaves the path.
Stop(s) ==
  /\ At(s, "serving") /\ Goto(s, "gone")
  /\ UNCHANGED <<mode, private, path, jwks, owned, failures, keys>>

\* A crash, or a signal before serve handles it, leaves everything.
Crash(s) ==
  /\ pc[s] \notin {"off", "gone"} /\ Goto(s, "gone")
  /\ UNCHANGED <<mode, private, path, jwks, owned, failures, keys>>

Issue(s) ==
  /\ At(s, "serving") /\ s \notin issued
  /\ issued' = issued \cup {s}
  /\ UNCHANGED <<pc, mode, private, path, jwks, owned, failures, config,
                 keyFile, loaded, rotations>>

-----------------------------------------------------------------------------
(* gatekeeper mint under the same configuration: buildAssertionProvider,   *)
(* the locator and the verification of an assertion that server s issued   *)

\* Broken form: the name is always that of the socket.
IssuerName_Socket(s) == SocketFor(s)

\* NewIssuer's name for itself.
IssuerName(s) == IF config.issuer THEN "identity.issuer" ELSE SocketFor(s)

\* The name mint trusts: socketFor with no flag.
LocalIss == IF config.issuer THEN "identity.issuer" ELSE "configured"

Trusted(s) == IssuerName(s) = LocalIss

\* A set issuer whose key set is nowhere is looked for at an address of its own.
Located == config.jwks \/ ~config.issuer

\* The key set fetched now: the file, or what the server at the path answers.
PublishedKey ==
  IF config.jwks THEN IF jwks = Free THEN NoKey ELSE loaded[jwks]
  ELSE LET s == path["configured"]
       IN IF s \in Server /\ At(s, "serving") THEN loaded[s] ELSE NoKey

\* The code verifyAssertion refuses with, "" if it accepts.
Verdict(s) ==
  IF ~Trusted(s) THEN "issuer_untrusted"
  ELSE IF PublishedKey = NoKey THEN "jwks_unavailable"
  ELSE IF PublishedKey # loaded[s] THEN "key_not_found"
  ELSE ""

-----------------------------------------------------------------------------
(* The operator or the service manager                                     *)

\* The signing key is replaced by a new one; servers keep what they loaded.
Rotate(k) ==
  /\ rotations < MaxRotations /\ rotations' = rotations + 1
  /\ k # keyFile /\ keyFile' = k
  /\ UNCHANGED <<pc, mode, private, path, jwks, owned, failures, config, loaded,
                 issued>>

\* A leftover socket is removed once no server uses it (docs/SETUP.md).
CleanUp(k) ==
  /\ path[k] # Free
  /\ path[k] \in Server => ~Listening(path[k])
  /\ path' = [path EXCEPT ![k] = Free]
  /\ UNCHANGED <<pc, mode, private, jwks, owned, failures, keys>>

PutForeign(k) ==
  /\ path[k] = Free /\ path' = [path EXCEPT ![k] = Foreign]
  /\ UNCHANGED <<pc, mode, private, jwks, owned, failures, keys>>

-----------------------------------------------------------------------------
Init ==
  /\ pc = [s \in Server |-> "off"]
  /\ mode = [s \in Server |-> "none"]
  /\ private = {} /\ owned = {}
  /\ path \in [Sockets -> {Free, Foreign}] /\ jwks = Free
  /\ failures = 0
  /\ config \in [issuer: BOOLEAN, jwks: BOOLEAN]
  /\ keyFile \in Key /\ loaded = [s \in Server |-> NoKey]
  /\ issued = {} /\ rotations = 0

Next ==
  \/ \E s \in Server :
       \/ LoadKeyring(s)
       \/ MakePrivate(s) \/ Bind(s) \/ SetMode(s) \/ Link(s) \/ Refuse(s)
       \/ ListenFails(s) \/ RemovePrivate(s)
       \/ PublishKeys(s) \/ PublishFails(s) \/ RemoveSocket(s)
       \/ Issue(s) \/ Stop(s) \/ Crash(s)
  \/ \E k \in Sockets : CleanUp(k) \/ PutForeign(k)
  \/ \E k \in Key : Rotate(k)

Spec == Init /\ [][Next]_vars

-----------------------------------------------------------------------------
(* Properties                                                              *)

TypeOK ==
  /\ pc \in [Server -> Pcs]
  /\ mode \in [Server -> {"none", "default", "configured"}]
  /\ private \subseteq Server /\ owned \subseteq Server
  /\ path \in [Sockets -> Server \cup {Free, Foreign}]
  /\ jwks \in Server \cup {Free}
  /\ failures \in 0 .. MaxFailures
  /\ config \in [issuer: BOOLEAN, jwks: BOOLEAN]
  /\ keyFile \in Key /\ loaded \in [Server -> Key \cup {NoKey}]
  /\ issued \subseteq Server /\ rotations \in 0 .. MaxRotations

\* A socket path never exists with another mode, and the socket keeps the
\* default mode only while its one name is in the private directory (Listen).
ModeBeforeName ==
  /\ TypeOK
  /\ \A s \in Server, k \in Sockets : mode[s] # "configured" => path[k] # s

\* At most one server is between owning a path and giving it up, whatever
\* crashes and whatever the operator cleans up (Listen: link never replaces);
\* that is, as long as no start fails to write its key set and takes the name.
OneOwner ==
  failures = 0 =>
    \A s, t \in owned :
      Listening(s) /\ Listening(t) /\ SocketFor(s) = SocketFor(t) => s = t

\* Only a server that has owned its path publishes a key set, and while the
\* server at the path serves, jwks_path holds its key set and not that of
\* another start there (runServe: a second serve must not overwrite the key set
\* the live one published); the latter as long as no call fails and no server
\* of the same configuration publishes from another socket.
KeysAreTheOwners ==
  /\ jwks # Free => jwks \in owned
  /\ failures = 0 /\ config.jwks /\ jwks \notin Elsewhere =>
       \A s \in Server : At(s, "serving") /\ path["configured"] = s => jwks = s

\* While a server owns and serves the configured path, mint accepts exactly the
\* assertions signed with that server's key: its own, those of an earlier run
\* that had the same key and none of a key since replaced, however starts, stops,
\* crashes and key replacements interleaved (serve_linux.go, buildAssertionProvider,
\* fetchJWKS).  The name mint trusts must be the one the server used, no call
\* failed, and no server at another socket has replaced the shared key set.
MintGoesByTheOwner ==
  \A s \in Server :
    /\ failures = 0 /\ Located /\ jwks \notin Elsewhere
    /\ At(s, "serving") /\ path["configured"] = s
    => \A t \in issued :
         config.issuer \/ t \notin Elsewhere =>
           (Verdict(t) = "") = (loaded[t] = loaded[s])
=============================================================================
