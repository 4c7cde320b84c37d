----------------------------- MODULE MCTrustRoot -----------------------------
(* The default layout: everything below one directory, the spawn root in the  *)
(* socket's, the key set beside the key.  At most one component is not plain; *)
(* what others add later need not be.                                         *)
EXTENDS TrustRoot

Root(path, create, use) == [path |-> path, create |-> create, use |-> use]

MCPlan == <<
  Root(<<"lib", "keys">>, FALSE, "key"),
  Root(<<"lib", "run">>, TRUE, "close"),
  Root(<<"lib", "keys">>, FALSE, "close"),
  Root(<<"lib", "defs">>, FALSE, "definitions"),
  Root(<<"lib", "run", "spawn">>, TRUE, "spawn"),
  Root(<<"lib", "run">>, TRUE, "listen"),
  Root(<<"lib", "keys">>, FALSE, "jwks")>>

Named(d, n, kind, owner, loose, sticky) ==
  [in |-> d, name |-> n, kind |-> kind, owner |-> owner, loose |-> loose,
   sticky |-> sticky]

\* What a component may be: plain, shared (sticky), loose, theirs, a link, absent.
Forms(d, n) ==
  {Named(d, n, "dir", "ours", FALSE, FALSE), Named(d, n, "dir", "ours", TRUE, TRUE),
   Named(d, n, "dir", "ours", TRUE, FALSE), Named(d, n, "dir", "theirs", FALSE, FALSE),
   Named(d, n, "link", "theirs", FALSE, FALSE), Named(0, n, "dir", "ours", FALSE, FALSE)}
FileForms(d) == {Named(d, File, "file", o, l, FALSE) : o \in {"ours", "theirs"}, l \in BOOLEAN}

\* "/" (plain or sticky), lib, run, keys, defs, spawn, the key and a definition.
Plainly(d, n) == Named(d, n, "dir", "ours", FALSE, FALSE)
PlainTree ==
  <<Plainly(0, "/"), Plainly(1, "lib"), Plainly(2, "run"), Plainly(2, "keys"),
    Plainly(2, "defs"), Plainly(3, "spawn"),
    [Plainly(4, File) EXCEPT !.kind = "file"], [Plainly(5, File) EXCEPT !.kind = "file"]>>

\* t with one component changed, or none.
Edits(t) ==
  {[t EXCEPT ![1] = Named(0, "/", "dir", "ours", TRUE, TRUE)]}
  \cup UNION {{[t EXCEPT ![k] = f] : f \in Forms(PlainTree[k].in, PlainTree[k].name)} : k \in 2 .. 6}
  \cup UNION {{[t EXCEPT ![k] = f] : f \in FileForms(PlainTree[k].in)} : k \in 7 .. 8}

\* At most one component is not plain.
MCTrees == Edits(PlainTree)
=============================================================================
