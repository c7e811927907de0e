------------------------------ MODULE MCRouter ------------------------------
(***************************************************************************)
(* Two names and one target of each kind for the model checker.            *)
(***************************************************************************)
EXTENDS Router, TLC

Entry(scheme, tail, lossy) == [scheme |-> scheme, tail |-> tail, lossy |-> lossy]

MCEntries == {Entry("tcp", "sound", FALSE), Entry("fifo", "sound", TRUE),
              Entry("file", "sound", TRUE), Entry("echo", "none", FALSE),
              Entry("stdin", "none", TRUE), Entry("stdin", "unsound", FALSE),
              Entry("host", "sound", FALSE)}

\* Names are interchangeable.
Spellings == Permutations(AllNames)
=============================================================================
