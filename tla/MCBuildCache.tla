----------------------------- MODULE MCBuildCache -----------------------------
\* A spec and the helper it imports; one content that passes and one that fails;
\* a spec without its helper does not compile.  Entries of different specs are independent but
\* for the manifest they are saved in, so one spec and sessions that test it or
\* test others (Other) are enough.
EXTENDS BuildCache

CONSTANTS a, helper, good, bad

MCImports == [s \in Spec |-> Lib]

Plain == [tier |-> "full", custom |-> FALSE, sig |-> 1, runtime |-> 1,
          writes |-> FALSE, select |-> "all", scope |-> Spec, pruning |-> TRUE]
Other == [Plain EXCEPT !.scope = {}, !.pruning = FALSE]

AllKinds ==
  { Plain, Other,
    [Plain EXCEPT !.tier = "off"],
    [Plain EXCEPT !.tier = "build", !.runtime = 2],
    [Plain EXCEPT !.custom = TRUE],
    [Plain EXCEPT !.writes = TRUE, !.sig = 2],
    [Plain EXCEPT !.select = "some"] }

Custom == {Plain, [Plain EXCEPT !.custom = TRUE]}
===============================================================================
