------------------------------ MODULE MCTally -------------------------------
(* Small instances of Provisioning and Tally for TLC.                      *)
EXTENDS Provisioning

\* Every list of up to two entries, blank and repeated ids and scores off the
\* scale or at its edges among them.
Entries == [id : {"", "a", "b"}, score : {0, 1, 33, 34, 100, 101}]
Lists == {<<>>} \cup {<<e>> : e \in Entries} \cup {<<e, f>> : e, f \in Entries}

Full(names) == [i \in DOMAIN names |-> [id |-> names[i], score |-> 100]]

\* Fleets of up to five, equal and unequal.
MCManifests ==
    Lists \cup
    {Full(<<"a", "b", "c">>), Full(<<"a", "b", "c", "d", "e">>),
     [Full(<<"a", "b", "c", "d">>) EXCEPT ![1].score = 34]}

MCBudgets == {0, 4000, 9999, 10000}
MCRatios == {0, 1, 3}

\* A lawful file of two members, before it is signed.
MCDrafts ==
    {<<header("version", 2), header("epoch", 1), header("valid-from", 1),
       header("valid-until", 3), header("group-key", 1),
       header("byzantine-bps", 4000), header("max-competence-ratio", 3),
       header("phy-profile", 1), header("heard-capacity", 2),
       member(0, 100, "k0", "a"), member(1, 50, "k1", "b")>>}

\* Other values for a line: lawful ones, ones only the policy refuses, a seat
\* for a key that has one, an index out of line, and one that does not parse.
MCReplacements ==
    {header("epoch", 1), header("epoch", 2), header("valid-until", 1), header("byzantine-bps", 0),
     header("byzantine-bps", 10000), member(1, 10, "k1", "b"), member(1, 50, "k0", "b"),
     member(2, 50, "k1", "c"), [header("epoch", 0) EXCEPT !.ok = FALSE]}

MCVessel == [index |-> 1, key |-> "k1"]
=============================================================================
