------------------------------ MODULE Manifest ------------------------------
(***************************************************************************)
(* The signed fleet manifest (src/src/application/manifest.rs), as         *)
(* operators on the lines of a file.  A line is its directive and what     *)
(* parsing its words gives; a line whose words do not parse (a bad number, *)
(* label or key, an unknown word, a profile this build does not fly) is    *)
(* one that is not ok.  Comments and blank lines are not lines.  The       *)
(* parser's loop stops at the first fault; what it accepts is said here    *)
(* without the order.                                                      *)
(***************************************************************************)
EXTENDS Policy, SequencesExt

CONSTANT CAPACITY   \* Heard::CAPACITY, members a frame can acknowledge

Headers == {"version", "epoch", "valid-from", "valid-until", "group-key",
            "byzantine-bps", "max-competence-ratio", "phy-profile", "heard-capacity"}

header(word, value)  == [word |-> word, value |-> value, ok |-> TRUE]
member(index, competence, key, id) ==
    [word |-> "member", index |-> index, competence |-> competence, key |-> key,
     id |-> id, ok |-> TRUE]
issuer(admin)        == [word |-> "issuer", claims |-> admin, ok |-> TRUE]
signature(by, form)  == [word |-> "signature", by |-> by, form |-> form, ok |-> TRUE]

Lines(lines, words) == {i \in DOMAIN lines : lines[i].word \in words}

\* add_member: one index, one label and one key per member.
DistinctMembers(lines) ==
    \A i, j \in Lines(lines, {"member"}) : i # j =>
        /\ lines[i].index # lines[j].index
        /\ lines[i].id # lines[j].id
        /\ lines[i].key # lines[j].key

\* Parts::read and Parts::apply
read(lines, want_signature) ==
    /\ \A i \in DOMAIN lines : lines[i].ok
    /\ \A word \in Headers \cup {"issuer", "signature"} :
            \A i, j \in Lines(lines, {word}) : i = j
    /\ \E version \in Lines(lines, {"version"}) :
            \A i \in Lines(lines, Headers) : version <= i
    /\ \A i \in Lines(lines, Headers), j \in Lines(lines, {"member"}) : i < j
    /\ \A i \in Lines(lines, {"signature"}) : i = Len(lines)
    /\ want_signature => Lines(lines, {"signature"}) # {}
    /\ DistinctMembers(lines)

field(lines, word) == lines[CHOOSE i \in Lines(lines, {word}) : TRUE].value

Indices(lines) == {lines[i].index : i \in Lines(lines, {"member"})}

\* Parts::settle: everything is there, the window opens before it closes, and
\* the indices are 0 .. n-1.
settle(lines) ==
    /\ \A word \in Headers : Lines(lines, {word}) # {}
    /\ field(lines, "valid-until") > field(lines, "valid-from")
    /\ Indices(lines) # {}
    /\ Cardinality(Indices(lines)) <= CAPACITY
    /\ Indices(lines) = 0 .. Cardinality(Indices(lines)) - 1

\* The members in the order of their indices, whatever the order of the lines.
members(lines) ==
    [n \in 1 .. Cardinality(Indices(lines)) |->
        lines[CHOOSE i \in Lines(lines, {"member"}) : lines[i].index = n - 1]]

\* Manifest::policy
roster(lines) ==
    [n \in DOMAIN members(lines) |->
        [id |-> members(lines)[n].id, score |-> members(lines)[n].competence]]

policy_ok(lines) ==
    with_settings_ok(roster(lines), field(lines, "byzantine-bps"),
                     field(lines, "max-competence-ratio"))

\* Mutant: the policy is not built before signing.
sign_text_ok_unchecked(lines) == read(lines, FALSE) /\ settle(lines)

\* Parts::canonical and Parts::finish hold a file to the same rules.
sign_text_ok(lines) == read(lines, FALSE) /\ settle(lines) /\ policy_ok(lines)

parse_ok(lines) == read(lines, TRUE) /\ settle(lines) /\ policy_ok(lines)

\* What is signed: every header and every member, and not the issuer.
canonical(lines) ==
    [headers |-> [word \in Headers |-> field(lines, word)],
     members |-> members(lines)]

\* A file that reads has at most one line with a given word of these.
Without(lines, word) == RemoveFirstMatch(lines, LAMBDA line : line.word = word)

\* Manifest::sign_text: old issuer and signature lines are replaced.
sign_text(lines, admin) ==
    Without(Without(lines, "issuer"), "signature")
        \o <<issuer(admin), signature(admin, canonical(lines))>>

\* Mutant: the issuer line is taken at its word.
verify_issuer(lines, admin, now) ==
    /\ \E i \in Lines(lines, {"issuer"}) : lines[i].claims = admin
    /\ field(lines, "valid-from") <= now
    /\ now < field(lines, "valid-until")

\* Manifest::verify: the signature, then the half-open window.
verify(lines, admin, now) ==
    LET sealed == lines[CHOOSE i \in Lines(lines, {"signature"}) : TRUE]
    IN  /\ sealed.by = admin
        /\ sealed.form = canonical(lines)
        /\ field(lines, "valid-from") <= now
        /\ now < field(lines, "valid-until")
=============================================================================
