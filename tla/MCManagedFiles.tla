---------------------------- MODULE MCManagedFiles ----------------------------
(* Three requests: two uploads can race and a third removes or reads what    *)
(* they store.  Three contents against two places: a batch of two may fit or *)
(* not.  No definition tells requests or contents apart, and all that is     *)
(* checked is safety.                                                         *)
EXTENDS FileAnalysis, TLC
CONSTANTS r1, r2, r3, c1, c2, c3
MCRequests == {r1, r2, r3}
MCContents == {c1, c2, c3}
MCSymmetry == Permutations(MCRequests) \cup Permutations(MCContents)

\* Tables of up to three rows against MaxRows = 3, MaxColumns = 2, MaxCells = 4.
Upto(S, n) == UNION {[1..k -> S] : k \in 0..n}
Make(media, names, body) == [media |-> media, names |-> names, rows |-> body]
JsonCells == {Number(-1), Number(2)} \cup
    {Cell(k) : k \in {"missing", "string", "boolean", "literal", "digits", "nested"}}
CsvCells == {Number(1), Number(2)} \cup {Cell(k) : k \in {"missing", "digits", "formula"}}
Pairs(cells) == {<<x, y>> : x \in cells, y \in {Number(2), Cell("missing"), Cell("string")}}
Ragged == {<<Number(2)>>}
Narrow(cells, n) == {[i \in DOMAIN s |-> <<s[i]>>] : s \in Upto(cells, n)}
MCTables ==
    {Make("json", <<"x">>, body) : body \in Narrow(JsonCells, 2) \cup Narrow({Number(-1), Number(2)}, 4)}
    \cup {Make("csv", <<"x">>, body) : body \in Narrow(CsvCells, 3)}
    \cup {Make("json", <<"x", "y">>, body) : body \in Upto(Pairs(JsonCells) \cup Ragged, 1)}
    \cup {Make("csv", <<"x", "y">>, body) : body \in Upto(Pairs(CsvCells) \cup Ragged, 2)}
    \cup {Make("csv", names, <<[i \in DOMAIN names |-> Number(1)]>>) : names \in
            {<< >>, <<"x", "x">>, <<"y">>, <<"x", "=formula">>, <<"x", "y", "z">>, <<"y", "x">>}}
    \cup {Make("text", <<"x">>, << >>)}
    \cup {Make("csv", <<"x", "y">>, [i \in 1..3 |-> <<Number(1), Number(i)>>])}

\* Bounds.  One request reads, what one other has stored alone; the third lists
\* or deletes meanwhile, since a reader sees nothing of what others store.  Sums
\* are computed when no other request is at work.
Readers == {r \in Requests : Reads(r) \/ reply[r] # "none"}
ReadsApart ==
    /\ \A f, g \in expired : f[1] = g[1]   \* one batch expires
    /\ Cardinality(Readers) <= 1 /\ Cardinality(spoilt) <= Cardinality(Readers)
    /\ \A r \in Readers :
          \/ Reads(r) /\ batch = [s \in Requests |-> IF s = File(r)[1] THEN {File(r)[2]} ELSE {}]
          \/ ~Reads(r) /\ \A s \in Requests \ {r} : At(s, "idle")
    /\ (\E r \in Requests : sheet[r] # << >>) =>
          /\ spoilt = {} /\ expired = {} /\ ~repeatable
          /\ \A r \in Requests : phase[r] \in {"idle", "created", "finding"}
\* After an upload took its commit for failed one other request goes on, and
\* nothing else is abandoned.
Doubts == {r \in Requests : phase[r] \in {"doubting", "doubted"}}
OneDoubt ==
    Doubts # {} =>
        /\ Cardinality({r \in Requests : ~At(r, "idle")}) <= 2
        /\ orphans \subseteq Doubts \X Contents
        /\ spoilt = {}
NoReads == Readers = {} /\ spoilt = {}
=============================================================================
