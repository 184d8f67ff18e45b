---------------------------- MODULE MCWikiQueue ----------------------------
EXTENDS WikiQueue
CONSTANTS p1, p2, r1, r2

File(lines, declared) == [lines |-> lines, declared |-> declared, large |-> FALSE, text |-> TRUE]
MCSnapshot == [a |-> File(<<TRUE, FALSE>>, {"f"}), big |-> [File(<<TRUE>>, {}) EXCEPT !.large = TRUE]]
MCStatic == {[schema |-> "", table |-> "t", columns |-> {"x"}]}
MCLive == {[schema |-> "s", table |-> "t", columns |-> {"y"}]}

Lines(path, from, to) ==
  [kind |-> "code", path |-> path, anchor |-> [form |-> "lines", from |-> from, to |-> to]]
Symbols(path, names) ==
  [kind |-> "code", path |-> path, anchor |-> [form |-> "symbols", symbols |-> names]]
Document(path) == [kind |-> "document", path |-> path]
Column(table, column) == [kind |-> "database", table |-> table, column |-> column]

\* Pages that lose no citation, lose one, need the live schema, or are refused.
MCPages ==
  {<<{Lines("a", 1, 2)}, {Symbols("a", {"f"})}>>,
   <<{Document("a"), Lines("a", 2, 2), Column(<<"t">>, "x")}>>,
   <<{Column(<<"s", "t">>, "y"), Column(<<"t">>, "z")}>>,
   <<{Document("a")}, {Lines("a", 1, 3), Lines("big", 1, 1), Symbols("a", {"f", "g"})}>>,
   <<{Document("b")}>>}
=============================================================================
