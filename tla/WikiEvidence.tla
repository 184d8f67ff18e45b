---------------------------- MODULE WikiEvidence ----------------------------
(***************************************************************************)
(* Which facts of a generated wiki page can be checked: server/wiki.py     *)
(* resolves every citation against the snapshot of the repository and a    *)
(* catalog of database columns, drops the citations that do not resolve,   *)
(* and refuses a page with a fact that has none left.                      *)
(***************************************************************************)
EXTENDS Integers, Sequences

\* A snapshot maps the path of every file inside it to [lines, declared, large,
\* text]: which lines hold text, the symbols a declaration pattern finds, too large
\* to cite, readable as text.  A page maps its facts to sets of citations; those of
\* kind "code" have an anchor: none, malformed, lines from..to, or symbols.

LineExists(anchor, file) ==
  /\ 1 <= anchor.from /\ anchor.from <= anchor.to /\ anchor.to <= Len(file.lines)
  /\ \E n \in anchor.from..anchor.to : file.lines[n]

SymbolDeclared(anchor, file) ==
  anchor.symbols # {} /\ anchor.symbols \subseteq file.declared

\* Outside of the snapshot, missing, too large, unreadable: not resolved.
FileResolves(cite, snapshot) ==
  /\ cite.path \in DOMAIN snapshot
  /\ ~snapshot[cite.path].large
  /\ cite.kind = "code" =>
       /\ snapshot[cite.path].text
       /\ \/ cite.anchor.form = "lines" /\ LineExists(cite.anchor, snapshot[cite.path])
          \/ cite.anchor.form = "symbols" /\ SymbolDeclared(cite.anchor, snapshot[cite.path])

\* A CREATE TABLE statement [schema, table, columns] is found by its table and, if
\* it names one, by schema and table; tables of one name are taken together.
Keys(t) == {<<t.table>>} \cup (IF t.schema = "" THEN {} ELSE {<<t.schema, t.table>>})

\* The columns of a catalog under a key, all tables without schema in one.
Columns(tables, key) == UNION {t.columns : t \in {u \in tables : key \in Keys(u)}}

DatabaseResolves(cite, tables) == cite.column \in Columns(tables, cite.table)

Resolves(cite, snapshot, tables) ==
  IF cite.kind = "database" THEN DatabaseResolves(cite, tables) ELSE FileResolves(cite, snapshot)

\* validate_page_evidence: the page that is kept, if it is accepted.
Validated(page, snapshot, tables) ==
  [fact \in DOMAIN page |-> {cite \in page[fact] : Resolves(cite, snapshot, tables)}]

Accepted(page, snapshot, tables) ==
  \A fact \in DOMAIN page : Validated(page, snapshot, tables)[fact] # {}

\* What a reader may rely on: every fact has a citation, and what is cited is there:
\* a line with text, a declared name, a file, a column.
Grounded(page, snapshot, tables) ==
  \A fact \in DOMAIN page :
    /\ page[fact] # {}
    /\ \A cite \in page[fact] :
         IF cite.kind = "database"
         THEN \E t \in tables : cite.table \in Keys(t) /\ cite.column \in t.columns
         ELSE /\ cite.path \in DOMAIN snapshot
              /\ cite.kind = "code" =>
                   LET file == snapshot[cite.path] IN
                   IF cite.anchor.form = "lines"
                   THEN \E n \in 1..Len(file.lines) :
                          file.lines[n] /\ cite.anchor.from <= n /\ n <= cite.anchor.to
                   ELSE \E s \in cite.anchor.symbols : s \in file.declared
=============================================================================
