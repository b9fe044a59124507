------------------------ MODULE MCSchemaDescription ------------------------
(***************************************************************************)
(* Instances of SchemaDescription for TLC: two tables, declared in the     *)
(* ways that the joins of the three dialects treat differently.            *)
(***************************************************************************)
EXTENDS SchemaDescription

Column(name) == [name |-> <<name>>, default |-> Null, generated |-> FALSE]

\* MySQL calls every primary key PRIMARY.
KeyName(d, t) == IF d = "mysql" THEN "PRIMARY" ELSE t \o "_pkey"

Primary(d, t, columns) ==
    [name |-> KeyName(d, t), type |-> "PRIMARY KEY", columns |-> columns,
     references |-> Null, rule |-> Null, elsewhere |-> {}]

Unique(name, columns) ==
    [name |-> name, type |-> "UNIQUE", columns |-> columns, references |-> Null,
     rule |-> Null, elsewhere |-> {}]

Check(name) ==
    [name |-> name, type |-> "CHECK", columns |-> <<>>, references |-> Null,
     rule |-> Null, elsewhere |-> {}]

ForeignKey(name, columns, table, key, referenced) ==
    [name |-> name, type |-> "FOREIGN KEY", columns |-> columns,
     references |-> [table |-> table, key |-> key, columns |-> referenced],
     rule |-> "CASCADE", elsewhere |-> {}]

Index(name, columns) ==
    [name |-> name, columns |-> columns, unique |-> FALSE, primary |-> FALSE,
     predicate |-> Null]

KeyIndex(d, t, columns) ==
    [Index(KeyName(d, t), columns) EXCEPT !.unique = TRUE, !.primary = TRUE]

\* A generated key, a title with an empty default (only MySQL shows it as one).
FilmColumns(d) ==
    << [Column("id") EXCEPT !.generated = TRUE],
       [Column("title") EXCEPT !.default = IF d = "mysql" THEN "" ELSE "''"] >>

\* An index on an expression, and one of a part of the rows, where there are such.
OtherIndexes(d) ==
    { Index("by_title", << <<"title">> >>) }
    \cup (IF d = "sqlserver" THEN {} ELSE { Index("by_lower", << <<"id">>, Null >>) })
    \cup (IF d = "mysql" THEN {}
          ELSE { [Index("by_new", << <<"id">> >>) EXCEPT !.predicate = "id > 9"] })

Id == << <<"id">> >>

Simple(d) ==
    [film |-> [columns |-> FilmColumns(d),
               constraints |-> { Primary(d, "film", Id), Check("positive") },
               indexes |-> { KeyIndex(d, "film", Id) } \cup OtherIndexes(d)],
     cast |-> [columns |-> << Column("film"), Column("actor") >>,
               constraints |-> { ForeignKey("of_film", << <<"film">> >>, "film",
                                            KeyName(d, "film"), Id) },
               indexes |-> {}]]

\* The key of film is the other way round than its columns.
Pair == << <<"no">>, <<"series">> >>

Composite(d) ==
    [film |-> [columns |-> << Column("series"), Column("no") >>,
               constraints |-> { Primary(d, "film", Pair),
                                 Unique("one_no", << <<"no">> >>) },
               indexes |-> { KeyIndex(d, "film", Pair) }],
     cast |-> [columns |-> << Column("no"), Column("series") >>,
               constraints |-> { Primary(d, "cast", << <<"series">> >>),
                                 ForeignKey("of_film", Pair, "film",
                                            KeyName(d, "film"), Pair) },
               indexes |-> { KeyIndex(d, "cast", << <<"series">> >>) }]]

\* Foreign keys of two tables have one name, which only PostgreSQL allows.
SameNames(d) ==
    [film |-> [columns |-> << Column("id"), Column("lead") >>,
               constraints |-> { Primary(d, "film", Id),
                                 ForeignKey("fk", << <<"lead">> >>, "cast",
                                            KeyName(d, "cast"), Id) },
               indexes |-> { KeyIndex(d, "film", Id) }],
     cast |-> [columns |-> << Column("id"), Column("film") >>,
               constraints |-> { Primary(d, "cast", Id),
                                 ForeignKey("fk", << <<"film">> >>, "film",
                                            KeyName(d, "film"), Id) },
               indexes |-> { KeyIndex(d, "cast", Id) }]]

\* The name of a column has a comma.
Comma(d) ==
    [film |-> [columns |-> << [Column("id") EXCEPT !.name = <<"last", "first">>] >>,
               constraints |-> { Unique("one_name", << <<"last", "first">> >>) },
               indexes |-> { Index("by_name", << <<"last", "first">> >>) }]]

\* A blank is part of a name, and is the whole of another one.
Blanks(d) ==
    [film |-> [columns |-> << [Column("id") EXCEPT !.name = <<"id ">>],
                              [Column("id") EXCEPT !.name = <<" ">>] >>,
               constraints |-> { Unique("one_id", << <<"id ">>, <<" ">> >>) },
               indexes |-> { Index("by_id", << <<"id ">> >>),
                             Index("by_blank", << <<" ">> >>) }]]

\* Other schemas of a SQL Server database use the names of the constraints for foreign
\* keys of their own.  There is an index that has no key columns.
Namesakes(d) ==
    LET abroad == { [table |-> "archive.cast", rule |-> "NO_ACTION"],
                    [table |-> "old.cast", rule |-> "SET_NULL"] }
    IN  [film |-> [columns |-> << Column("id"), Column("lead") >>,
                   constraints |->
                      { [Primary(d, "film", Id) EXCEPT !.elsewhere = abroad],
                        [ForeignKey("of_lead", << <<"lead">> >>, "film",
                                    KeyName(d, "film"), Id) EXCEPT !.elsewhere = abroad],
                        Unique("one_lead", << <<"lead">> >>) },
                   indexes |-> { KeyIndex(d, "film", Id), Index("columnstore", <<>>) }]]

\* MCTrim[text] is text.trim().
MCTrim ==
    [text \in {"id", "id ", " ", "title", "film", "actor", "no", "series", "lead", "last",
               "first"} |->
        IF text = "id " THEN "id" ELSE IF text = " " THEN "" ELSE text]

OnlyFilm(d) == [film |-> Simple(d).film]

MCCatalogues ==
    [d \in Dialects |->
        { <<>>, OnlyFilm(d), Simple(d), Composite(d), Comma(d), Blanks(d) }
          \cup (IF d = "postgres" THEN {SameNames(d)} ELSE {})
          \cup (IF d = "sqlserver" THEN {Namesakes(d)} ELSE {})]

\* The composite keys alone.
MCCompositeKeys == [d \in Dialects |-> {Composite(d)}]
=============================================================================
