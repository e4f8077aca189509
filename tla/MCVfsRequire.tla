---------------------------- MODULE MCVfsRequire ----------------------------
(***************************************************************************)
(* Two embedded files that require each other, one of which raises, and    *)
(* two writable ones, one of them over an embedded file.  The name of a    *)
(* third embedded file is ".." with ".rb" after it.                        *)
(***************************************************************************)
EXTENDS VfsRequire

Name(at) == Path(at, 0)
Ask(op, at, rescued) == [op |-> op, name |-> Name(at), rescued |-> rescued]
Save(path, text) == [op |-> "write", path |-> path, text |-> text, rescued |-> FALSE]
Erase(path) == [op |-> "delete", path |-> path, rescued |-> FALSE]
Fails(rescued) == [op |-> "raise", rescued |-> rescued]

LibA == Path(<<"", "lib", "a">>, 1)
LibB == Path(<<"", "lib", "b">>, 1)
LibDC == Path(<<"", "lib", "d", "c">>, 1)
HereA == Path(<<"a">>, 1)
LibDots == Path(<<"", "lib", "..">>, 1)

MCText == {"parent", "child", "fails", "rewrites"}
MCCode ==
  [ parent   |-> << Ask("require_relative", <<".", "d", "c">>, TRUE),
                    Ask("require", <<"b">>, FALSE) >>,
    child    |-> << Ask("require_relative", <<"..", "d", "..", "a">>, FALSE),
                    Ask("require", <<"a">>, FALSE) >>,
    fails    |-> << Ask("require", <<"a">>, TRUE), Fails(FALSE) >>,
    rewrites |-> << Save(LibA, "child"), Erase(LibDC),
                    Ask("require_relative", <<"..", "..", "lib", "b">>, TRUE) >> ]
MCEmbedded == LibA :> "parent" @@ LibB :> "fails" @@ LibDots :> "child"
MCVfsAtBoot == LibDC :> "child"
MCWritten == {LibA, LibDC, HereA}
MCStubs == {Name(<<"curses">>)}
MCTyped ==
  { Ask("require", <<"a">>, FALSE), Ask("require", <<"curses">>, FALSE),
    Ask("require_relative", <<"lib", "a">>, FALSE),
    Ask("require_relative", <<"..", "lib", "d", "c">>, FALSE),
    Ask("require_relative", <<"lib", ".", "..">>, FALSE),
    Erase(LibA) }
    \cup {Save(p, t) : p \in MCWritten, t \in MCText}
=============================================================================
