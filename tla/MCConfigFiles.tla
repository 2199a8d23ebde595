--------------------------- MODULE MCConfigFiles ---------------------------
(***************************************************************************)
(* Values for ConfigFiles: small texts with every character the formats    *)
(* give a meaning, and files as a user writes them (progs/aqbackup has an  *)
(* example, testc.conf: repeated lines, blanks after commas).              *)
(***************************************************************************)
EXTENDS ConfigFiles

MCNames == {<<"a">>, <<"b", "a">>, <<"a", " ", "b">>}

Plainly == [mode |-> 1, owner |-> <<"u">>, group |-> Null, link |-> Null,
            device |-> 0, size |-> 1, mtime |-> 1]

MCStats ==
  {Plainly,
   [Plainly EXCEPT !.link = <<"/", "#", ",", " ">>, !.group = <<"g">>],
   [Plainly EXCEPT !.link = <<"a", "\"", "b">>],
   [Plainly EXCEPT !.size = IntLimit + 1, !.mtime = ClockBack]}

MCClock == {1, ClockBack + 2}

A == <<"/", "a">>
MCBaseDirs  == {<<"/">>, A, A \o A, A \o <<"/">>}
MCDirs      == {<<"/">>, A, <<"/", "a", "b">>, A \o A, <<"/", "a", "\\">>}
MCPatterns  == {<<"*", "a">>, <<"?", "*">>, A}
MCPasswords == {Null}

Line(var, values) == <<var, "=">> \o Joined(values) \o <<"\n">>

MCHandWritten ==
  [client |->
     {<<>>,
      Line("hostname", << <<"h">> >>) \o
      <<"\n", "[", "repositories", "/", "1", "]", "\n">> \o
      Line("basedir", <<A \o A>>) \o Line("name", << <<"n">> >>) \o
      Line("user", << <<"u">> >>) \o Line("passwd", << <<>> >>) \o
      <<" ", "ignore", " ", "=", "*", "b", " ", ",", " ", "\"", "a", "*", "\"", "#", "a", "\n">> \o
      Line("ignore", << <<"b", "?", "a">> >>) \o <<"#", "a", "\n">> \o
      <<"[", "repositories", "/", "1", "/", "client", "]", "\n">> \o
      Line("servercfg", << <<"c">> >>)},
   server |->
     {<<"nextfileid", "=", "2", "#", "a", "\n">> \o Line("reader", << <<"a">>, <<"b">> >>) \o
      <<"reader", " ", "=", " ", "c", " ", "\n", "\n">> \o Line("writer", << <<"a">> >>),
      <<"writer", "=", "\"", "a", "\n">>}]

MCMaxEdits == [entry |-> 2, client |-> 3, server |-> 3]
============================================================================
