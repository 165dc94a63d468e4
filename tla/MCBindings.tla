------------------------------- MODULE MCBindings -------------------------------
(* Worlds with up to two imports and two exports, of names that are plain, a  *)
(* keyword, of two words, and that differ only in their versions or in case.  *)
EXTENDS Bindings

\* Of the names, those the conversions change.
MCSnakes == [w \in Word |-> CASE w = "typed-config" -> "typed_config"
                              [] w = "db-config" -> "db_config"
                              [] w = "CONFIG" -> "config"
                              [] OTHER -> w]

MCCamels == [w \in Word |-> CASE w = "typed-config" -> "typedConfig"
                              [] w = "db-config" -> "dbConfig"
                              [] w = "CONFIG" -> "config"
                              [] OTHER -> w]

MCLetters == [w \in Word |-> CASE w = "typed-config" -> "typedconfig"
                               [] w = "db-config" -> "dbconfig"
                               [] w = "CONFIG" -> "config"
                               [] OTHER -> w]

Id(ns, pkg, iface, version) ==
  [ns |-> ns, pkg |-> pkg, iface |-> iface, version |-> version, inline |-> FALSE]

MCInterfaces == {Id("example", "typed-config", "config", 1), Id("example", "typed-config", "db-config", 1),
                 Id("example", "typed-config", "CONFIG", 1), Id("type", "app", "config", 1),
                 Id("wasi", "cli", "environment", 1), Id("wasi", "cli", "environment", 2),
                 [Id("example", "app", "config", 1) EXCEPT !.inline = TRUE]}

UpTo2(S) == UNION {[1..n -> S] : n \in 0..2}

Once(s) == \A i, j \in DOMAIN s : s[i] = s[j] => i = j

Lists == {s \in UpTo2(MCInterfaces) : Once(s)}

\* Two of the worlds, and what is asked of the package besides, are paired to
\* keep the number of initial states down.
AnyWits == {[world |-> IF c = 1 THEN "app" ELSE "db-config", imports |-> im, exports |-> ex,
             interface |-> IF ex = << >> \/ Inline(ex) THEN Id("example", "app", "config", 1) ELSE ex[1],
             single |-> c # 3, strings |-> c # 4] : im \in Lists, ex \in Lists, c \in 1..4}

\* A package with one interface has no other.
MCWits == {w \in AnyWits :
             w.single => \A s \in {w.imports, w.exports} : \A k \in DOMAIN s :
                           Own(w, s[k]) => s[k] = w.interface}
================================================================================
