--------------------------- MODULE MigrationsProofs ---------------------------
(***************************************************************************)
(* The database has the schema of its revision, an upgrade meets only the  *)
(* rows it has to meet and costs none of those that matter: from every     *)
(* revision, with any tables filled, and for any number of upgrades,       *)
(* downgrades and rows inserted next to them. What a script makes of a     *)
(* schema is a fact of MigrationFacts; that the transaction does just this *)
(* to the tables, whatever rows they have, is proved here.                 *)
(***************************************************************************)
EXTENDS Migrations, MigrationFacts, SumLemmas

(* A table without its rows.                                               *)
Bare(tab) == [tab EXCEPT !.full = FALSE, !.nulls = {}]

LEMMA BareForm ==
    ASSUME NEW tab, IsTable(tab)
    PROVE  /\ Bare(tab) = [cols |-> tab.cols, opt |-> tab.opt, keys |-> tab.keys,
                           fks |-> tab.fks, full |-> FALSE, nulls |-> {}]
           /\ IsTable(Bare(tab))
           /\ Bare(tab).cols = tab.cols /\ Bare(tab).opt = tab.opt
           /\ Bare(tab).keys = tab.keys /\ Bare(tab).fks = tab.fks
           /\ Bare(tab).full = FALSE /\ Bare(tab).nulls = {}
  <1>1. PICK x : x = [tab EXCEPT !.full = FALSE, !.nulls = {}]
    OBVIOUS
  <1>2. x = [cols |-> tab.cols, opt |-> tab.opt, keys |-> tab.keys, fks |-> tab.fks,
             full |-> FALSE, nulls |-> {}]
    BY <1>1 DEF IsTable
  <1>3. /\ IsTable(x)
        /\ x.cols = tab.cols /\ x.opt = tab.opt /\ x.keys = tab.keys /\ x.fks = tab.fks
        /\ x.full = FALSE /\ x.nulls = {}
    BY <1>2 DEF IsTable
  <1>4. Bare(tab) = x
    BY <1>1 DEF Bare
  <1> QED
    BY <1>2, <1>3, <1>4

LEMMA SchemaForm ==
    ASSUME NEW T
    PROVE  DOMAIN Schema(T) = DOMAIN T /\ \A t \in DOMAIN T : Schema(T)[t] = Bare(T[t])
  BY DEF Schema, Bare

(* The statements that change one table.                                   *)
Alters(s) == s.op \in Operations \ {"create", "drop", "rename"}

(* One operation after the other, what a table is after it.                *)
LEMMA AlteredForm ==
    ASSUME NEW tab, IsTable(tab), NEW s, Alters(s)
    PROVE  /\ IsTable(Altered(tab, s))
           /\ Bare(Altered(tab, s)) = Altered(Bare(tab), s)
           /\ Altered(tab, s).full = IF s.op = "delete" THEN FALSE ELSE tab.full
           /\ Altered(tab, s).nulls =
                 IF s.op = "add_null" THEN IF tab.full THEN tab.nulls \cup {s.arg} ELSE tab.nulls
                 ELSE IF s.op \in {"drop_column", "update"} THEN tab.nulls \ {s.arg}
                 ELSE IF s.op = "delete" THEN {} ELSE tab.nulls
           /\ Altered(tab, s).opt =
                 IF s.op = "add_null" THEN tab.opt \cup {s.arg}
                 ELSE IF s.op \in {"drop_column", "not_null"} THEN tab.opt \ {s.arg} ELSE tab.opt
           /\ Altered(tab, s).cols =
                 IF s.op \in {"add", "add_null"} THEN tab.cols \cup {s.arg}
                 ELSE IF s.op = "drop_column" THEN tab.cols \ {s.arg} ELSE tab.cols
  <1>1. PICK c, o, k, f, n : \E b \in BOOLEAN :
                tab = [cols |-> c, opt |-> o, keys |-> k, fks |-> f, full |-> b, nulls |-> n]
    BY DEF IsTable
  <1>2. PICK b \in BOOLEAN :
                tab = [cols |-> c, opt |-> o, keys |-> k, fks |-> f, full |-> b, nulls |-> n]
    BY <1>1
  <1>3. PICK bare : bare = Bare(tab)
    OBVIOUS
  <1>4. bare = [cols |-> c, opt |-> o, keys |-> k, fks |-> f, full |-> FALSE, nulls |-> {}]
    <2>1. tab.cols = c /\ tab.opt = o /\ tab.keys = k /\ tab.fks = f
      BY <1>2
    <2>2. bare = [cols |-> tab.cols, opt |-> tab.opt, keys |-> tab.keys, fks |-> tab.fks,
                  full |-> FALSE, nulls |-> {}]
      BY <1>3, BareForm
    <2> QED
      BY <2>1, <2>2
  <1>5. PICK x, y, z : x = Altered(tab, s) /\ y = Altered(bare, s) /\ z = Bare(x)
    OBVIOUS
  <1> DEFINE Goal ==
          /\ IsTable(x)
          /\ x.full = IF s.op = "delete" THEN FALSE ELSE b
          /\ x.nulls =
                IF s.op = "add_null" THEN IF b THEN n \cup {s.arg} ELSE n
                ELSE IF s.op \in {"drop_column", "update"} THEN n \ {s.arg}
                ELSE IF s.op = "delete" THEN {} ELSE n
          /\ x.opt =
                IF s.op = "add_null" THEN o \cup {s.arg}
                ELSE IF s.op \in {"drop_column", "not_null"} THEN o \ {s.arg} ELSE o
          /\ x.cols =
                IF s.op \in {"add", "add_null"} THEN c \cup {s.arg}
                ELSE IF s.op = "drop_column" THEN c \ {s.arg} ELSE c
          /\ y = [cols |-> x.cols, opt |-> x.opt, keys |-> x.keys, fks |-> x.fks,
                  full |-> FALSE, nulls |-> {}]
  <1>6. ASSUME s.op = "add" PROVE Goal
    BY <1>2, <1>4, <1>5, <1>6 DEF Altered, IsTable
  <1>7. ASSUME s.op = "add_null" PROVE Goal
    BY <1>2, <1>4, <1>5, <1>7 DEF Altered, IsTable
  <1>8. ASSUME s.op = "drop_column" PROVE Goal
    BY <1>2, <1>4, <1>5, <1>8 DEF Altered, IsTable
  <1>9. ASSUME s.op = "delete" PROVE Goal
    BY <1>2, <1>4, <1>5, <1>9 DEF Altered, IsTable
  <1>10. ASSUME s.op = "update" PROVE Goal
    BY <1>2, <1>4, <1>5, <1>10 DEF Altered, IsTable
  <1>11. ASSUME s.op = "not_null" PROVE Goal
    BY <1>2, <1>4, <1>5, <1>11 DEF Altered, IsTable
  <1>12. ASSUME s.op = "rename_constraint" PROVE Goal
    BY <1>2, <1>4, <1>5, <1>12 DEF Altered, RenameKey, IsTable
  <1>13. ASSUME s.op = "drop_fk" PROVE Goal
    BY <1>2, <1>4, <1>5, <1>13 DEF Altered, IsTable
  <1>14. ASSUME s.op = "add_fk" PROVE Goal
    BY <1>2, <1>4, <1>5, <1>14 DEF Altered, IsTable
  <1>15. ASSUME s.op = "retype" PROVE Goal
    BY <1>2, <1>4, <1>5, <1>15 DEF Altered, IsTable
  <1>16. Goal
    BY <1>6, <1>7, <1>8, <1>9, <1>10, <1>11, <1>12, <1>13, <1>14, <1>15 DEF Alters, Operations
  <1>17. z = y
    BY <1>5, <1>16, BareForm
  <1>18. tab.cols = c /\ tab.opt = o /\ tab.full = b /\ tab.nulls = n
    BY <1>2
  <1> QED
    BY <1>3, <1>5, <1>16, <1>17, <1>18

LEMMA AfterAltering ==
    ASSUME NEW T, NEW s, Alters(s)
    PROVE  /\ After(T, s) = [T EXCEPT ![s.table] = Altered(@, s)]
           /\ s.op # "create" /\ s.op # "drop" /\ s.op # "rename"
  <1>1. s.op # "create" /\ s.op # "drop" /\ s.op # "rename"
    BY DEF Alters, Operations
  <1> QED
    BY <1>1 DEF After

-----------------------------------------------------------------------------
(* What a statement makes of a database. *)

LEMMA SameTables ==
    ASSUME NEW T, NEW U, T = [t \in DOMAIN T |-> T[t]], U = [t \in DOMAIN U |-> U[t]],
           DOMAIN T = DOMAIN U, \A t \in DOMAIN T : T[t] = U[t]
    PROVE  T = U
  OBVIOUS

LEMMA SchemaIsFunction ==
    ASSUME NEW T PROVE Schema(T) = [t \in DOMAIN Schema(T) |-> Schema(T)[t]]
  BY DEF Schema

(* The tables there are after a statement.                                 *)
DomainAfter(D, s) ==
    IF s.op = "create" THEN D \cup {s.table}
    ELSE IF s.op = "drop" THEN D \ {s.table}
    ELSE IF s.op = "rename" THEN (D \ {s.table}) \cup {s.arg} ELSE D

(* Table new has the columns and the rows of table old.                    *)
SameRows(new, old) ==
    /\ new.cols = old.cols /\ new.opt = old.opt
    /\ new.full = old.full /\ new.nulls = old.nulls

NoRows(new) == new.full = FALSE /\ new.nulls = {} /\ new.opt \subseteq new.cols

(* Table t of the database U that statement s makes of T.                  *)
TableAfter(T, s, U, t) ==
    \/ s.op = "create" /\ t = s.table /\ NoRows(U[t])
    \/ s.op = "rename" /\ t = s.arg /\ s.table \in DOMAIN T /\ SameRows(U[t], T[s.table])
    \/ Alters(s) /\ t = s.table /\ t \in DOMAIN T /\ U[t] = Altered(T[t], s)
    \/ t # s.table /\ t \in DOMAIN T /\ SameRows(U[t], T[t])

Effect(T, s, U) ==
    /\ IsDatabase(U)
    /\ Schema(U) = After(Schema(T), s)
    /\ DOMAIN U = DomainAfter(DOMAIN T, s)
    /\ \A t \in DOMAIN U : TableAfter(T, s, U, t)

LEMMA BareBare ==
    ASSUME NEW tab, IsTable(tab), tab.full = FALSE, tab.nulls = {}
    PROVE  Bare(tab) = tab
  BY BareForm DEF IsTable

LEMMA CreateEffect ==
    ASSUME NEW T, IsDatabase(T), NEW s, IsStatement(s), Succeeds(T, s), s.op = "create"
    PROVE  Effect(T, s, After(T, s))
  <1>1. PICK U : U = After(T, s)
    OBVIOUS
  <1>2. U = With(T, s.table, s.arg) /\ After(Schema(T), s) = With(Schema(T), s.table, s.arg)
    BY <1>1 DEF After
  <1>3. /\ DOMAIN U = DOMAIN T \cup {s.table} /\ U = [t \in DOMAIN U |-> U[t]]
        /\ U[s.table] = s.arg
        /\ \A t \in DOMAIN T : t # s.table => U[t] = T[t]
    BY <1>2 DEF With
  <1>4. /\ IsTable(s.arg) /\ NoRows(s.arg) /\ Bare(s.arg) = s.arg
    BY BareBare DEF IsStatement, NoRows
  <1>5. IsDatabase(U)
    BY <1>3, <1>4 DEF IsDatabase
  <1>6. PICK V : V = With(Schema(T), s.table, s.arg)
    OBVIOUS
  <1>7. /\ DOMAIN V = DOMAIN T \cup {s.table} /\ V = [t \in DOMAIN V |-> V[t]]
        /\ V[s.table] = s.arg
        /\ \A t \in DOMAIN T : t # s.table => V[t] = Bare(T[t])
    BY <1>6, SchemaForm DEF With
  <1>8. Schema(U) = V
    BY <1>3, <1>4, <1>7, SchemaForm, SchemaIsFunction, SameTables
  <1>9. \A t \in DOMAIN U : TableAfter(T, s, U, t)
    BY <1>3, <1>4 DEF TableAfter, SameRows
  <1>10. DOMAIN U = DomainAfter(DOMAIN T, s)
    BY <1>3 DEF DomainAfter
  <1> QED
    BY <1>1, <1>2, <1>5, <1>6, <1>8, <1>9, <1>10 DEF Effect

LEMMA DropEffect ==
    ASSUME NEW T, IsDatabase(T), NEW s, s.op = "drop"
    PROVE  Effect(T, s, After(T, s))
  <1>1. PICK U : U = After(T, s)
    OBVIOUS
  <1>2. /\ U = Restrict(T, DOMAIN T \ {s.table})
        /\ After(Schema(T), s) = Restrict(Schema(T), DOMAIN Schema(T) \ {s.table})
    BY <1>1 DEF After
  <1>3. /\ DOMAIN U = DOMAIN T \ {s.table} /\ U = [t \in DOMAIN U |-> U[t]]
        /\ \A t \in DOMAIN U : U[t] = T[t]
    BY <1>2 DEF Restrict
  <1>5. IsDatabase(U)
    BY <1>3 DEF IsDatabase
  <1>6. PICK V : V = Restrict(Schema(T), DOMAIN Schema(T) \ {s.table})
    OBVIOUS
  <1>7. /\ DOMAIN V = DOMAIN T \ {s.table} /\ V = [t \in DOMAIN V |-> V[t]]
        /\ \A t \in DOMAIN V : V[t] = Bare(T[t])
    BY <1>6, SchemaForm DEF Restrict
  <1>8. Schema(U) = V
    BY <1>3, <1>7, SchemaForm, SchemaIsFunction, SameTables
  <1>9. \A t \in DOMAIN U : TableAfter(T, s, U, t)
    BY <1>3 DEF TableAfter, SameRows
  <1>10. DOMAIN U = DomainAfter(DOMAIN T, s)
    BY <1>3 DEF DomainAfter
  <1> QED
    BY <1>1, <1>2, <1>5, <1>6, <1>8, <1>9, <1>10 DEF Effect

LEMMA AlterEffect ==
    ASSUME NEW T, IsDatabase(T), NEW s, Alters(s), s.table \in DOMAIN T
    PROVE  Effect(T, s, After(T, s))
  <1>1. PICK U : U = After(T, s)
    OBVIOUS
  <1>2. /\ U = [T EXCEPT ![s.table] = Altered(@, s)]
        /\ After(Schema(T), s) = [Schema(T) EXCEPT ![s.table] = Altered(@, s)]
        /\ s.op # "create" /\ s.op # "drop" /\ s.op # "rename"
    BY <1>1, AfterAltering
  <1>3. /\ DOMAIN U = DOMAIN T /\ U = [t \in DOMAIN U |-> U[t]]
        /\ U[s.table] = Altered(T[s.table], s)
        /\ \A t \in DOMAIN T : t # s.table => U[t] = T[t]
    BY <1>2 DEF IsDatabase
  <1>4. IsTable(U[s.table]) /\ Bare(U[s.table]) = Altered(Bare(T[s.table]), s)
    <2>1. PICK tab : tab = T[s.table] /\ IsTable(tab)
      BY DEF IsDatabase
    <2>2. IsTable(Altered(tab, s)) /\ Bare(Altered(tab, s)) = Altered(Bare(tab), s)
      BY ONLY <2>1, Alters(s), AlteredForm
    <2> QED
      BY <1>3, <2>1, <2>2
  <1>5. IsDatabase(U)
    BY <1>3, <1>4 DEF IsDatabase
  <1>6. PICK V : V = [Schema(T) EXCEPT ![s.table] = Altered(@, s)]
    OBVIOUS
  <1>7. /\ DOMAIN V = DOMAIN T /\ V = [t \in DOMAIN V |-> V[t]]
        /\ V[s.table] = Altered(Bare(T[s.table]), s)
        /\ \A t \in DOMAIN T : t # s.table => V[t] = Bare(T[t])
    <2>1. PICK S : S = Schema(T)
      OBVIOUS
    <2>2. /\ S = [t \in DOMAIN S |-> S[t]] /\ DOMAIN S = DOMAIN T
          /\ \A t \in DOMAIN T : S[t] = Bare(T[t])
      BY <2>1, SchemaForm, SchemaIsFunction
    <2>3. V = [S EXCEPT ![s.table] = Altered(@, s)]
      BY <1>6, <2>1
    <2> QED
      BY <2>2, <2>3
  <1>8. Schema(U) = V
    BY <1>3, <1>4, <1>7, SchemaForm, SchemaIsFunction, SameTables
  <1>9. \A t \in DOMAIN U : TableAfter(T, s, U, t)
    BY <1>3 DEF TableAfter, SameRows
  <1>10. DOMAIN U = DomainAfter(DOMAIN T, s)
    BY <1>2, <1>3 DEF DomainAfter
  <1> QED
    BY <1>1, <1>2, <1>5, <1>6, <1>8, <1>9, <1>10 DEF Effect

(* A table of which only the foreign keys change.                          *)
Pointed(tab, f) == [tab EXCEPT !.fks = f]

LEMMA PointedForm ==
    ASSUME NEW tab, IsTable(tab), NEW f
    PROVE  /\ IsTable(Pointed(tab, f))
           /\ SameRows(Pointed(tab, f), tab)
           /\ Bare(Pointed(tab, f)) = Pointed(Bare(tab), f)
  <1>1. PICK new : new = Pointed(tab, f)
    OBVIOUS
  <1>2. PICK bare : bare = Bare(tab)
    OBVIOUS
  <1>3. bare = [cols |-> tab.cols, opt |-> tab.opt, keys |-> tab.keys,
                fks |-> tab.fks, full |-> FALSE, nulls |-> {}]
    BY <1>2, BareForm
  <1>4. IsTable(new) /\ SameRows(new, tab) /\ new.keys = tab.keys /\ new.fks = f
    BY <1>1 DEF IsTable, SameRows, Pointed
  <1>5. PICK other : other = Pointed(bare, f)
    OBVIOUS
  <1>6. other = [cols |-> tab.cols, opt |-> tab.opt, keys |-> tab.keys,
                 fks |-> f, full |-> FALSE, nulls |-> {}]
    BY <1>3, <1>5 DEF Pointed
  <1>7. Bare(new) = [cols |-> new.cols, opt |-> new.opt, keys |-> new.keys,
                     fks |-> new.fks, full |-> FALSE, nulls |-> {}]
    BY <1>4, BareForm
  <1>8. Bare(new) = other
    BY <1>4, <1>6, <1>7 DEF SameRows
  <1> QED
    BY <1>1, <1>2, <1>4, <1>5, <1>8

(* Where table x of the renamed database was before.                       *)
Before(x, t, u) == IF x = u THEN t ELSE x

IsMap(U) == U = [x \in DOMAIN U |-> U[x]]

TableRenamed(T, t, u, U) ==
    /\ DOMAIN U = (DOMAIN T \ {t}) \cup {u}
    /\ IsMap(U)
    /\ \A x \in (DOMAIN T \ {t}) \cup {u} :
          U[x] = Pointed(T[Before(x, t, u)], Retarget(T[Before(x, t, u)].fks, t, u))

LEMMA RenamingForm ==
    ASSUME NEW T, NEW t \in DOMAIN T, NEW u, NEW U, U = RenameIn(T, t, u)
    PROVE  TableRenamed(T, t, u, U)
  <1>1. PICK moved : moved = Renaming(T, t, u)
    OBVIOUS
  <1>2. /\ DOMAIN moved = (DOMAIN T \ {t}) \cup {u}
        /\ \A x \in DOMAIN moved : moved[x] = T[Before(x, t, u)]
    BY <1>1 DEF Renaming, Before
  <1>3. U = [x \in DOMAIN moved |-> [moved[x] EXCEPT !.fks = Retarget(@, t, u)]]
    BY <1>1 DEF RenameIn
  <1>4. \A x \in DOMAIN moved : U[x] = Pointed(moved[x], Retarget(moved[x].fks, t, u))
    BY <1>3 DEF Pointed
  <1>5. DOMAIN U = DOMAIN moved /\ IsMap(U)
    BY <1>3 DEF IsMap
  <1> HIDE <1>3
  <1> QED
    BY <1>2, <1>4, <1>5 DEF TableRenamed

LEMMA RenameEffect ==
    ASSUME NEW T, IsDatabase(T), NEW s, s.op = "rename", s.table \in DOMAIN T
    PROVE  Effect(T, s, After(T, s))
  <1>0. PICK t, u : t = s.table /\ u = s.arg
    OBVIOUS
  <1> DEFINE Was(x) == Before(x, t, u)
             D == (DOMAIN T \ {t}) \cup {u}
             F(x) == Retarget(T[Was(x)].fks, t, u)
  <1>1. PICK U : U = After(T, s)
    OBVIOUS
  <1>2. PICK V : V = After(Schema(T), s)
    OBVIOUS
  <1>3. U = RenameIn(T, t, u) /\ V = RenameIn(Schema(T), t, u)
    BY <1>0, <1>1, <1>2 DEF After
  <1>4. \A x \in D : /\ Was(x) \in DOMAIN T
                     /\ IsTable(T[Was(x)])
    BY <1>0 DEF Before, IsDatabase
  <1>5. /\ DOMAIN U = D /\ IsMap(U)
        /\ \A x \in D : U[x] = Pointed(T[Was(x)], F(x))
    <2>1. TableRenamed(T, t, u, U)
      BY <1>0, <1>3, RenamingForm
    <2> QED
      BY <2>1 DEF TableRenamed
  <1>6. /\ DOMAIN V = D /\ IsMap(V)
        /\ \A x \in D : V[x] = Pointed(Bare(T[Was(x)]), F(x))
    <2>1. PICK S : S = Schema(T)
      OBVIOUS
    <2>2. DOMAIN S = DOMAIN T /\ \A y \in DOMAIN T : S[y] = Bare(T[y])
      BY <2>1, SchemaForm
    <2>3. t \in DOMAIN S /\ V = RenameIn(S, t, u)
      BY <1>0, <1>3, <2>1, <2>2
    <2>4. /\ DOMAIN V = D /\ IsMap(V)
          /\ \A x \in D : V[x] = Pointed(S[Was(x)], Retarget(S[Was(x)].fks, t, u))
      <3>1. TableRenamed(S, t, u, V)
        BY <2>3, RenamingForm
      <3> QED
        BY <2>2, <3>1 DEF TableRenamed
    <2>5. \A x \in D : S[Was(x)] = Bare(T[Was(x)]) /\ S[Was(x)].fks = T[Was(x)].fks
      <3> TAKE x \in D
      <3>1. PICK y \in DOMAIN T : y = Was(x) /\ IsTable(T[y])
        BY <1>4
      <3>2. Bare(T[y]).fks = T[y].fks
        BY <3>1, BareForm
      <3> QED
        BY <2>2, <3>1, <3>2
    <2> HIDE DEF Was
    <2> QED
      BY <2>2, <2>4, <2>5
  <1> HIDE DEF D, Was, F
  <1>7. \A x \in D : /\ IsTable(U[x]) /\ SameRows(U[x], T[Was(x)])
                     /\ Bare(U[x]) = V[x]
    BY <1>4, <1>5, <1>6, PointedForm
  <1>8. IsDatabase(U)
    BY <1>5, <1>7 DEF IsDatabase, IsMap
  <1>9. Schema(U) = V
    BY <1>5, <1>6, <1>7, SchemaForm, SchemaIsFunction, SameTables DEF IsMap
  <1>10. \A y \in DOMAIN U : TableAfter(T, s, U, y)
    BY <1>0, <1>5, <1>7 DEF TableAfter, D, Was, Before
  <1>11. DOMAIN U = DomainAfter(DOMAIN T, s)
    BY <1>0, <1>5 DEF DomainAfter, D
  <1> QED
    BY <1>1, <1>2, <1>8, <1>9, <1>10, <1>11 DEF Effect

(* A statement that succeeds does to the schema what it does to the tables.*)
LEMMA AfterEffect ==
    ASSUME NEW T, IsDatabase(T), NEW s, IsStatement(s), Succeeds(T, s)
    PROVE  Effect(T, s, After(T, s))
  <1>1. CASE s.op = "create"
    BY <1>1, CreateEffect
  <1>2. CASE s.op = "drop"
    BY <1>2, DropEffect
  <1>3. CASE s.op = "rename"
    <2>1. s.table \in DOMAIN T
      BY <1>3 DEF Succeeds, Has
    <2> QED
      BY <1>3, <2>1, RenameEffect
  <1>4. CASE Alters(s)
    <2>1. s.table \in DOMAIN T
      BY <1>4 DEF Succeeds, Has, HasColumn, Alters, Operations
    <2> QED
      BY <1>4, <2>1, AlterEffect
  <1> QED
    BY <1>1, <1>2, <1>3, <1>4 DEF IsStatement, Alters, Operations

-----------------------------------------------------------------------------
(* What keeps a statement from succeeding. *)

(* A statement meets the same tables, columns and constraints in S and T,  *)
(* and no rows in S.                                                       *)
Alike(S, T, t) ==
    /\ Has(S, t) <=> Has(T, t)
    /\ Referenced(S, t) <=> Referenced(T, t)
    /\ t \in DOMAIN T => /\ S[t].cols = T[t].cols
                        /\ Names(S[t]) = Names(T[t])
                        /\ ~S[t].full /\ S[t].nulls = {}

LEMMA SchemaAlike ==
    ASSUME NEW T, IsDatabase(T), NEW t
    PROVE  Alike(Schema(T), T, t)
  <1>1. PICK S : S = Schema(T)
    OBVIOUS
  <1>2. DOMAIN S = DOMAIN T /\ \A u \in DOMAIN T : S[u] = Bare(T[u]) /\ IsTable(T[u])
    BY <1>1, SchemaForm DEF IsDatabase
  <1>3. \A u \in DOMAIN T : /\ S[u].cols = T[u].cols /\ S[u].keys = T[u].keys
                           /\ S[u].fks = T[u].fks
                           /\ S[u].full = FALSE /\ S[u].nulls = {}
    <2> TAKE u \in DOMAIN T
    <2>1. PICK tab : tab = T[u] /\ IsTable(tab) /\ S[u] = Bare(tab)
      BY <1>2
    <2>2. /\ Bare(tab).cols = tab.cols /\ Bare(tab).keys = tab.keys /\ Bare(tab).fks = tab.fks
          /\ Bare(tab).full = FALSE /\ Bare(tab).nulls = {}
      BY <2>1, BareForm
    <2> QED
      BY <2>1, <2>2
  <1>4. Has(S, t) <=> Has(T, t)
    BY <1>2 DEF Has
  <1>5. Referenced(S, t) <=> Referenced(T, t)
    BY <1>2, <1>3 DEF Referenced
  <1>6. ASSUME t \in DOMAIN T
        PROVE  S[t].cols = T[t].cols /\ Names(S[t]) = Names(T[t]) /\ ~S[t].full /\ S[t].nulls = {}
    BY <1>3, <1>6 DEF Names
  <1> QED
    BY <1>1, <1>4, <1>5, <1>6 DEF Alike

LEMMA SucceedsOnSchema ==
    ASSUME NEW T, IsDatabase(T), NEW s, Succeeds(T, s)
    PROVE  Succeeds(Schema(T), s)
  <1>1. PICK S : S = Schema(T)
    OBVIOUS
  <1>2. Alike(S, T, s.table) /\ Alike(S, T, s.arg) /\ Alike(S, T, s.to)
    BY <1>1, SchemaAlike
  <1>3. Succeeds(S, s)
    BY <1>2 DEF Succeeds, Alike, Has, HasColumn
  <1> QED
    BY <1>1, <1>3

(* What succeeds on the schema alone fails for the rows of the table: that *)
(* it has some, or the NULLs in them.                                      *)
LEMMA FailsForRows ==
    ASSUME NEW T, IsDatabase(T), NEW s, Succeeds(Schema(T), s), ~Succeeds(T, s)
    PROVE  /\ s.table \in DOMAIN T
           /\ \/ s.op = "add" /\ T[s.table].full
              \/ s.op = "not_null" /\ s.arg \in T[s.table].nulls
  <1>1. PICK S : S = Schema(T)
    OBVIOUS
  <1>2. Alike(S, T, s.table) /\ Alike(S, T, s.arg) /\ Alike(S, T, s.to)
    BY <1>1, SchemaAlike
  <1>3. Succeeds(S, s)
    BY <1>1
  <1> QED
    BY <1>2, <1>3 DEF Succeeds, Alike, Has, HasColumn

-----------------------------------------------------------------------------
(* The course of a script. *)

IsCourse(C, S, script, n) ==
    C = [k \in 0..n |-> IF k = 0 THEN Passed(S) ELSE NextSchema(C[k - 1], script[k])]

LEMMA CourseExists ==
    ASSUME NEW S, NEW script, NEW n \in Nat
    PROVE  \E C : IsCourse(C, S, script, n)
  <1> DEFINE Q == {k \in Nat : \E C : IsCourse(C, S, script, k)}
  <1>1. 0 \in Q
    <2> DEFINE C == [k \in 0..0 |-> Passed(S)]
    <2>1. C = [k \in 0..0 |-> IF k = 0 THEN Passed(S)
                              ELSE NextSchema(C[k - 1], script[k])]
      OBVIOUS
    <2> QED
      BY <2>1 DEF IsCourse
  <1>2. ASSUME NEW m \in Q PROVE m + 1 \in Q
    <2>1. PICK C : C = [k \in 0..m |-> IF k = 0 THEN Passed(S)
                                       ELSE NextSchema(C[k - 1], script[k])]
      BY DEF IsCourse
    <2> DEFINE B == [k \in 0..(m + 1) |-> IF k = m + 1 THEN NextSchema(C[m], script[m + 1])
                                          ELSE C[k]]
    <2>2. m \in Nat /\ \A k \in 0..m : B[k] = C[k]
      OBVIOUS
    <2>3. ASSUME NEW k \in 0..(m + 1)
          PROVE  B[k] = IF k = 0 THEN Passed(S) ELSE NextSchema(B[k - 1], script[k])
      <3>1. CASE k = m + 1
        <4>1. B[k] = NextSchema(C[m], script[m + 1]) /\ B[k - 1] = C[m] /\ k # 0
          BY <2>2, <3>1
        <4> QED
          BY <3>1, <4>1
      <3>2. CASE k \in 1..m
        <4>1. B[k] = C[k] /\ B[k - 1] = C[k - 1] /\ C[k] = NextSchema(C[k - 1], script[k])
          BY <2>1, <2>2, <3>2
        <4> QED
          BY <3>2, <4>1
      <3>3. CASE k = 0
        <4>1. B[0] = C[0] /\ C[0] = Passed(S)
          BY <2>1, <2>2
        <4> QED
          BY <3>3, <4>1
      <3> QED
        BY <2>2, <3>1, <3>2, <3>3
    <2>4. B = [k \in 0..(m + 1) |-> B[k]]
      OBVIOUS
    <2> HIDE DEF B
    <2>5. B = [k \in 0..(m + 1) |-> IF k = 0 THEN Passed(S)
                                    ELSE NextSchema(B[k - 1], script[k])]
      BY <2>3, <2>4
    <2> QED
      BY <2>2, <2>5 DEF IsCourse
  <1> HIDE DEF Q
  <1>3. Q = Nat
    <2>1. Q \in SUBSET Nat
      BY DEF Q
    <2> QED
      BY <1>1, <1>2, <2>1, NatStep
  <1> QED
    BY <1>3 DEF Q

LEMMA CourseSteps ==
    ASSUME NEW S, NEW script, Len(script) \in Nat
    PROVE  /\ Course(S, script)[0] = Passed(S)
           /\ \A k \in 1..Len(script) :
                 Course(S, script)[k] = NextSchema(Course(S, script)[k - 1], script[k])
  <1> DEFINE C == CHOOSE C : IsCourse(C, S, script, Len(script))
  <1>1. Course(S, script) = C
    BY DEF Course, IsCourse
  <1>2. IsCourse(C, S, script, Len(script))
    BY CourseExists
  <1> HIDE DEF C
  <1>3. /\ C[0] = Passed(S)
        /\ \A k \in 1..Len(script) : C[k] = NextSchema(C[k - 1], script[k])
    BY <1>2 DEF IsCourse
  <1> QED
    BY <1>1, <1>3

LEMMA NextForm ==
    ASSUME NEW c, NEW s
    PROVE  /\ c.ok /\ Succeeds(c.db, s) => NextSchema(c, s) = Passed(After(c.db, s))
           /\ NextSchema(c, s).ok => c.ok /\ Succeeds(c.db, s)
  BY DEF NextSchema, Passed

LEMMA PassedForm == ASSUME NEW S PROVE Passed(S).ok /\ Passed(S).db = S
  BY DEF Passed

(* A script that comes to its end had no error on the way.                 *)
LEMMA NoErrorBefore ==
    ASSUME NEW S, NEW script, Len(script) \in Nat, Outcome(S, script).ok
    PROVE  \A k \in 1..Len(script) : Succeeds(Course(S, script)[k - 1].db, script[k])
  <1>1. PICK C : C = Course(S, script)
    OBVIOUS
  <1>2. PICK n \in Nat : n = Len(script)
    OBVIOUS
  <1>3. \A k \in 1..n : C[k] = NextSchema(C[k - 1], script[k])
    BY <1>1, <1>2, CourseSteps
  <1>4. \A k \in 1..n : C[k].ok => C[k - 1].ok /\ Succeeds(C[k - 1].db, script[k])
    BY <1>3, NextForm
  <1> DEFINE Q == {j \in Nat : j <= n => C[n - j].ok}
  <1>5. 0 \in Q
    BY <1>1, <1>2 DEF Outcome
  <1>6. ASSUME NEW j \in Q PROVE j + 1 \in Q
    <2>1. SUFFICES ASSUME j + 1 <= n PROVE C[n - (j + 1)].ok
      OBVIOUS
    <2>2. n - j \in 1..n /\ C[n - j].ok /\ (n - j) - 1 = n - (j + 1)
      BY <2>1
    <2> QED
      BY <1>4, <2>2
  <1> HIDE DEF Q
  <1>7. Q = Nat
    <2>1. Q \in SUBSET Nat
      BY DEF Q
    <2> QED
      BY <1>5, <1>6, <2>1, NatStep
  <1>8. ASSUME NEW k \in 1..n PROVE Succeeds(C[k - 1].db, script[k])
    <2>1. n - k \in Q /\ n - k <= n /\ n - (n - k) = k
      BY <1>7
    <2>2. C[k].ok
      BY <2>1 DEF Q
    <2> QED
      BY <1>4, <2>2
  <1> QED
    BY <1>1, <1>2, <1>8

-----------------------------------------------------------------------------
(* What is so of the committed tables T at version v, and of a transaction *)
(* x that works next to them.                                              *)

Committed(T, v) ==
    /\ v \in 0..HeadRevision
    /\ IsDatabase(T)
    /\ Schema(T) = SchemaAt[v] \/ (v = 14 /\ Schema(T) = SchemaAt[15])

ScriptOf(x) == IF x.way = "up" THEN Upgrade[x.rev] ELSE Downgrade[x.rev]

(* The schema the script under way started from.                           *)
BaseOf(x, T, v) == IF x.way = "down" \/ x.rev = v + 1 THEN Schema(T) ELSE SchemaAt[x.rev - 1]

IsTxn(x) ==
    /\ x = [way |-> x.way, rev |-> x.rev, stmt |-> x.stmt, work |-> x.work,
            locked |-> x.locked, joined |-> x.joined]
    /\ x.way \in {"up", "down"} /\ x.rev \in Versions
    /\ x.stmt \in 1..(Len(ScriptOf(x)) + 1)

(* It has done to the tables what its script does to a schema.             *)
Running(x, T, v) ==
    /\ IsTxn(x) /\ IsDatabase(x.work)
    /\ IF x.way = "up" THEN x.rev > v ELSE x.rev = v
    /\ Course(BaseOf(x, T, v), ScriptOf(x))[x.stmt - 1] = Passed(Schema(x.work))

LEMMA NoTxnForm == ASSUME NEW x, IsTxn(x) PROVE x # NoTxn /\ x.way # "none"
  BY DEF IsTxn, NoTxn

LEMMA ScriptForm ==
    ASSUME NEW x, IsTxn(x)
    PROVE  /\ ScriptOf(x) \in Scripts /\ Len(ScriptOf(x)) \in Nat
           /\ x.stmt \in 1..(Len(ScriptOf(x)) + 1)
           /\ x.stmt <= Len(ScriptOf(x)) =>
                 /\ x.stmt \in 1..Len(ScriptOf(x))
                 /\ IsStatement(ScriptOf(x)[x.stmt])
  <1>1. PICK script : script = ScriptOf(x)
    OBVIOUS
  <1>2. script \in Scripts
    BY <1>1 DEF IsTxn, ScriptOf, Scripts
  <1>3. Len(script) \in Nat /\ \A k \in 1..Len(script) : IsStatement(script[k])
    BY <1>2, StatementsFact
  <1>4. x.stmt \in 1..(Len(script) + 1)
    BY <1>1 DEF IsTxn
  <1>5. ASSUME x.stmt <= Len(script) PROVE x.stmt \in 1..Len(script)
    BY <1>3, <1>4, <1>5
  <1> QED
    BY <1>1, <1>2, <1>3, <1>4, <1>5

(* The transaction after a statement.                                      *)
Executed(x) ==
    [x EXCEPT !.stmt = @ + 1, !.work = After(@, ScriptOf(x)[x.stmt]),
              !.locked = @ \cup Locks(ScriptOf(x)[x.stmt])]

LEMMA ExecutedForm ==
    ASSUME NEW x, IsTxn(x), x.stmt <= Len(ScriptOf(x))
    PROVE  /\ IsTxn(Executed(x)) /\ ScriptOf(Executed(x)) = ScriptOf(x)
           /\ Executed(x).way = x.way /\ Executed(x).rev = x.rev
           /\ Executed(x).stmt = x.stmt + 1
           /\ Executed(x).work = After(x.work, ScriptOf(x)[x.stmt])
           /\ Executed(x).locked = x.locked \cup Locks(ScriptOf(x)[x.stmt])
           /\ Executed(x).joined = x.joined
  <1>1. PICK y : y = Executed(x)
    OBVIOUS
  <1>2. PICK script, w, l : /\ script = ScriptOf(x) /\ w = After(x.work, script[x.stmt])
                            /\ l = x.locked \cup Locks(script[x.stmt])
    OBVIOUS
  <1>3. x.stmt \in 1..Len(script) /\ Len(script) \in Nat
    BY <1>2, ScriptForm
  <1>4. y = [way |-> x.way, rev |-> x.rev, stmt |-> x.stmt + 1, work |-> w,
             locked |-> l, joined |-> x.joined]
    BY <1>1, <1>2 DEF IsTxn, Executed
  <1>5. ScriptOf(y) = script
    BY <1>2, <1>4 DEF ScriptOf
  <1>6. IsTxn(y)
    BY <1>3, <1>4, <1>5 DEF IsTxn
  <1> QED
    BY <1>1, <1>2, <1>4, <1>5, <1>6

LEMMA ExecutedRunning ==
    ASSUME NEW x, NEW T, NEW v, Running(x, T, v), x.stmt <= Len(ScriptOf(x)),
           Succeeds(x.work, ScriptOf(x)[x.stmt])
    PROVE  Running(Executed(x), T, v)
  <1>1. PICK y : y = Executed(x)
    OBVIOUS
  <1>2. PICK script, s, C : /\ script = ScriptOf(x) /\ s = script[x.stmt]
                            /\ C = Course(BaseOf(x, T, v), script)
    OBVIOUS
  <1>3. /\ IsTxn(x) /\ IsDatabase(x.work) /\ Succeeds(x.work, s)
        /\ C[x.stmt - 1] = Passed(Schema(x.work))
    BY <1>2 DEF Running
  <1>4. /\ x.stmt \in 1..Len(script) /\ Len(script) \in Nat /\ IsStatement(s)
    BY <1>2, <1>3, ScriptForm
  <1>5. /\ IsTxn(y) /\ ScriptOf(y) = script /\ y.way = x.way /\ y.rev = x.rev
        /\ y.stmt = x.stmt + 1 /\ y.work = After(x.work, s)
    BY <1>1, <1>2, <1>3, ExecutedForm
  <1>6. IsDatabase(y.work) /\ Schema(y.work) = After(Schema(x.work), s)
    BY <1>3, <1>4, <1>5, AfterEffect DEF Effect
  <1>7. C[x.stmt] = NextSchema(C[x.stmt - 1], s)
    BY <1>2, <1>4, CourseSteps
  <1>8. C[x.stmt] = Passed(After(Schema(x.work), s))
    <2>1. PICK c : c = C[x.stmt - 1]
      OBVIOUS
    <2>2. c.ok /\ c.db = Schema(x.work)
      BY <1>3, <2>1, PassedForm
    <2>3. Succeeds(c.db, s)
      BY <1>3, <2>2, SucceedsOnSchema
    <2> QED
      BY <1>7, <2>1, <2>2, <2>3, NextForm
  <1>9. C[y.stmt - 1] = Passed(Schema(y.work)) /\ BaseOf(y, T, v) = BaseOf(x, T, v)
    <2>1. y.stmt - 1 = x.stmt
      BY <1>4, <1>5
    <2> QED
      BY <1>5, <1>6, <1>8, <2>1 DEF BaseOf
  <1>10. IF y.way = "up" THEN y.rev > v ELSE y.rev = v
    BY <1>5 DEF Running
  <1> QED
    BY <1>1, <1>2, <1>5, <1>6, <1>9, <1>10 DEF Running

Begun(way, rev, T) ==
    [way |-> way, rev |-> rev, stmt |-> 1, work |-> T, locked |-> {}, joined |-> {}]

LEMMA BegunForm ==
    ASSUME NEW way, NEW rev, NEW T
    PROVE  /\ Begun(way, rev, T).way = way /\ Begun(way, rev, T).rev = rev
           /\ Begun(way, rev, T).stmt = 1 /\ Begun(way, rev, T).work = T
           /\ Begun(way, rev, T).locked = {} /\ Begun(way, rev, T).joined = {}
           /\ way \in {"up", "down"} /\ rev \in Versions => IsTxn(Begun(way, rev, T))
  <1>1. PICK x : x = Begun(way, rev, T)
    OBVIOUS
  <1>2. /\ x.way = way /\ x.rev = rev /\ x.stmt = 1 /\ x.work = T
        /\ x.locked = {} /\ x.joined = {}
        /\ x = [way |-> x.way, rev |-> x.rev, stmt |-> x.stmt, work |-> x.work,
                locked |-> x.locked, joined |-> x.joined]
    BY <1>1 DEF Begun
  <1>3. ASSUME way \in {"up", "down"}, rev \in Versions PROVE IsTxn(x)
    <2>1. ScriptOf(x) \in Scripts
      BY <1>2, <1>3 DEF ScriptOf, Scripts
    <2>2. Len(ScriptOf(x)) \in Nat
      BY <2>1, StatementsFact
    <2> QED
      BY <1>2, <1>3, <2>2 DEF IsTxn
  <1> QED
    BY <1>1, <1>2, <1>3

LEMMA BegunRunning ==
    ASSUME NEW T, NEW v, Committed(T, v), NEW way, NEW rev \in Versions,
           \/ way = "up" /\ rev = v + 1
           \/ way = "down" /\ rev = v
    PROVE  Running(Begun(way, rev, T), T, v)
  <1>1. PICK x : x = Begun(way, rev, T)
    OBVIOUS
  <1>2. /\ IsTxn(x) /\ x.way = way /\ x.rev = rev /\ x.stmt = 1 /\ x.work = T
    BY <1>1, BegunForm
  <1>3. Len(ScriptOf(x)) \in Nat
    BY <1>2, ScriptForm
  <1>4. BaseOf(x, T, v) = Schema(T)
    BY <1>2 DEF BaseOf
  <1>5. Course(BaseOf(x, T, v), ScriptOf(x))[x.stmt - 1] = Passed(Schema(x.work))
    <2>1. x.stmt - 1 = 0
      BY <1>2
    <2> QED
      BY <1>2, <1>3, <1>4, <2>1, CourseSteps
  <1>6. v \in Int
    BY SchemasFact DEF Committed
  <1>7. IF x.way = "up" THEN x.rev > v ELSE x.rev = v
    BY <1>2, <1>6
  <1> QED
    BY <1>1, <1>2, <1>5, <1>7 DEF Running, Committed

(* What a script that comes to its end leaves.                             *)
LEMMA Ended ==
    ASSUME NEW T, NEW v, Committed(T, v), NEW x, Running(x, T, v),
           x.stmt > Len(ScriptOf(x))
    PROVE  IF x.way = "up" THEN Schema(x.work) = SchemaAt[x.rev]
           ELSE \/ Schema(x.work) = SchemaAt[x.rev - 1]
                \/ x.rev = 15 /\ Schema(x.work) = SchemaAt[15]
  <1>1. PICK script, S, B : /\ script = ScriptOf(x) /\ S = Schema(x.work)
                            /\ B = BaseOf(x, T, v)
    OBVIOUS
  <1>2. Len(script) \in Nat /\ x.stmt - 1 = Len(script)
    BY <1>1, ScriptForm DEF Running
  <1>3. Outcome(B, script) = Passed(S)
    BY <1>1, <1>2 DEF Running, Outcome
  <1>4. Outcome(B, script).ok /\ Outcome(B, script).db = S
    BY <1>3, PassedForm
  <1>5. x.way \in {"up", "down"} /\ x.rev \in 1..18 /\ x.rev \in Versions /\ v \in 0..18
    BY SchemasFact DEF Running, IsTxn, Committed, Versions
  <1>6. CASE x.way = "up"
    <2>1. script = Upgrade[x.rev]
      BY <1>1, <1>6 DEF ScriptOf
    <2>2. CASE B = SchemaAt[x.rev - 1]
      BY <1>3, <1>4, <1>5, <1>6, <2>1, <2>2, UpgradesFact, PassedForm, <1>1
    <2>3. CASE x.rev = 15 /\ B = SchemaAt[15]
      BY <1>4, <2>1, <2>3, DowngradesFact
    <2>4. \/ B = SchemaAt[x.rev - 1]
          \/ x.rev = 15 /\ B = SchemaAt[15]
      <3>1. B = IF x.rev = v + 1 THEN Schema(T) ELSE SchemaAt[x.rev - 1]
        BY <1>1, <1>6 DEF BaseOf
      <3>2. CASE x.rev = v + 1
        <4>1. v = x.rev - 1 /\ B = Schema(T)
          BY <1>5, <3>1, <3>2
        <4> QED
          BY <3>2, <4>1 DEF Committed
      <3> QED
        BY <3>1, <3>2
    <2> QED
      BY <2>2, <2>3, <2>4
  <1>7. CASE x.way = "down"
    <2>1. script = Downgrade[x.rev] /\ B = Schema(T) /\ x.rev = v
      BY <1>1, <1>7 DEF ScriptOf, BaseOf, Running
    <2>2. CASE B = SchemaAt[v] /\ v # 15
      <3>1. x.rev \in Versions \ {15} /\ Outcome(SchemaAt[x.rev], Downgrade[x.rev]).ok
        BY <1>4, <1>5, <2>1, <2>2
      <3>2. Outcome(SchemaAt[x.rev], Downgrade[x.rev]).db = SchemaAt[x.rev - 1]
        BY <3>1, DowngradesFact
      <3> QED
        BY <1>1, <1>4, <1>7, <2>1, <2>2, <3>2
    <2>3. CASE B = SchemaAt[v] /\ v = 15
      <3>1. script = <<>> /\ Len(script) = 0
        BY <2>1, <2>3, DowngradesFact
      <3>2. Outcome(B, script) = Passed(B)
        BY <1>2, <3>1, CourseSteps DEF Outcome
      <3>3. S = B
        BY <1>4, <3>2, PassedForm
      <3> QED
        BY <1>1, <1>7, <2>1, <2>3, <3>3
    <2>4. CASE v = 14 /\ B = SchemaAt[15]
      BY <1>4, <2>1, <2>4, DowngradesFact
    <2> QED
      BY <2>1, <2>2, <2>3, <2>4 DEF Committed
  <1> QED
    BY <1>5, <1>6, <1>7

(* The transaction at the start of the next script.                        *)
Advanced(x) == [x EXCEPT !.rev = @ + 1, !.stmt = 1]

LEMMA AdvancedForm ==
    ASSUME NEW x, IsTxn(x), x.way = "up", x.rev < HeadRevision
    PROVE  /\ IsTxn(Advanced(x))
           /\ Advanced(x).way = "up" /\ Advanced(x).rev = x.rev + 1 /\ Advanced(x).stmt = 1
           /\ Advanced(x).work = x.work /\ Advanced(x).locked = x.locked
           /\ Advanced(x).joined = x.joined
  <1>1. PICK y : y = Advanced(x)
    OBVIOUS
  <1>2. y = [way |-> "up", rev |-> x.rev + 1, stmt |-> 1, work |-> x.work,
             locked |-> x.locked, joined |-> x.joined]
    BY <1>1 DEF IsTxn, Advanced
  <1>3. y.rev \in Versions
    BY <1>2, SchemasFact DEF IsTxn, Versions
  <1>4. ScriptOf(y) \in Scripts
    BY <1>2, <1>3 DEF ScriptOf, Scripts
  <1>5. Len(ScriptOf(y)) \in Nat
    BY <1>4, StatementsFact
  <1>6. IsTxn(y)
    BY <1>2, <1>3, <1>5 DEF IsTxn
  <1> QED
    BY <1>1, <1>2, <1>6

LEMMA AdvancedRunning ==
    ASSUME NEW T, NEW v, Committed(T, v), NEW x, Running(x, T, v), x.way = "up",
           x.stmt > Len(ScriptOf(x)), x.rev < HeadRevision
    PROVE  Running(Advanced(x), T, v)
  <1>1. PICK y : y = Advanced(x)
    OBVIOUS
  <1>2. /\ IsTxn(y) /\ y.way = "up" /\ y.rev = x.rev + 1 /\ y.stmt = 1 /\ y.work = x.work
    BY <1>1, AdvancedForm DEF Running
  <1>3. Schema(x.work) = SchemaAt[x.rev]
    BY Ended
  <1>4. x.rev > v /\ x.rev \in Int /\ v \in Int
    BY SchemasFact DEF Running, IsTxn, Committed, Versions
  <1>5. BaseOf(y, T, v) = Schema(y.work)
    <2>1. y.rev # v + 1 /\ y.rev - 1 = x.rev
      BY <1>2, <1>4
    <2> QED
      BY <1>2, <1>3, <2>1 DEF BaseOf
  <1>6. Course(BaseOf(y, T, v), ScriptOf(y))[y.stmt - 1] = Passed(Schema(y.work))
    <2>1. Len(ScriptOf(y)) \in Nat /\ y.stmt - 1 = 0
      BY <1>2, ScriptForm
    <2> QED
      BY <1>5, <2>1, CourseSteps
  <1>7. IF y.way = "up" THEN y.rev > v ELSE y.rev = v
    BY <1>2, <1>4
  <1> QED
    BY <1>1, <1>2, <1>6, <1>7 DEF Running

(* The version a transaction that comes to its end takes the tables to.    *)
NewVersion(x) == IF x.way = "up" THEN HeadRevision ELSE x.rev - 1

LEMMA CommitCommitted ==
    ASSUME NEW T, NEW v, Committed(T, v), NEW x, Running(x, T, v),
           x.stmt > Len(ScriptOf(x)), x.way = "up" => x.rev = HeadRevision
    PROVE  Committed(x.work, NewVersion(x))
  <1>1. x.way \in {"up", "down"} /\ x.rev \in 1..18 /\ HeadRevision = 18
    BY SchemasFact DEF Running, IsTxn, Versions
  <1>2. IsDatabase(x.work)
    BY DEF Running
  <1>3. CASE x.way = "up"
    <2>1. Schema(x.work) = SchemaAt[x.rev]
      BY <1>3, Ended
    <2> QED
      BY <1>1, <1>2, <1>3, <2>1 DEF Committed, NewVersion
  <1>4. CASE x.way = "down"
    <2>1. \/ Schema(x.work) = SchemaAt[x.rev - 1]
          \/ x.rev = 15 /\ Schema(x.work) = SchemaAt[15]
      BY <1>4, Ended
    <2> QED
      BY <1>1, <1>2, <1>4, <2>1 DEF Committed, NewVersion
  <1> QED
    BY <1>1, <1>3, <1>4

-----------------------------------------------------------------------------
(* A row another process stores. *)

Put(T, t) == [T EXCEPT ![t].full = TRUE]

(* Table new is table old with more rows.                                  *)
Grown(new, old) ==
    /\ new.cols = old.cols /\ new.opt = old.opt /\ new.nulls = old.nulls
    /\ old.full => new.full

(* U is T with a row more in table t.                                      *)
OneMore(T, t, U) ==
    /\ IsDatabase(U) /\ DOMAIN U = DOMAIN T /\ Schema(U) = Schema(T)
    /\ U[t].full
    /\ \A u \in DOMAIN T : Grown(U[u], T[u]) /\ (u # t => U[u] = T[u])

LEMMA PutForm ==
    ASSUME NEW T, IsDatabase(T), NEW t \in DOMAIN T
    PROVE  OneMore(T, t, Put(T, t))
  <1>1. PICK U : U = Put(T, t)
    OBVIOUS
  <1>2. PICK tab : tab = T[t] /\ IsTable(tab)
    BY DEF IsDatabase
  <1>3. PICK new : new = [tab EXCEPT !.full = TRUE]
    OBVIOUS
  <1>4. /\ DOMAIN U = DOMAIN T /\ U = [u \in DOMAIN U |-> U[u]]
        /\ U[t] = new
        /\ \A u \in DOMAIN T : u # t => U[u] = T[u]
    BY <1>1, <1>2, <1>3 DEF Put, IsDatabase
  <1>5. new = [cols |-> tab.cols, opt |-> tab.opt, keys |-> tab.keys, fks |-> tab.fks,
               full |-> TRUE, nulls |-> tab.nulls]
    BY <1>2, <1>3 DEF IsTable
  <1>6. /\ IsTable(new) /\ new.full
        /\ new.cols = tab.cols /\ new.opt = tab.opt /\ new.keys = tab.keys
        /\ new.fks = tab.fks /\ new.nulls = tab.nulls
    BY <1>5 DEF IsTable
  <1>7. Bare(new) = Bare(tab)
    <2>1. Bare(new) = [cols |-> new.cols, opt |-> new.opt, keys |-> new.keys,
                       fks |-> new.fks, full |-> FALSE, nulls |-> {}]
      BY <1>6, BareForm
    <2>2. Bare(tab) = [cols |-> tab.cols, opt |-> tab.opt, keys |-> tab.keys,
                       fks |-> tab.fks, full |-> FALSE, nulls |-> {}]
      BY <1>2, BareForm
    <2> QED
      BY <1>6, <2>1, <2>2
  <1>8. IsDatabase(U)
    BY <1>4, <1>6 DEF IsDatabase
  <1>9. Schema(U) = Schema(T)
    <2>1. \A u \in DOMAIN T : Bare(U[u]) = Bare(T[u])
      BY <1>2, <1>4, <1>7
    <2> QED
      BY <1>4, <2>1, SchemaForm, SchemaIsFunction, SameTables
  <1>10. ASSUME NEW u \in DOMAIN T
         PROVE  Grown(U[u], T[u]) /\ (u # t => U[u] = T[u])
    BY <1>2, <1>4, <1>6 DEF Grown
  <1> QED
    BY <1>1, <1>4, <1>6, <1>8, <1>9, <1>10 DEF OneMore

(* The transaction once it sees the row.                                   *)
Joining(x, t) == [x EXCEPT !.work[t].full = TRUE, !.joined = @ \cup {t}]

LEMMA JoiningForm ==
    ASSUME NEW x, IsTxn(x), NEW t
    PROVE  /\ IsTxn(Joining(x, t)) /\ ScriptOf(Joining(x, t)) = ScriptOf(x)
           /\ Joining(x, t).way = x.way /\ Joining(x, t).rev = x.rev
           /\ Joining(x, t).stmt = x.stmt /\ Joining(x, t).work = Put(x.work, t)
           /\ Joining(x, t).locked = x.locked /\ Joining(x, t).joined = x.joined \cup {t}
  <1>1. PICK y, w : y = Joining(x, t) /\ w = Put(x.work, t)
    OBVIOUS
  <1>2. y = [way |-> x.way, rev |-> x.rev, stmt |-> x.stmt, work |-> w,
             locked |-> x.locked, joined |-> x.joined \cup {t}]
    BY <1>1 DEF IsTxn, Joining, Put
  <1>3. ScriptOf(y) = ScriptOf(x)
    BY <1>2 DEF ScriptOf
  <1>4. IsTxn(y)
    BY <1>2, <1>3 DEF IsTxn
  <1> QED
    BY <1>1, <1>2, <1>3, <1>4

LEMMA PutCommitted ==
    ASSUME NEW T, NEW v, Committed(T, v), NEW t \in DOMAIN T
    PROVE  Committed(Put(T, t), v)
  BY PutForm DEF Committed, OneMore

LEMMA JoiningRunning ==
    ASSUME NEW T, NEW v, Committed(T, v), NEW x, Running(x, T, v),
           NEW t \in DOMAIN T, t \in DOMAIN x.work
    PROVE  Running(Joining(x, t), Put(T, t), v)
  <1>1. PICK y, U : y = Joining(x, t) /\ U = Put(T, t)
    OBVIOUS
  <1>2. /\ IsTxn(y) /\ ScriptOf(y) = ScriptOf(x) /\ y.way = x.way /\ y.rev = x.rev
        /\ y.stmt = x.stmt /\ y.work = Put(x.work, t)
    BY <1>1, JoiningForm DEF Running
  <1>3. IsDatabase(y.work) /\ Schema(y.work) = Schema(x.work)
    BY <1>2, PutForm DEF Running, OneMore
  <1>4. Schema(U) = Schema(T)
    BY <1>1, PutForm DEF Committed, OneMore
  <1>5. BaseOf(y, U, v) = BaseOf(x, T, v)
    BY <1>2, <1>4 DEF BaseOf
  <1> QED
    BY <1>1, <1>2, <1>3, <1>5 DEF Running

-----------------------------------------------------------------------------
(* NULLs. *)

NullsAllowed(tab) ==
    /\ tab.nulls \subseteq tab.opt /\ tab.opt \subseteq tab.cols
    /\ tab.nulls # {} => tab.full

LEMMA AlteredNulls ==
    ASSUME NEW tab, IsTable(tab), NullsAllowed(tab), NEW s, Alters(s),
           s.op = "not_null" => s.arg \notin tab.nulls
    PROVE  NullsAllowed(Altered(tab, s))
  <1>1. PICK new : new = Altered(tab, s)
    OBVIOUS
  <1>2. /\ new.full = IF s.op = "delete" THEN FALSE ELSE tab.full
        /\ new.nulls =
              IF s.op = "add_null" THEN IF tab.full THEN tab.nulls \cup {s.arg} ELSE tab.nulls
              ELSE IF s.op \in {"drop_column", "update"} THEN tab.nulls \ {s.arg}
              ELSE IF s.op = "delete" THEN {} ELSE tab.nulls
        /\ new.opt =
              IF s.op = "add_null" THEN tab.opt \cup {s.arg}
              ELSE IF s.op \in {"drop_column", "not_null"} THEN tab.opt \ {s.arg} ELSE tab.opt
        /\ new.cols =
              IF s.op \in {"add", "add_null"} THEN tab.cols \cup {s.arg}
              ELSE IF s.op = "drop_column" THEN tab.cols \ {s.arg} ELSE tab.cols
    BY <1>1, AlteredForm
  <1>3. new.nulls \subseteq new.opt
    BY <1>2 DEF NullsAllowed
  <1>4. new.opt \subseteq new.cols
    BY <1>2 DEF NullsAllowed
  <1>5. ASSUME new.nulls # {} PROVE new.full
    <2>1. s.op # "delete" /\ tab.full
      BY <1>2, <1>5 DEF NullsAllowed
    <2> QED
      BY <1>2, <2>1
  <1> QED
    BY <1>1, <1>3, <1>4, <1>5 DEF NullsAllowed

LEMMA UnfilledOn ==
    ASSUME NEW script, NEW k \in Nat, NEW t, NEW c, Unfilled(script, k, t, c),
           ~(script[k].op = "update" /\ script[k].table = t /\ script[k].arg = c)
    PROVE  Unfilled(script, k + 1, t, c)
  <1>1. PICK i \in 1..(k - 1) :
           /\ script[i].op = "add_null" /\ script[i].table = t /\ script[i].arg = c
           /\ \A j \in (i + 1)..(k - 1) :
                 ~(script[j].op = "update" /\ script[j].table = t /\ script[j].arg = c)
    BY DEF Unfilled
  <1>2. i \in 1..((k + 1) - 1)
    OBVIOUS
  <1>3. \A j \in (i + 1)..((k + 1) - 1) : j \in (i + 1)..(k - 1) \/ j = k
    OBVIOUS
  <1> QED
    BY <1>1, <1>2, <1>3 DEF Unfilled

LEMMA UnfilledNow ==
    ASSUME NEW script, NEW k \in Nat \ {0}, script[k].op = "add_null"
    PROVE  Unfilled(script, k + 1, script[k].table, script[k].arg)
  <1>1. k \in 1..((k + 1) - 1) /\ (k + 1)..((k + 1) - 1) = {}
    OBVIOUS
  <1> QED
    BY <1>1 DEF Unfilled

LEMMA NothingUnfilled ==
    ASSUME NEW script, NEW k \in Nat, NoneUnfilled(script, k), NEW t, NEW c
    PROVE  ~Unfilled(script, k, t, c)
  <1>1. SUFFICES ASSUME Unfilled(script, k, t, c) PROVE FALSE
    OBVIOUS
  <1>2. PICK i \in 1..(k - 1) : script[i].op = "add_null" /\ script[i].table = t /\ script[i].arg = c
    BY <1>1 DEF Unfilled
  <1> QED
    BY <1>1, <1>2 DEF NoneUnfilled

(* A NULL stands in a column the script has added and not yet filled in.   *)
NullsPassing(x) ==
    \A t \in DOMAIN x.work :
        /\ NullsAllowed(x.work[t])
        /\ \A c \in x.work[t].nulls : Unfilled(ScriptOf(x), x.stmt, t, c)

NoNulls(T) == \A t \in DOMAIN T : T[t].nulls = {} /\ T[t].opt \subseteq T[t].cols

LEMMA NoNullsPassing ==
    ASSUME NEW x, NoNulls(x.work)
    PROVE  NullsPassing(x)
  BY DEF NoNulls, NullsPassing, NullsAllowed

LEMMA NullsPassed ==
    ASSUME NEW x, IsTxn(x), NullsPassing(x), NoneUnfilled(ScriptOf(x), x.stmt)
    PROVE  NoNulls(x.work)
  <1>1. PICK script, k : script = ScriptOf(x) /\ k = x.stmt
    OBVIOUS
  <1>2. k \in Nat
    BY <1>1, ScriptForm
  <1>3. \A t, c : ~Unfilled(script, k, t, c)
    BY <1>1, <1>2, NothingUnfilled
  <1> QED
    BY <1>1, <1>3 DEF NullsPassing, NoNulls, NullsAllowed

LEMMA EndedNulls ==
    ASSUME NEW x, IsTxn(x), NullsPassing(x), x.stmt > Len(ScriptOf(x))
    PROVE  NoNulls(x.work)
  <1>1. PICK script : script = ScriptOf(x)
    OBVIOUS
  <1>2. script \in Scripts /\ x.stmt = Len(script) + 1
    BY <1>1, ScriptForm
  <1>3. NoneUnfilled(script, Len(script) + 1)
    BY <1>2, NullsFact
  <1> QED
    BY <1>1, <1>2, <1>3, NullsPassed

LEMMA ExecutedNulls ==
    ASSUME NEW x, IsTxn(x), IsDatabase(x.work), NullsPassing(x), x.stmt <= Len(ScriptOf(x)),
           Succeeds(x.work, ScriptOf(x)[x.stmt])
    PROVE  NullsPassing(Executed(x))
  <1>1. PICK y : y = Executed(x)
    OBVIOUS
  <1>2. PICK script, k, s, T, U : /\ script = ScriptOf(x) /\ k = x.stmt /\ s = script[k]
                                  /\ T = x.work /\ U = y.work
    OBVIOUS
  <1>3. ScriptOf(y) = script /\ y.stmt = k + 1 /\ U = After(T, s)
    BY <1>1, <1>2, ExecutedForm
  <1>4. k \in 1..Len(script) /\ script \in Scripts /\ IsStatement(s) /\ Len(script) \in Nat
    BY <1>2, ScriptForm
  <1>5. IsDatabase(T) /\ Succeeds(T, s)
    BY <1>2
  <1>6. \A t \in DOMAIN U : TableAfter(T, s, U, t)
    BY <1>3, <1>4, <1>5, AfterEffect DEF Effect
  <1>7. \A t \in DOMAIN T : /\ IsTable(T[t]) /\ NullsAllowed(T[t])
                           /\ \A c \in T[t].nulls : Unfilled(script, k, t, c)
    BY <1>2, <1>5 DEF NullsPassing, IsDatabase
  <1>8. Alters(s) => s.table \in DOMAIN T /\ (s.op = "not_null" => s.arg \notin T[s.table].nulls)
    BY <1>5 DEF Succeeds, Alters, Operations, Has, HasColumn
  <1>9. ASSUME NEW t \in DOMAIN U PROVE NullsAllowed(U[t])
    <2>1. TableAfter(T, s, U, t)
      BY <1>6
    <2>2. CASE NoRows(U[t])
      BY <2>2 DEF NoRows, NullsAllowed
    <2>3. CASE \E u \in DOMAIN T : SameRows(U[t], T[u])
      BY <1>7, <2>3 DEF SameRows, NullsAllowed
    <2>4. CASE Alters(s) /\ t = s.table /\ t \in DOMAIN T /\ U[t] = Altered(T[t], s)
      <3>1. PICK tab : tab = T[t]
        OBVIOUS
      <3>2. IsTable(tab) /\ NullsAllowed(tab) /\ (s.op = "not_null" => s.arg \notin tab.nulls)
        BY <1>7, <1>8, <2>4, <3>1
      <3> QED
        BY <2>4, <3>1, <3>2, AlteredNulls
    <2> QED
      BY <2>1, <2>2, <2>3, <2>4 DEF TableAfter
  <1>10. ASSUME NEW t \in DOMAIN U, NEW c \in U[t].nulls PROVE Unfilled(script, k + 1, t, c)
    <2>1. TableAfter(T, s, U, t)
      BY <1>6
    <2>2. CASE s.op \notin {"add_null", "update", "not_null"}
      <3>1. NoneUnfilled(script, k)
        BY <1>2, <1>4, <2>2, NullsFact
      <3>2. k \in Nat /\ \A u, d : ~Unfilled(script, k, u, d)
        BY <1>4, <3>1, NothingUnfilled
      <3>3. \A u \in DOMAIN T : T[u].nulls = {}
        BY <1>7, <3>2
      <3>4. U[t].nulls = {}
        <4>1. CASE NoRows(U[t])
          BY <4>1 DEF NoRows
        <4>2. CASE \E u \in DOMAIN T : SameRows(U[t], T[u])
          BY <3>3, <4>2 DEF SameRows
        <4>3. CASE Alters(s) /\ t = s.table /\ t \in DOMAIN T /\ U[t] = Altered(T[t], s)
          <5>1. PICK tab : tab = T[t] /\ IsTable(tab) /\ tab.nulls = {}
            BY <1>7, <3>3, <4>3
          <5>2. Altered(tab, s).nulls =
                   IF s.op = "add_null" THEN IF tab.full THEN tab.nulls \cup {s.arg} ELSE tab.nulls
                   ELSE IF s.op \in {"drop_column", "update"} THEN tab.nulls \ {s.arg}
                   ELSE IF s.op = "delete" THEN {} ELSE tab.nulls
            BY <4>3, <5>1, AlteredForm
          <5> QED
            BY <2>2, <4>3, <5>1, <5>2
        <4> QED
          BY <2>1, <4>1, <4>2, <4>3 DEF TableAfter
      <3> QED
        BY <3>4
    <2>3. CASE s.op \in {"add_null", "update", "not_null"}
      <3>1. k \in Nat \ {0}
        BY <1>4
      <3>2. \/ Alters(s) /\ t = s.table /\ t \in DOMAIN T /\ U[t] = Altered(T[t], s)
            \/ t # s.table /\ t \in DOMAIN T /\ SameRows(U[t], T[t])
        BY <2>1, <2>3 DEF TableAfter
      <3>3. \/ c \in T[t].nulls /\ ~(s.op = "update" /\ s.table = t /\ s.arg = c)
            \/ s.op = "add_null" /\ s.table = t /\ s.arg = c
        <4>1. CASE Alters(s) /\ t = s.table /\ t \in DOMAIN T /\ U[t] = Altered(T[t], s)
          <5>1. PICK tab : tab = T[t] /\ IsTable(tab)
            BY <1>7, <4>1
          <5>2. Altered(tab, s).nulls =
                   IF s.op = "add_null" THEN IF tab.full THEN tab.nulls \cup {s.arg} ELSE tab.nulls
                   ELSE IF s.op \in {"drop_column", "update"} THEN tab.nulls \ {s.arg}
                   ELSE IF s.op = "delete" THEN {} ELSE tab.nulls
            BY <4>1, <5>1, AlteredForm
          <5> QED
            BY <2>3, <4>1, <5>1, <5>2
        <4>2. CASE t # s.table /\ t \in DOMAIN T /\ SameRows(U[t], T[t])
          BY <4>2 DEF SameRows
        <4> QED
          BY <3>2, <4>1, <4>2
      <3>4. CASE c \in T[t].nulls /\ ~(s.op = "update" /\ s.table = t /\ s.arg = c)
        <4>1. Unfilled(script, k, t, c)
          BY <1>7, <3>2, <3>4
        <4> QED
          BY <1>2, <3>1, <3>4, <4>1, UnfilledOn
      <3>5. CASE s.op = "add_null" /\ s.table = t /\ s.arg = c
        BY <1>2, <3>1, <3>5, UnfilledNow
      <3> QED
        BY <3>3, <3>4, <3>5
    <2> QED
      BY <2>2, <2>3
  <1>11. \A t \in DOMAIN y.work :
            /\ NullsAllowed(y.work[t])
            /\ \A c \in y.work[t].nulls : Unfilled(ScriptOf(y), y.stmt, t, c)
    BY <1>2, <1>3, <1>9, <1>10
  <1> QED
    BY <1>1, <1>11 DEF NullsPassing

LEMMA JoiningNulls ==
    ASSUME NEW x, IsTxn(x), IsDatabase(x.work), NullsPassing(x), NEW t \in DOMAIN x.work
    PROVE  NullsPassing(Joining(x, t))
  <1>1. PICK y, T, U : y = Joining(x, t) /\ T = x.work /\ U = y.work
    OBVIOUS
  <1>2. /\ ScriptOf(y) = ScriptOf(x) /\ y.stmt = x.stmt /\ U = Put(T, t)
    BY <1>1, JoiningForm
  <1>3. DOMAIN U = DOMAIN T /\ \A u \in DOMAIN T : Grown(U[u], T[u])
    BY <1>1, <1>2, PutForm DEF OneMore
  <1>4. \A u \in DOMAIN T : /\ NullsAllowed(T[u])
                           /\ \A c \in T[u].nulls : Unfilled(ScriptOf(x), x.stmt, u, c)
    BY <1>1 DEF NullsPassing
  <1>5. \A u \in DOMAIN U : /\ NullsAllowed(U[u])
                           /\ \A c \in U[u].nulls : Unfilled(ScriptOf(y), y.stmt, u, c)
    <2> TAKE u \in DOMAIN U
    <2>1. NullsAllowed(T[u]) /\ \A c \in T[u].nulls : Unfilled(ScriptOf(y), y.stmt, u, c)
      BY <1>2, <1>3, <1>4
    <2>2. Grown(U[u], T[u])
      BY <1>3
    <2> QED
      BY <2>1, <2>2 DEF NullsAllowed, Grown
  <1> QED
    BY <1>1, <1>5 DEF NullsPassing

-----------------------------------------------------------------------------
(* Rows. *)

(* No table is missing but those the transaction has locked, and those     *)
(* whose rows must last still have some.                                   *)
RowsKept(x, T) ==
    /\ DOMAIN T \ x.locked \subseteq DOMAIN x.work
    /\ x.way = "up" => \A names \in Lasting : Holds(T, names) => Holds(x.work, names)

EmptiedBy(x) ==
    {ScriptOf(x)[i].table : i \in {j \in 1..(x.stmt - 1) : ScriptOf(x)[j].op = "delete"}}

(* From 016 on the rows of an emptied table are others'.                   *)
OthersRows(x) ==
    x.way = "up" /\ x.rev >= 16 =>
        \A t \in DOMAIN x.work : t \in EmptiedBy(x) /\ x.work[t].full => t \in x.joined

(* The rows a statement leaves where they are.                             *)
LEMMA AlteredFull ==
    ASSUME NEW tab, IsTable(tab), NEW s, Alters(s)
    PROVE  /\ s.op = "delete" => ~Altered(tab, s).full
           /\ s.op # "delete" => (Altered(tab, s).full <=> tab.full)
  <1>1. Altered(tab, s).full = IF s.op = "delete" THEN FALSE ELSE tab.full
    BY AlteredForm
  <1> QED
    BY <1>1

LEMMA ExecutedRows ==
    ASSUME NEW x, IsTxn(x), IsDatabase(x.work), NEW T, RowsKept(x, T),
           x.stmt <= Len(ScriptOf(x)), Succeeds(x.work, ScriptOf(x)[x.stmt])
    PROVE  RowsKept(Executed(x), T)
  <1>1. PICK y : y = Executed(x)
    OBVIOUS
  <1>2. PICK s, W, U : s = ScriptOf(x)[x.stmt] /\ W = x.work /\ U = y.work
    OBVIOUS
  <1>3. y.way = x.way /\ U = After(W, s) /\ y.locked = x.locked \cup Locks(s)
    BY <1>1, <1>2, ExecutedForm
  <1>4. IsStatement(s) /\ IsDatabase(W) /\ Succeeds(W, s)
    BY <1>2, ScriptForm
  <1>5. /\ DOMAIN U = DomainAfter(DOMAIN W, s)
        /\ \A t \in DOMAIN U : TableAfter(W, s, U, t)
    BY <1>3, <1>4, AfterEffect DEF Effect
  <1>6. DOMAIN T \ y.locked \subseteq DOMAIN U
    <2>1. DOMAIN T \ x.locked \subseteq DOMAIN W
      BY <1>2 DEF RowsKept
    <2>2. s.op \in {"drop", "rename"} => Locks(s) = {s.table}
      BY DEF Locks
    <2> QED
      BY <1>3, <1>5, <2>1, <2>2 DEF DomainAfter
  <1>7. ASSUME x.way = "up", NEW names \in Lasting, Holds(W, names) PROVE Holds(U, names)
    <2>1. PICK t \in names \cap DOMAIN W : W[t].full
      BY <1>7 DEF Holds
    <2>2. s.table \in names =>
             s.op # "delete" /\ s.op # "drop" /\ (s.op = "rename" => s.arg \in names)
      <3>1. x.rev \in Versions /\ ScriptOf(x) = Upgrade[x.rev]
        BY <1>7 DEF IsTxn, ScriptOf
      <3>2. x.stmt \in 1..Len(Upgrade[x.rev])
        BY <3>1, ScriptForm
      <3> QED
        BY <1>2, <1>7, <3>1, <3>2, LastingFact
    <2>3. /\ s.op = "create" => s.table \notin DOMAIN W
          /\ s.op = "rename" => s.table \in DOMAIN W /\ s.arg \notin DOMAIN W
      BY <1>4 DEF Succeeds, Has
    <2>4. CASE t # s.table
      <3>1. t \in DOMAIN U
        BY <1>5, <2>4 DEF DomainAfter
      <3>2. TableAfter(W, s, U, t)
        BY <1>5, <3>1
      <3>3. SameRows(U[t], W[t])
        BY <2>3, <2>4, <3>2 DEF TableAfter
      <3> QED
        BY <2>1, <3>1, <3>3 DEF SameRows, Holds
    <2>5. CASE t = s.table /\ s.op = "rename"
      <3>1. s.arg \in DOMAIN U /\ s.arg \in names
        BY <1>5, <2>1, <2>2, <2>5 DEF DomainAfter
      <3>2. TableAfter(W, s, U, s.arg)
        BY <1>5, <3>1
      <3>3. SameRows(U[s.arg], W[t])
        BY <2>3, <2>5, <3>2 DEF TableAfter, Alters, Operations
      <3> QED
        BY <2>1, <3>1, <3>3 DEF SameRows, Holds
    <2>6. CASE t = s.table /\ s.op # "rename"
      <3>1. Alters(s) /\ s.op # "delete"
        BY <1>4, <2>1, <2>2, <2>3, <2>6 DEF Alters, IsStatement
      <3>2. t \in DOMAIN U
        BY <1>5, <2>1, <3>1 DEF DomainAfter, Alters, Operations
      <3>3. TableAfter(W, s, U, t)
        BY <1>5, <3>2
      <3>4. U[t] = Altered(W[t], s)
        BY <2>6, <3>1, <3>3 DEF TableAfter, Alters, Operations
      <3>5. PICK tab : tab = W[t] /\ IsTable(tab)
        BY <1>4, <2>1 DEF IsDatabase
      <3>6. Altered(tab, s).full <=> tab.full
        BY <3>1, <3>5, AlteredFull
      <3> QED
        BY <2>1, <3>2, <3>4, <3>5, <3>6 DEF Holds
    <2> QED
      BY <2>4, <2>5, <2>6
  <1>8. x.way = "up" => \A names \in Lasting : Holds(T, names) => Holds(U, names)
    BY <1>2, <1>7 DEF RowsKept
  <1> QED
    BY <1>1, <1>2, <1>3, <1>6, <1>8 DEF RowsKept

LEMMA ExecutedOthers ==
    ASSUME NEW x, IsTxn(x), IsDatabase(x.work), OthersRows(x), x.stmt <= Len(ScriptOf(x)),
           Succeeds(x.work, ScriptOf(x)[x.stmt])
    PROVE  OthersRows(Executed(x))
  <1>1. PICK y : y = Executed(x)
    OBVIOUS
  <1>2. PICK script, k, s, W, U : /\ script = ScriptOf(x) /\ k = x.stmt /\ s = script[k]
                                  /\ W = x.work /\ U = y.work
    OBVIOUS
  <1>3. /\ y.way = x.way /\ y.rev = x.rev /\ y.stmt = k + 1 /\ U = After(W, s)
        /\ ScriptOf(y) = script /\ y.joined = x.joined
    BY <1>1, <1>2, ExecutedForm
  <1>4. k \in 1..Len(script) /\ IsStatement(s) /\ IsDatabase(W) /\ Succeeds(W, s)
    BY <1>2, ScriptForm
  <1>5. /\ DOMAIN U = DomainAfter(DOMAIN W, s)
        /\ \A t \in DOMAIN U : TableAfter(W, s, U, t)
    BY <1>3, <1>4, AfterEffect DEF Effect
  <1>6. SUFFICES ASSUME x.way = "up", x.rev >= 16, NEW t \in DOMAIN U, t \in EmptiedBy(y),
                        U[t].full
                 PROVE  t \in x.joined
    BY <1>1, <1>2, <1>3 DEF OthersRows
  <1>7. x.rev \in 16..HeadRevision /\ script = Upgrade[x.rev]
    BY <1>2, <1>6, SchemasFact DEF IsTxn, ScriptOf, Versions
  <1>8. Alters(s)
    <2>1. s.op \notin {"create", "drop", "rename"}
      BY <1>2, <1>4, <1>7, EmptyingFact
    <2> QED
      BY <1>4, <2>1 DEF Alters, IsStatement
  <1>9. DOMAIN U = DOMAIN W /\ TableAfter(W, s, U, t)
    BY <1>5, <1>6, <1>8 DEF DomainAfter, Alters, Operations
  <1>10. W[t].full /\ ~(s.op = "delete" /\ s.table = t)
    <2>1. CASE t = s.table
      <3>1. U[t] = Altered(W[t], s)
        BY <1>8, <1>9, <2>1 DEF TableAfter, Alters, Operations
      <3>2. PICK tab : tab = W[t] /\ IsTable(tab)
        BY <1>4, <1>6, <1>9 DEF IsDatabase
      <3>3. /\ s.op = "delete" => ~Altered(tab, s).full
            /\ s.op # "delete" => (Altered(tab, s).full <=> tab.full)
        BY <1>8, <3>2, AlteredFull
      <3> QED
        BY <1>6, <3>1, <3>2, <3>3
    <2>2. CASE t # s.table
      <3>1. SameRows(U[t], W[t])
        BY <1>8, <1>9, <2>2 DEF TableAfter, Alters, Operations
      <3> QED
        BY <1>6, <2>2, <3>1 DEF SameRows
    <2> QED
      BY <2>1, <2>2
  <1>11. t \in EmptiedBy(x)
    <2>1. PICK i \in 1..((k + 1) - 1) : script[i].op = "delete" /\ script[i].table = t
      BY <1>3, <1>6 DEF EmptiedBy
    <2>2. i # k
      BY <1>2, <1>10, <2>1
    <2>3. i \in 1..(k - 1)
      BY <1>4, <2>1, <2>2
    <2> QED
      BY <1>2, <2>1, <2>3 DEF EmptiedBy
  <1> QED
    BY <1>2, <1>6, <1>9, <1>10, <1>11 DEF OthersRows

LEMMA JoiningRows ==
    ASSUME NEW x, IsTxn(x), IsDatabase(x.work), NEW T, IsDatabase(T), RowsKept(x, T),
           NEW t \in DOMAIN T, t \in DOMAIN x.work
    PROVE  RowsKept(Joining(x, t), Put(T, t))
  <1>1. PICK y, W, U, R : /\ y = Joining(x, t) /\ W = x.work /\ U = y.work /\ R = Put(T, t)
    OBVIOUS
  <1>2. y.way = x.way /\ y.locked = x.locked /\ U = Put(W, t)
    BY <1>1, JoiningForm
  <1>3. /\ DOMAIN U = DOMAIN W /\ U[t].full
        /\ \A u \in DOMAIN W : Grown(U[u], W[u])
    BY <1>1, <1>2, PutForm DEF OneMore
  <1>4. DOMAIN R = DOMAIN T /\ \A u \in DOMAIN T : u # t => R[u] = T[u]
    BY <1>1, PutForm DEF OneMore
  <1>5. DOMAIN R \ y.locked \subseteq DOMAIN U
    BY <1>1, <1>2, <1>3, <1>4 DEF RowsKept
  <1>6. ASSUME x.way = "up", NEW names \in Lasting, Holds(R, names) PROVE Holds(U, names)
    <2>1. PICK u \in names \cap DOMAIN R : R[u].full
      BY <1>6 DEF Holds
    <2>2. CASE u = t
      BY <1>1, <1>3, <2>1, <2>2 DEF Holds
    <2>3. CASE u # t
      <3>1. Holds(T, names)
        BY <1>4, <2>1, <2>3 DEF Holds
      <3>2. PICK w \in names \cap DOMAIN W : W[w].full
        BY <1>1, <1>6, <3>1 DEF RowsKept, Holds
      <3>3. U[w].full
        BY <1>3, <3>2 DEF Grown
      <3> QED
        BY <1>3, <3>2, <3>3 DEF Holds
    <2> QED
      BY <2>2, <2>3
  <1> QED
    BY <1>1, <1>2, <1>5, <1>6 DEF RowsKept

LEMMA JoiningOthers ==
    ASSUME NEW x, IsTxn(x), IsDatabase(x.work), OthersRows(x), NEW t \in DOMAIN x.work
    PROVE  OthersRows(Joining(x, t))
  <1>1. PICK y, W, U : /\ y = Joining(x, t) /\ W = x.work /\ U = y.work
    OBVIOUS
  <1>2. /\ y.way = x.way /\ y.rev = x.rev /\ U = Put(W, t) /\ y.joined = x.joined \cup {t}
        /\ y.stmt = x.stmt /\ ScriptOf(y) = ScriptOf(x)
    BY <1>1, JoiningForm
  <1>3. DOMAIN U = DOMAIN W /\ \A u \in DOMAIN W : u # t => U[u] = W[u]
    BY <1>1, <1>2, PutForm DEF OneMore
  <1>4. EmptiedBy(y) = EmptiedBy(x)
    BY <1>2 DEF EmptiedBy
  <1> QED
    BY <1>1, <1>2, <1>3, <1>4 DEF OthersRows

-----------------------------------------------------------------------------
(* The invariant. *)

Transaction(x, T, v) ==
    /\ Running(x, T, v)
    /\ NullsPassing(x)
    /\ RowsKept(x, T)
    /\ OthersRows(x)

Inv ==
    /\ Committed(tables, version) /\ NoNulls(tables)
    /\ txn = NoTxn \/ Transaction(txn, tables, version)
    /\ inserts \in 0..MaxInserts /\ downgrades \in 0..MaxDowngrades

LEMMA InitInv == Init => Inv
  <1> SUFFICES ASSUME Init PROVE Inv
    OBVIOUS
  <1>1. version \in 0..HeadRevision
    BY MigrationsAssumption DEF Init, HeadRevision
  <1>2. PICK S : S = SchemaAt[version]
    OBVIOUS
  <1>3. /\ IsDatabase(S)
        /\ \A t \in DOMAIN S : S[t].full = FALSE /\ S[t].nulls = {} /\ S[t].opt \subseteq S[t].cols
    BY <1>1, <1>2, SchemasFact
  <1>4. PICK full : tables = [t \in DOMAIN S |-> [S[t] EXCEPT !.full = t \in full]]
    BY <1>2 DEF Init
  <1>5. ASSUME NEW t \in DOMAIN S
        PROVE  /\ IsTable(tables[t]) /\ Bare(tables[t]) = S[t]
               /\ tables[t].nulls = {} /\ tables[t].opt \subseteq tables[t].cols
    <2>1. PICK tab : tab = S[t] /\ IsTable(tab) /\ tab.full = FALSE /\ tab.nulls = {}
                     /\ tab.opt \subseteq tab.cols
      BY <1>3 DEF IsDatabase
    <2>2. (t \in full) \in BOOLEAN
      OBVIOUS
    <2>3. PICK new : new = [tab EXCEPT !.full = t \in full]
      OBVIOUS
    <2>4. tables[t] = new
      BY <1>4, <2>1, <2>3
    <2>5. new = [cols |-> tab.cols, opt |-> tab.opt, keys |-> tab.keys, fks |-> tab.fks,
                 full |-> t \in full, nulls |-> {}]
      BY <2>1, <2>2, <2>3 DEF IsTable
    <2>6. /\ IsTable(new) /\ new.cols = tab.cols /\ new.opt = tab.opt /\ new.keys = tab.keys
          /\ new.fks = tab.fks /\ new.nulls = {}
      BY <2>5 DEF IsTable
    <2>7. Bare(new) = [cols |-> new.cols, opt |-> new.opt, keys |-> new.keys,
                       fks |-> new.fks, full |-> FALSE, nulls |-> {}]
      BY <2>6, BareForm
    <2>8. Bare(new) = tab
      BY <2>1, <2>6, <2>7 DEF IsTable
    <2> QED
      BY <2>1, <2>4, <2>6, <2>8
  <1>6. DOMAIN tables = DOMAIN S /\ tables = [t \in DOMAIN tables |-> tables[t]]
    BY <1>4
  <1>7. IsDatabase(tables) /\ NoNulls(tables)
    BY <1>5, <1>6 DEF IsDatabase, NoNulls
  <1>8. Schema(tables) = S
    BY <1>3, <1>5, <1>6, SchemaForm, SchemaIsFunction, SameTables DEF IsDatabase
  <1> QED
    BY <1>1, <1>2, <1>7, <1>8, MigrationsAssumption DEF Init, Inv, Committed

LEMMA BegunTransaction ==
    ASSUME NEW T, NEW v, Committed(T, v), NoNulls(T), NEW way, NEW rev \in Versions,
           \/ way = "up" /\ rev = v + 1
           \/ way = "down" /\ rev = v
    PROVE  Transaction(Begun(way, rev, T), T, v)
  <1>1. PICK x : x = Begun(way, rev, T)
    OBVIOUS
  <1>2. x.work = T /\ x.stmt = 1 /\ x.locked = {}
    BY <1>1, BegunForm
  <1>3. Running(x, T, v)
    BY <1>1, BegunRunning
  <1>4. NullsPassing(x)
    BY <1>2, NoNullsPassing
  <1>5. RowsKept(x, T)
    BY <1>2 DEF RowsKept
  <1>6. OthersRows(x)
    <2>1. 1..(x.stmt - 1) = {}
      BY <1>2
    <2> QED
      BY <2>1 DEF OthersRows, EmptiedBy
  <1> QED
    BY <1>1, <1>3, <1>4, <1>5, <1>6 DEF Transaction

LEMMA ExecutedTransaction ==
    ASSUME NEW x, NEW T, NEW v, Transaction(x, T, v), x.stmt <= Len(ScriptOf(x)),
           Succeeds(x.work, ScriptOf(x)[x.stmt])
    PROVE  Transaction(Executed(x), T, v)
  <1>1. Running(x, T, v) /\ IsTxn(x) /\ IsDatabase(x.work)
    BY DEF Transaction, Running
  <1>2. NullsPassing(x) /\ RowsKept(x, T) /\ OthersRows(x)
    BY DEF Transaction
  <1> QED
    BY <1>1, <1>2, ExecutedRunning, ExecutedNulls, ExecutedRows, ExecutedOthers DEF Transaction

LEMMA AdvancedTransaction ==
    ASSUME NEW T, NEW v, Committed(T, v), NEW x, Transaction(x, T, v), x.way = "up",
           x.stmt > Len(ScriptOf(x)), x.rev < HeadRevision
    PROVE  Transaction(Advanced(x), T, v)
  <1>1. PICK y : y = Advanced(x)
    OBVIOUS
  <1>2. Running(x, T, v) /\ IsTxn(x)
    BY DEF Transaction, Running
  <1>3. /\ y.way = "up" /\ y.stmt = 1 /\ y.work = x.work /\ y.locked = x.locked
    BY <1>1, <1>2, AdvancedForm
  <1>4. Running(y, T, v)
    BY <1>1, <1>2, AdvancedRunning
  <1>5. NullsPassing(y)
    <2>1. NoNulls(x.work)
      BY <1>2, EndedNulls DEF Transaction
    <2> QED
      BY <1>3, <2>1, NoNullsPassing
  <1>6. RowsKept(y, T)
    BY <1>3 DEF RowsKept, Transaction
  <1>7. OthersRows(y)
    <2>1. 1..(y.stmt - 1) = {}
      BY <1>3
    <2> QED
      BY <2>1 DEF OthersRows, EmptiedBy
  <1> QED
    BY <1>1, <1>4, <1>5, <1>6, <1>7 DEF Transaction

LEMMA JoiningTransaction ==
    ASSUME NEW T, NEW v, Committed(T, v), NEW x, Transaction(x, T, v), NEW t \in DOMAIN T,
           t \notin x.locked
    PROVE  Transaction(Joining(x, t), Put(T, t), v)
  <1>1. Running(x, T, v) /\ IsTxn(x) /\ IsDatabase(x.work) /\ IsDatabase(T)
    BY DEF Transaction, Running, Committed
  <1>2. NullsPassing(x) /\ RowsKept(x, T) /\ OthersRows(x)
    BY DEF Transaction
  <1>3. t \in DOMAIN x.work
    BY <1>2 DEF RowsKept
  <1> QED
    BY <1>1, <1>2, <1>3, JoiningRunning, JoiningNulls, JoiningRows, JoiningOthers DEF Transaction

LEMMA Scripted == Script = ScriptOf(txn) /\ Statement = ScriptOf(txn)[txn.stmt]
  BY DEF Script, ScriptOf, Statement

LEMMA NextInv == Inv /\ [Next]_vars => Inv'
  <1> SUFFICES ASSUME Inv, [Next]_vars PROVE Inv'
    OBVIOUS
  <1>1. /\ Committed(tables, version) /\ NoNulls(tables)
        /\ txn = NoTxn \/ Transaction(txn, tables, version)
        /\ inserts \in 0..MaxInserts /\ downgrades \in 0..MaxDowngrades
        /\ MaxInserts \in Nat /\ MaxDowngrades \in Nat
        /\ version \in 0..HeadRevision /\ HeadRevision \in Nat
    BY MigrationsAssumption, SchemasFact DEF Inv, Committed
  <1>2. CASE UpgradeHead
    <2>1. version + 1 \in Versions
      BY <1>1, <1>2 DEF UpgradeHead, Versions
    <2>2. txn' = Begun("up", version + 1, tables)
      BY <1>2 DEF UpgradeHead, Begin, Begun
    <2>3. Transaction(txn', tables, version)
      BY <1>1, <2>1, <2>2, BegunTransaction
    <2> QED
      BY <1>1, <1>2, <2>3 DEF UpgradeHead, Inv
  <1>3. CASE DowngradeOne
    <2>1. version \in Versions
      BY <1>1, <1>3 DEF DowngradeOne, Versions
    <2>2. txn' = Begun("down", version, tables)
      BY <1>3 DEF DowngradeOne, Begin, Begun
    <2>3. Transaction(txn', tables, version)
      BY <1>1, <2>1, <2>2, BegunTransaction
    <2>4. downgrades' \in 0..MaxDowngrades
      BY <1>1, <1>3 DEF DowngradeOne
    <2> QED
      BY <1>1, <1>3, <2>3, <2>4 DEF DowngradeOne, Inv
  <1>4. CASE Execute
    <2>1. /\ txn # NoTxn /\ txn.stmt <= Len(ScriptOf(txn))
          /\ Succeeds(txn.work, ScriptOf(txn)[txn.stmt])
      BY <1>4, Scripted DEF Execute, AtStatement
    <2>2. txn' = Executed(txn)
      BY <1>4, Scripted DEF Execute, Executed
    <2>3. Transaction(txn', tables, version)
      BY <1>1, <2>1, <2>2, ExecutedTransaction
    <2> QED
      BY <1>1, <1>4, <2>3 DEF Execute, Inv
  <1>5. CASE NextScript
    <2>1. /\ txn # NoTxn /\ txn.way = "up" /\ txn.rev < HeadRevision
          /\ txn.stmt > Len(ScriptOf(txn))
      BY <1>5, Scripted DEF NextScript, ScriptDone
    <2>2. txn' = Advanced(txn)
      BY <1>5 DEF NextScript, Advanced
    <2>3. Transaction(txn', tables, version)
      BY <1>1, <2>1, <2>2, AdvancedTransaction
    <2> QED
      BY <1>1, <1>5, <2>3 DEF NextScript, Inv
  <1>6. CASE Commit
    <2>1. /\ txn # NoTxn /\ txn.stmt > Len(ScriptOf(txn))
          /\ txn.way = "up" => txn.rev = HeadRevision
      BY <1>6, Scripted DEF Commit, ScriptDone
    <2>2. Running(txn, tables, version) /\ IsTxn(txn) /\ NullsPassing(txn)
      BY <1>1, <2>1 DEF Transaction, Running
    <2>3. Committed(txn.work, NewVersion(txn))
      BY <1>1, <2>1, <2>2, CommitCommitted
    <2>4. NoNulls(txn.work)
      BY <2>1, <2>2, EndedNulls
    <2>5. version' = NewVersion(txn) /\ tables' = txn.work /\ txn' = NoTxn
      BY <1>6 DEF Commit, NewVersion
    <2> QED
      BY <1>1, <1>6, <2>3, <2>4, <2>5 DEF Commit, Inv
  <1>7. CASE Rollback \/ Killed
    BY <1>1, <1>7 DEF Rollback, Killed, Inv
  <1>8. ASSUME NEW t \in DOMAIN tables, Insert(t) PROVE Inv'
    <2>1. tables' = Put(tables, t) /\ version' = version
      BY <1>8 DEF Insert, Put
    <2>2. Committed(tables', version')
      BY <1>1, <2>1, PutCommitted
    <2>3. NoNulls(tables')
      <3>1. OneMore(tables, t, tables')
        BY <1>1, <2>1, PutForm DEF Committed
      <3> QED
        BY <1>1, <3>1 DEF OneMore, NoNulls, Grown
    <2>4. txn' = NoTxn \/ Transaction(txn', tables', version')
      <3>1. CASE txn = NoTxn
        BY <1>8, <3>1 DEF Insert
      <3>2. CASE txn # NoTxn
        <4>1. t \notin txn.locked /\ txn' = Joining(txn, t)
          BY <1>8, <3>2 DEF Insert, Joining
        <4>2. Transaction(Joining(txn, t), Put(tables, t), version)
          BY <1>1, <3>2, <4>1, JoiningTransaction
        <4> QED
          BY <2>1, <4>1, <4>2
      <3> QED
        BY <3>1, <3>2
    <2>5. inserts' \in 0..MaxInserts /\ downgrades' = downgrades
      BY <1>1, <1>8 DEF Insert
    <2> QED
      BY <1>1, <2>2, <2>3, <2>4, <2>5 DEF Inv
  <1>9. CASE UNCHANGED vars
    BY <1>1, <1>9 DEF vars, Inv
  <1> QED
    BY <1>2, <1>3, <1>4, <1>5, <1>6, <1>7, <1>8, <1>9 DEF Next

LEMMA InvAlways == Spec => []Inv
  BY InitInv, NextInv, PTL DEF Spec

-----------------------------------------------------------------------------
(* The theorems. *)

LEMMA InvTypes == Inv => TypeOK
  <1> SUFFICES ASSUME Inv PROVE TypeOK
    OBVIOUS
  <1>1. /\ version \in 0..HeadRevision /\ NoNulls(tables)
        /\ txn = NoTxn \/ NullsPassing(txn)
        /\ inserts \in 0..MaxInserts /\ downgrades \in 0..MaxDowngrades
    BY DEF Inv, Committed, Transaction
  <1>2. ASSUME NEW T \in {tables} \cup (IF txn = NoTxn THEN {} ELSE {txn.work}),
               NEW t \in DOMAIN T
        PROVE  NullsAllowed(T[t])
    BY <1>1, <1>2 DEF NoNulls, NullsPassing, NullsAllowed
  <1> QED
    BY <1>1, <1>2 DEF TypeOK, NullsAllowed

(* A row is NULL only where it may be, also half way through a migration,  *)
(* and the version is one there is.                                        *)
THEOREM MigrationsTypeCorrect == Spec => []TypeOK
  BY InvAlways, InvTypes, PTL

LEMMA InvSchema == Inv => SchemaOfRevision
  BY DEF Inv, Committed, SchemaOfRevision, Stale

(* However migrations fail, are killed or are interleaved with inserts,    *)
(* the database has the schema of the version it stands at, or that of 015 *)
(* after its downgrade, which takes back the number only.                  *)
THEOREM SchemaKept == Spec => []SchemaOfRevision
  BY InvAlways, InvSchema, PTL

LEMMA InvModels == Inv => HeadServesModels
  <1> SUFFICES ASSUME Inv, version = HeadRevision PROVE
                  [t \in DOMAIN tables |->
                     [cols |-> tables[t].cols, opt |-> tables[t].opt,
                      unique |-> {tables[t].keys[k] : k \in DOMAIN tables[t].keys}]] = Models
    BY DEF HeadServesModels
  <1>1. PICK S : S = SchemaAt[HeadRevision]
    OBVIOUS
  <1>2. Schema(tables) = S /\ IsDatabase(tables)
    BY <1>1, SchemasFact DEF Inv, Committed
  <1>3. DOMAIN S = DOMAIN tables /\ \A t \in DOMAIN tables : S[t] = Bare(tables[t])
    BY <1>2, SchemaForm
  <1>4. \A t \in DOMAIN tables : /\ S[t].cols = tables[t].cols /\ S[t].opt = tables[t].opt
                                /\ S[t].keys = tables[t].keys
    <2> TAKE t \in DOMAIN tables
    <2>1. PICK tab : tab = tables[t] /\ IsTable(tab)
      BY <1>2 DEF IsDatabase
    <2>2. Bare(tab).cols = tab.cols /\ Bare(tab).opt = tab.opt /\ Bare(tab).keys = tab.keys
      BY <2>1, BareForm
    <2> QED
      BY <1>3, <2>1, <2>2
  <1> DEFINE Declared(tab) == [cols |-> tab.cols, opt |-> tab.opt,
                               unique |-> {tab.keys[k] : k \in DOMAIN tab.keys}]
  <1>5. [t \in DOMAIN S |-> Declared(S[t])] = Models
    BY <1>1, ModelsFact
  <1>6. \A t \in DOMAIN tables : Declared(S[t]) = Declared(tables[t])
    BY <1>4
  <1> HIDE DEF Declared
  <1>7. [t \in DOMAIN tables |-> Declared(tables[t])] = [t \in DOMAIN S |-> Declared(S[t])]
    BY <1>3, <1>6
  <1> QED
    BY <1>5, <1>7 DEF Declared

(* At the head the tables are the ones the ORM models declare.             *)
THEOREM ModelsServed == Spec => []HeadServesModels
  BY InvAlways, InvModels, PTL

(* An upgrade from the schema of a revision fails for rows only, never for *)
(* a name, and not for a NULL.                                             *)
LEMMA BlockedUpgrade ==
    ASSUME Inv, Blocked, txn.way = "up", ~Stale
    PROVE  /\ Statement.op = "add"
           /\ Statement.table \in DOMAIN txn.work /\ txn.work[Statement.table].full
  <1>1. PICK x, script, s, B : /\ x = txn /\ script = ScriptOf(x) /\ s = script[x.stmt]
                               /\ B = BaseOf(x, tables, version)
    OBVIOUS
  <1>2. x # NoTxn /\ x.stmt <= Len(script) /\ ~Succeeds(x.work, s) /\ Statement = s
    BY <1>1, Scripted DEF Blocked, AtStatement
  <1>3. /\ Running(x, tables, version) /\ NullsPassing(x) /\ IsTxn(x) /\ IsDatabase(x.work)
    BY <1>1, <1>2 DEF Inv, Transaction, Running
  <1>4. x.stmt \in 1..Len(script) /\ Len(script) \in Nat /\ script \in Scripts
    BY <1>1, <1>2, <1>3, ScriptForm
  <1>5. x.rev \in Versions /\ x.rev \in Int /\ version \in Int /\ script = Upgrade[x.rev]
    BY <1>1, <1>3, SchemasFact DEF IsTxn, ScriptOf, Versions, Inv, Committed
  <1>6. B = SchemaAt[x.rev - 1]
    <2>1. Schema(tables) = SchemaAt[version]
      BY DEF Inv, Committed, Stale
    <2>2. B = IF x.rev = version + 1 THEN Schema(tables) ELSE SchemaAt[x.rev - 1]
      BY <1>1 DEF BaseOf
    <2>3. x.rev = version + 1 => x.rev - 1 = version
      BY <1>5
    <2> QED
      BY <2>1, <2>2, <2>3
  <1>7. Succeeds(Schema(x.work), s)
    <2>1. Outcome(B, script).ok
      BY <1>5, <1>6, UpgradesFact, PassedForm
    <2>2. Succeeds(Course(B, script)[x.stmt - 1].db, s)
      BY <1>1, <1>4, <2>1, NoErrorBefore
    <2>3. Course(B, script)[x.stmt - 1] = Passed(Schema(x.work))
      BY <1>1, <1>3 DEF Running
    <2> QED
      BY <2>2, <2>3, PassedForm
  <1>8. /\ s.table \in DOMAIN x.work
        /\ \/ s.op = "add" /\ x.work[s.table].full
           \/ s.op = "not_null" /\ s.arg \in x.work[s.table].nulls
    BY <1>2, <1>3, <1>7, FailsForRows
  <1>9. ~(s.op = "not_null" /\ s.arg \in x.work[s.table].nulls)
    <2>1. SUFFICES ASSUME s.op = "not_null", s.arg \in x.work[s.table].nulls PROVE FALSE
      OBVIOUS
    <2>2. Unfilled(script, x.stmt, s.table, s.arg)
      BY <1>1, <1>3, <1>8, <2>1 DEF NullsPassing
    <2>3. ~Unfilled(script, x.stmt, s.table, s.arg)
      BY <1>1, <1>4, <2>1, NullsFact
    <2> QED
      BY <2>2, <2>3
  <1> QED
    BY <1>1, <1>2, <1>8, <1>9

(* The one error an upgrade can meet is a required column for a table that *)
(* has rows.                                                               *)
THEOREM UpgradesMeetRowsOnly == Spec => []BlockedByRowsOnly
  <1>1. Inv => BlockedByRowsOnly
    BY BlockedUpgrade DEF BlockedByRowsOnly
  <1> QED
    BY <1>1, InvAlways, PTL

LEMMA InvOthersOnly == Inv => BlockedByOthersOnly
  <1> SUFFICES ASSUME Inv, Blocked, txn.way = "up", version >= 15
               PROVE  Statement.table \in txn.joined /\ Statement.table \in Emptied
    BY DEF BlockedByOthersOnly
  <1>1. PICK x, script, s : x = txn /\ script = ScriptOf(x) /\ s = script[x.stmt]
    OBVIOUS
  <1>2. x # NoTxn /\ x.stmt <= Len(script) /\ ~Succeeds(x.work, s) /\ Statement = s
    BY <1>1, Scripted DEF Blocked, AtStatement
  <1>3. s.op = "add" /\ s.table \in DOMAIN x.work /\ x.work[s.table].full
    <2>1. ~Stale
      BY DEF Stale
    <2> QED
      BY <1>1, <1>2, <2>1, BlockedUpgrade
  <1>4. /\ Running(x, tables, version) /\ OthersRows(x) /\ IsTxn(x)
    BY <1>1, <1>2 DEF Inv, Transaction, Running
  <1>5. x.stmt \in 1..Len(script)
    BY <1>1, <1>2, <1>4, ScriptForm
  <1>6. x.rev \in 16..HeadRevision /\ script = Upgrade[x.rev]
    <2>1. x.rev > version /\ version \in Int /\ x.rev \in 1..HeadRevision
      BY <1>1, <1>4, SchemasFact DEF Running, IsTxn, Versions, Inv, Committed
    <2> QED
      BY <1>1, <2>1, SchemasFact DEF ScriptOf
  <1>7. s.table \in EmptiedBy(x)
    <2>1. PICK j \in 1..(x.stmt - 1) : script[j].op = "delete" /\ script[j].table = s.table
      BY <1>1, <1>3, <1>5, <1>6, EmptyingFact
    <2> QED
      BY <1>1, <2>1 DEF EmptiedBy
  <1>8. Emptied = EmptiedBy(x)
    BY <1>1, Scripted DEF Emptied, EmptiedBy
  <1> QED
    BY <1>1, <1>2, <1>3, <1>4, <1>6, <1>7, <1>8 DEF OthersRows

(* From 015 on it is only ever a row another process has put into a table  *)
(* between its deletion and its change.                                    *)
THEOREM UpgradesMeetOthersOnly == Spec => []BlockedByOthersOnly
  BY InvAlways, InvOthersOnly, PTL

LEMMA StepKeepsRows ==
    Inv /\ [Next]_vars =>
        (txn.way = "up" =>
            \A names \in {{"api_keys"}, {"miner_discovery", "miner_discoveries"}} :
                Holds(tables, names) => Holds(tables', names))
  <1> SUFFICES ASSUME Inv, [Next]_vars, txn.way = "up", NEW names \in Lasting,
                      Holds(tables, names)
               PROVE  Holds(tables', names)
    BY DEF Lasting
  <1>1. txn # NoTxn /\ RowsKept(txn, tables)
    BY DEF NoTxn, Inv, Transaction
  <1>2. CASE Commit
    BY <1>1, <1>2 DEF Commit, RowsKept
  <1>3. CASE UNCHANGED tables
    BY <1>3
  <1>4. ASSUME NEW t \in DOMAIN tables, Insert(t) PROVE Holds(tables', names)
    <2>1. tables' = Put(tables, t)
      BY <1>4 DEF Insert, Put
    <2>2. OneMore(tables, t, tables')
      BY <2>1, PutForm DEF Inv, Committed
    <2> QED
      BY <2>2 DEF OneMore, Grown, Holds
  <1> QED
    BY <1>1, <1>2, <1>3, <1>4
       DEF Next, UpgradeHead, DowngradeOne, Execute, NextScript, Rollback, Killed, vars

(* No upgrade costs the api keys or the miners their rows, however often   *)
(* their tables are renamed.                                               *)
THEOREM RowsSurviveUpgrades == Spec => UpgradeKeepsRows
  BY InvAlways, StepKeepsRows, PTL DEF Spec, UpgradeKeepsRows
=============================================================================
