---------------------------- MODULE MCSqlOutputs ----------------------------
EXTENDS SqlOutputs

TwoPairs == {"a-b", "a-c"}

Sqlite == [output |-> "sqlite", fileBy |-> {"test"}, tableBy |-> {"test"},
           autoCreate |-> FALSE]
SqliteDefault == [Sqlite EXCEPT !.tableBy = {"test", "pair"}]
Mysql  == [output |-> "mysql", fileBy |-> {}, tableBy |-> {"test", "pair"},
           autoCreate |-> FALSE]
MysqlCreating == [Mysql EXCEPT !.autoCreate = TRUE]

\* One table for everything, as docs/outputs/sql-based.md has it.
OneTable == [Sqlite EXCEPT !.fileBy = {}, !.tableBy = {}]

AllConfigs  == {Sqlite, SqliteDefault, Mysql, MysqlCreating, OneTable}
=============================================================================
