-------------------------------- MODULE MCRdb --------------------------------
(* Rdb on two keys and on strings of every encoding. *)
EXTENDS Rdb

\* Texts behind a 6-bit, a 14-bit and a 32-bit length.
MCLength == (Text("a") :> 1) @@ (Text("long") :> 300) @@ (Text("huge") :> 16384)

\* Between them the keys and the values use every encoding of a string.
MCKeys == {Text("long"), IntText(-5)}
MCStrings == {Text("a"), Text("huge"), IntText(-300), IntText(70000)}

\* No file; a file with metadata, as the comments of rdb_save_data_to_file
\* foresee it, and an expiration in seconds; one as Redis writes it, where each
\* pair of the metadata has an opcode of its own.
MCMetadata == write_rdb_string(Text("a")) \o write_rdb_string(Text("a"))
MCForeignPair == write_rdb_string(Text("long")) \o write_rdb_string(Text("huge"))
MCForeignTable ==
    B(<<TABLE, 1, 1, EXPIRE_S>>) \o <<<<"s", 2>>>> \o B(<<TYPE_STRING>>) \o MCForeignPair
      \o B(<<END>>)
MCInitialFiles ==
    {<<>>,
     <<Magic>> \o B(<<META>>) \o MCMetadata \o B(<<SELECT>>) \o MCForeignTable,
     <<Magic>> \o B(<<META>>) \o MCMetadata \o B(<<META>>) \o MCMetadata
        \o B(<<SELECT, 0>>) \o MCForeignTable}
==============================================================================
