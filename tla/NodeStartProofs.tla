--------------------------- MODULE NodeStartProofs ---------------------------
(* NodeStart for every set of hashes and keys and any number of starts:    *)
(* the schema is current once the repository is open, the database reads   *)
(* as it was saved, and a node has one key and one certificate.            *)
EXTENDS NodeStart, FiniteSetTheorems, TLAPS

-----------------------------------------------------------------------------
(* The schema *)

(* What the migrations consist of, statement by statement.                 *)
LEMMA Statements ==
    /\ CURRENT_SCHEMA_VERSION = 4
    /\ Len(MIGRATIONS[1]) = 1 /\ Len(MIGRATIONS[2]) = 1
    /\ Len(MIGRATIONS[3]) = 1 /\ Len(MIGRATIONS[4]) = 3
    /\ MIGRATIONS[1][1] = [do |-> "create", column |-> "content_hash", value |-> ""]
    /\ MIGRATIONS[2][1] = [do |-> "add", column |-> "signer_public_key", value |-> ""]
    /\ MIGRATIONS[3][1] = [do |-> "backfill", column |-> "signer_public_key", value |-> ""]
    /\ MIGRATIONS[4][1] = [do |-> "add", column |-> "blob_pointer_scheme", value |-> ""]
    /\ MIGRATIONS[4][2] = [do |-> "add", column |-> "blob_pointer_bucket_ref", value |-> ""]
    /\ MIGRATIONS[4][3] = [do |-> "backfill", column |-> "blob_pointer_scheme",
                           value |-> "local-filesystem"]
BY DEF CURRENT_SCHEMA_VERSION, MIGRATIONS

(* The types of the state, whatever the process is doing.                  *)
Typed ==
    /\ user_version \in 0..4 /\ columns \subseteq Column
    /\ rows \in [Hash -> Row \cup {NoRow}] /\ saved \in [Hash -> Token \cup {NoToken}]
    /\ identityFile \in Key \cup {"absent", "partial"}
    /\ tls \in [key : Key \cup {"absent"}, cert : Key \cup {"absent"}]
    /\ process \in {"down", "migrating", "created", "starting", "serving", "stopping"}
    /\ migration \in (1..5) \X (1..4)
    /\ listeners \subseteq {"transport", "discovery", "admin"}
    /\ current \in Key \cup {"absent"}
    /\ starts \in 0..MaxStarts /\ signers \subseteq Key /\ served \subseteq Key

(* Where the migrations stand: what the version in the file promises, and  *)
(* what the statements of the migration that is under way have added.  The *)
(* version lags behind the columns, never the other way round.             *)
Schema ==
    /\ user_version >= 1 => "content_hash" \in columns
    /\ user_version >= 2 => "signer_public_key" \in columns
    /\ user_version = 4 => /\ columns = Column
                           /\ \A h \in Hash : rows[h].blob_pointer_scheme # "NULL"
    /\ Opened => user_version = 4
    /\ process = "migrating" =>
          /\ migration[1] = user_version + 1
          /\ migration[1] < 4 => migration[2] \in {1, 2}
          /\ migration[1] = 1 /\ migration[2] = 2 => "content_hash" \in columns
          /\ migration[1] = 2 /\ migration[2] = 2 => "signer_public_key" \in columns
          /\ migration[1] = 4 /\ migration[2] >= 2 => "blob_pointer_scheme" \in columns
          /\ migration[1] = 4 /\ migration[2] >= 3 => "blob_pointer_bucket_ref" \in columns
          /\ migration[1] = 4 /\ migration[2] = 4 =>
                \A h \in Hash : rows[h].blob_pointer_scheme # "NULL"

DbInv == Typed /\ Schema /\ \A h \in Hash : rowToToken(rows[h]) = saved[h]

(* The invariant is TypeOK and ReadsWhatWasSaved, and holds between        *)
(* statements as well.                                                     *)
LEMMA DbInvSuffices == DbInv => TypeOK /\ ReadsWhatWasSaved
<1> SUFFICES ASSUME DbInv PROVE TypeOK /\ ReadsWhatWasSaved
  OBVIOUS
<1>1. 1..CURRENT_SCHEMA_VERSION = 1..4 /\ 0..CURRENT_SCHEMA_VERSION = 0..4
      /\ 1..CURRENT_SCHEMA_VERSION + 1 = 1..5 /\ CURRENT_SCHEMA_VERSION = 4
  <2>1. CURRENT_SCHEMA_VERSION = 4 BY Statements, Zenon
  <2> QED BY <2>1
<1>2. Opened => user_version = 4 /\ columns = Column
                /\ \A h \in Hash : rows[h].blob_pointer_scheme # "NULL"
  BY DEF DbInv, Schema
<1> QED BY <1>1, <1>2 DEF DbInv, Typed, TypeOK, ReadsWhatWasSaved

(* A backfill keeps a row a row, and what is read from it.                 *)
LEMMA FilledReadsTheSame ==
    ASSUME NEW row \in Row \cup {NoRow}, NEW statement,
           \/ statement.column = "signer_public_key" /\ statement.value = ""
           \/ statement.column = "blob_pointer_scheme" /\ statement.value = "local-filesystem"
    PROVE  /\ Filled(row, statement) \in Row \cup {NoRow}
           /\ rowToToken(Filled(row, statement)) = rowToToken(row)
           /\ row.blob_pointer_scheme # "NULL" => Filled(row, statement).blob_pointer_scheme # "NULL"
           /\ statement.column = "blob_pointer_scheme"
                  => Filled(row, statement).blob_pointer_scheme # "NULL"
<1>1. CASE row = NoRow
  BY <1>1 DEF Filled, NoRow
<1>2. CASE row # NoRow /\ row[statement.column] = "NULL"
  <2>1. row \in Row BY <1>2
  <2>2. Filled(row, statement) \in Row /\ Filled(row, statement) # NoRow
    BY <1>2, <2>1 DEF Filled, Row, NoRow
  <2>3. CASE statement.column = "signer_public_key" /\ statement.value = ""
    <3>1. Filled(row, statement) = [row EXCEPT !["signer_public_key"] = ""]
      BY <1>2, <2>3 DEF Filled
    <3> QED BY <1>2, <2>1, <2>2, <2>3, <3>1 DEF Row, rowToToken
  <2>4. CASE statement.column = "blob_pointer_scheme" /\ statement.value = "local-filesystem"
    <3>1. Filled(row, statement) = [row EXCEPT !["blob_pointer_scheme"] = "local-filesystem"]
      BY <1>2, <2>4 DEF Filled
    <3> QED BY <1>2, <2>1, <2>2, <2>4, <3>1 DEF Row, rowToToken
  <2> QED BY <2>3, <2>4
<1>3. CASE row # NoRow /\ row[statement.column] # "NULL"
  BY <1>3 DEF Filled, Row
<1> QED BY <1>1, <1>2, <1>3

(* A token is read back as it was written.                                 *)
LEMMA WrittenReadsTheSame ==
    ASSUME NEW token \in Token
    PROVE  /\ tokenToRow(token) \in Row /\ rowToToken(tokenToRow(token)) = token
           /\ tokenToRow(token).blob_pointer_scheme # "NULL"
<1>1. token = [signerPublicKey |-> token.signerPublicKey, scheme |-> token.scheme]
      /\ token.signerPublicKey \in {"none", "signer"}
      /\ token.scheme \in {"local-filesystem", "bucket"}
  BY DEF Token
<1>2. tokenToRow(token) \in Row /\ tokenToRow(token) # NoRow
  BY <1>1 DEF tokenToRow, Row, NoRow
<1> QED BY <1>1, <1>2 DEF tokenToRow, rowToToken

(* Which statement is next, and what it does.                              *)
NextIs(m, k, do, column, value) ==
    /\ migration = <<m, k>>
    /\ Statement.do = do /\ Statement.column = column /\ Statement.value = value

LEMMA Position ==
    ASSUME Typed, Schema, InMigration
    PROVE  \/ NextIs(1, 1, "create", "content_hash", "")
           \/ NextIs(2, 1, "add", "signer_public_key", "")
           \/ NextIs(3, 1, "backfill", "signer_public_key", "")
           \/ NextIs(4, 1, "add", "blob_pointer_scheme", "")
           \/ NextIs(4, 2, "add", "blob_pointer_bucket_ref", "")
           \/ NextIs(4, 3, "backfill", "blob_pointer_scheme", "local-filesystem")
<1>1. PICK m \in 1..5, k \in 1..4 : migration = <<m, k>>
  BY DEF Typed
<1>2. m \in 1..4 /\ k <= Len(MIGRATIONS[m]) /\ Statement = MIGRATIONS[m][k]
  <2>1. CURRENT_SCHEMA_VERSION = 4 BY Statements, Zenon
  <2>2. m <= CURRENT_SCHEMA_VERSION /\ k <= Len(MIGRATIONS[m])
    BY <1>1 DEF InMigration
  <2> QED BY <1>1, <2>1, <2>2 DEF Statement
<1>3. \/ m \in 1..3 /\ k = 1
      \/ m = 4 /\ k \in 1..3
  <2>1. CASE m = 1
    <3>1. Len(MIGRATIONS[m]) = 1 BY <2>1, Statements, Zenon
    <3> QED BY <1>2, <2>1, <3>1
  <2>2. CASE m = 2
    <3>1. Len(MIGRATIONS[m]) = 1 BY <2>2, Statements, Zenon
    <3> QED BY <1>2, <2>2, <3>1
  <2>3. CASE m = 3
    <3>1. Len(MIGRATIONS[m]) = 1 BY <2>3, Statements, Zenon
    <3> QED BY <1>2, <2>3, <3>1
  <2>4. CASE m = 4
    <3>1. Len(MIGRATIONS[m]) = 3 BY <2>4, Statements, Zenon
    <3> QED BY <1>2, <2>4, <3>1
  <2> QED BY <1>2, <2>1, <2>2, <2>3, <2>4
<1>4. CASE m \in 1..3 /\ k = 1
  <2>1. CASE m = 1
    <3>1. Statement = [do |-> "create", column |-> "content_hash", value |-> ""]
      BY <1>2, <1>4, <2>1, Statements, Zenon
    <3> QED BY <1>1, <1>4, <2>1, <3>1 DEF NextIs
  <2>2. CASE m = 2
    <3>1. Statement = [do |-> "add", column |-> "signer_public_key", value |-> ""]
      BY <1>2, <1>4, <2>2, Statements, Zenon
    <3> QED BY <1>1, <1>4, <2>2, <3>1 DEF NextIs
  <2>3. CASE m = 3
    <3>1. Statement = [do |-> "backfill", column |-> "signer_public_key", value |-> ""]
      BY <1>2, <1>4, <2>3, Statements, Zenon
    <3> QED BY <1>1, <1>4, <2>3, <3>1 DEF NextIs
  <2>4. m = 1 \/ m = 2 \/ m = 3 BY <1>4
  <2> QED BY <2>1, <2>2, <2>3, <2>4, Zenon
<1>5. CASE m = 4 /\ k \in 1..3
  <2>1. CASE k = 1
    <3>1. Statement = [do |-> "add", column |-> "blob_pointer_scheme", value |-> ""]
      BY <1>2, <1>5, <2>1, Statements, Zenon
    <3> QED BY <1>1, <1>5, <2>1, <3>1 DEF NextIs
  <2>2. CASE k = 2
    <3>1. Statement = [do |-> "add", column |-> "blob_pointer_bucket_ref", value |-> ""]
      BY <1>2, <1>5, <2>2, Statements, Zenon
    <3> QED BY <1>1, <1>5, <2>2, <3>1 DEF NextIs
  <2>3. CASE k = 3
    <3>1. Statement = [do |-> "backfill", column |-> "blob_pointer_scheme",
                       value |-> "local-filesystem"]
      BY <1>2, <1>5, <2>3, Statements, Zenon
    <3> QED BY <1>1, <1>5, <2>3, <3>1 DEF NextIs
  <2>4. k = 1 \/ k = 2 \/ k = 3 BY <1>5
  <2> QED BY <2>1, <2>2, <2>3, <2>4, Zenon
<1> QED BY <1>3, <1>4, <1>5

(* Execute, statement by statement: the columns and the place in the       *)
(* migration advance, and the rows keep their types and what they say.     *)
LEMMA ExecuteKeepsDb == DbInv /\ Execute => DbInv'
<1> SUFFICES ASSUME DbInv, Execute PROVE DbInv'
  OBVIOUS
<1>1. /\ UNCHANGED <<user_version, identityFile, tls, process, listeners, current,
                     starts, saved, signers, served>>
      /\ process = "migrating" /\ ~Opened
  BY DEF Execute, InMigration, files, history, Opened
<1>2. ASSUME Statement.do # "backfill",
             Statement.column \in {"content_hash", "signer_public_key",
                                   "blob_pointer_scheme", "blob_pointer_bucket_ref"}
      PROVE  rows' = rows /\ columns' = columns \cup {Statement.column} /\ columns' \subseteq Column
  BY <1>2 DEF Execute, DbInv, Typed, Column
<1>3. ASSUME Statement.do = "backfill", Statement.column \in columns,
             \/ Statement.column = "signer_public_key" /\ Statement.value = ""
             \/ Statement.column = "blob_pointer_scheme" /\ Statement.value = "local-filesystem"
      PROVE  /\ columns' = columns
             /\ rows' \in [Hash -> Row \cup {NoRow}]
             /\ \A h \in Hash :
                   /\ rowToToken(rows'[h]) = rowToToken(rows[h])
                   /\ rows[h].blob_pointer_scheme # "NULL" => rows'[h].blob_pointer_scheme # "NULL"
                   /\ Statement.column = "blob_pointer_scheme" => rows'[h].blob_pointer_scheme # "NULL"
  <2>1. rows' = [h \in Hash |-> Filled(rows[h], Statement)]
    BY <1>3 DEF Execute
  <2>2. \A h \in Hash : rows[h] \in Row \cup {NoRow}
    BY DEF DbInv, Typed
  <2>3. columns' = columns
    BY <1>3 DEF Execute
  <2>4. \A h \in Hash :
           LET row == Filled(rows[h], Statement) IN
           /\ row \in Row \cup {NoRow}
           /\ rowToToken(row) = rowToToken(rows[h])
           /\ rows[h].blob_pointer_scheme # "NULL" => row.blob_pointer_scheme # "NULL"
           /\ Statement.column = "blob_pointer_scheme" => row.blob_pointer_scheme # "NULL"
    BY <1>3, <2>2, FilledReadsTheSame
  <2> HIDE DEF DbInv, Execute
  <2> QED BY <2>1, <2>3, <2>4
<1>4. migration' = [migration EXCEPT ![2] = @ + 1]
  BY DEF Execute
<1>5. CASE NextIs(1, 1, "create", "content_hash", "")
  <2>1. migration = <<1, 1>>
    BY <1>5, Zenon DEF NextIs
  <2>2. Statement.do = "create" /\ Statement.column = "content_hash" /\ Statement.value = ""
    BY <1>5, Zenon DEF NextIs
  <2>3. migration' = <<1, 2>>
    BY <1>4, <2>1
  <2>4. rows' = rows /\ columns' = columns \cup {Statement.column} /\ columns' \subseteq Column
    BY <1>2, <2>2
  <2>5. Typed'
    BY <1>1, <2>1, <2>3, <2>4 DEF DbInv, Typed
  <2>6. Schema'
    <3>1. /\ user_version' = 0 /\ process' = "migrating" /\ ~Opened'
          /\ migration'[1] = 1 /\ migration'[2] = 2
      BY <1>1, <2>1, <2>3 DEF DbInv, Schema, Opened, Typed
    <3>2. "content_hash" \in columns'
      BY <1>1, <2>1, <2>2, <2>4 DEF DbInv, Schema, Typed
    <3> QED BY <3>1, <3>2 DEF Schema
  <2> QED BY <1>1, <2>4, <2>5, <2>6 DEF DbInv
<1>6. CASE NextIs(2, 1, "add", "signer_public_key", "")
  <2>1. migration = <<2, 1>>
    BY <1>6, Zenon DEF NextIs
  <2>2. Statement.do = "add" /\ Statement.column = "signer_public_key" /\ Statement.value = ""
    BY <1>6, Zenon DEF NextIs
  <2>3. migration' = <<2, 2>>
    BY <1>4, <2>1
  <2>4. rows' = rows /\ columns' = columns \cup {Statement.column} /\ columns' \subseteq Column
    BY <1>2, <2>2
  <2>5. Typed'
    BY <1>1, <2>1, <2>3, <2>4 DEF DbInv, Typed
  <2>6. Schema'
    <3>1. /\ user_version' = 1 /\ process' = "migrating" /\ ~Opened'
          /\ migration'[1] = 2 /\ migration'[2] = 2
      BY <1>1, <2>1, <2>3 DEF DbInv, Schema, Opened, Typed
    <3>2. "content_hash" \in columns
      <4>1. user_version = 1 /\ migration[1] = 2 /\ migration[2] = 1
        BY <1>1, <2>1 DEF DbInv, Schema, Typed
      <4> QED BY <1>1, <4>1 DEF DbInv, Schema
    <3>3. {"content_hash", "signer_public_key"} \subseteq columns'
      BY <2>2, <2>4, <3>2
    <3> QED BY <3>1, <3>3 DEF Schema
  <2> QED BY <1>1, <2>4, <2>5, <2>6 DEF DbInv
<1>7. CASE NextIs(3, 1, "backfill", "signer_public_key", "")
  <2>1. migration = <<3, 1>>
    BY <1>7, Zenon DEF NextIs
  <2>2. Statement.do = "backfill" /\ Statement.column = "signer_public_key" /\ Statement.value = ""
    BY <1>7, Zenon DEF NextIs
  <2>3. migration' = <<3, 2>>
    BY <1>4, <2>1
  <2>4. "signer_public_key" \in columns
    BY <1>1, <2>1 DEF DbInv, Schema, Typed
  <2>5. /\ columns' = columns
        /\ rows' \in [Hash -> Row \cup {NoRow}]
        /\ \A h \in Hash :
              /\ rowToToken(rows'[h]) = rowToToken(rows[h])
              /\ rows[h].blob_pointer_scheme # "NULL" => rows'[h].blob_pointer_scheme # "NULL"
              /\ Statement.column = "blob_pointer_scheme" => rows'[h].blob_pointer_scheme # "NULL"
    BY <1>3, <2>2, <2>4
  <2>6. Typed'
    BY <1>1, <2>1, <2>3, <2>5 DEF DbInv, Typed
  <2>7. Schema'
    <3>1. /\ user_version' = 2 /\ process' = "migrating" /\ ~Opened'
          /\ migration'[1] = 3 /\ migration'[2] = 2
      BY <1>1, <2>1, <2>3 DEF DbInv, Schema, Opened, Typed
    <3>2. "content_hash" \in columns /\ "signer_public_key" \in columns
      <4>1. user_version = 2 /\ migration[1] = 3 /\ migration[2] = 1
        BY <1>1, <2>1 DEF DbInv, Schema, Typed
      <4> QED BY <1>1, <4>1 DEF DbInv, Schema
    <3>3. {"content_hash", "signer_public_key"} \subseteq columns'
      BY <2>2, <2>5, <3>2
    <3> QED BY <3>1, <3>3 DEF Schema
  <2> QED BY <1>1, <2>5, <2>6, <2>7 DEF DbInv
<1>8. CASE NextIs(4, 1, "add", "blob_pointer_scheme", "")
  <2>1. migration = <<4, 1>>
    BY <1>8, Zenon DEF NextIs
  <2>2. Statement.do = "add" /\ Statement.column = "blob_pointer_scheme" /\ Statement.value = ""
    BY <1>8, Zenon DEF NextIs
  <2>3. migration' = <<4, 2>>
    BY <1>4, <2>1
  <2>4. rows' = rows /\ columns' = columns \cup {Statement.column} /\ columns' \subseteq Column
    BY <1>2, <2>2
  <2>5. Typed'
    BY <1>1, <2>1, <2>3, <2>4 DEF DbInv, Typed
  <2>6. Schema'
    <3>1. /\ user_version' = 3 /\ process' = "migrating" /\ ~Opened'
          /\ migration'[1] = 4 /\ migration'[2] = 2
      BY <1>1, <2>1, <2>3 DEF DbInv, Schema, Opened, Typed
    <3>2. "content_hash" \in columns /\ "signer_public_key" \in columns
      <4>1. user_version = 3 /\ migration[1] = 4 /\ migration[2] = 1
        BY <1>1, <2>1 DEF DbInv, Schema, Typed
      <4> QED BY <1>1, <4>1 DEF DbInv, Schema
    <3>3. {"content_hash", "signer_public_key", "blob_pointer_scheme"} \subseteq columns'
      BY <2>2, <2>4, <3>2
    <3> QED BY <3>1, <3>3 DEF Schema
  <2> QED BY <1>1, <2>4, <2>5, <2>6 DEF DbInv
<1>9. CASE NextIs(4, 2, "add", "blob_pointer_bucket_ref", "")
  <2>1. migration = <<4, 2>>
    BY <1>9, Zenon DEF NextIs
  <2>2. Statement.do = "add" /\ Statement.column = "blob_pointer_bucket_ref" /\ Statement.value = ""
    BY <1>9, Zenon DEF NextIs
  <2>3. migration' = <<4, 3>>
    BY <1>4, <2>1
  <2>4. rows' = rows /\ columns' = columns \cup {Statement.column} /\ columns' \subseteq Column
    BY <1>2, <2>2
  <2>5. Typed'
    BY <1>1, <2>1, <2>3, <2>4 DEF DbInv, Typed
  <2>6. Schema'
    <3>1. /\ user_version' = 3 /\ process' = "migrating" /\ ~Opened'
          /\ migration'[1] = 4 /\ migration'[2] = 3
      BY <1>1, <2>1, <2>3 DEF DbInv, Schema, Opened, Typed
    <3>2. "content_hash" \in columns /\ "signer_public_key" \in columns
          /\ "blob_pointer_scheme" \in columns
      <4>1. user_version = 3 /\ migration[1] = 4 /\ migration[2] = 2
        BY <1>1, <2>1 DEF DbInv, Schema, Typed
      <4> QED BY <1>1, <4>1 DEF DbInv, Schema
    <3>3. {"content_hash", "signer_public_key", "blob_pointer_scheme", "blob_pointer_bucket_ref"}
           \subseteq columns'
      BY <2>2, <2>4, <3>2
    <3> QED BY <3>1, <3>3 DEF Schema
  <2> QED BY <1>1, <2>4, <2>5, <2>6 DEF DbInv
<1>10. CASE NextIs(4, 3, "backfill", "blob_pointer_scheme", "local-filesystem")
  <2>1. migration = <<4, 3>>
    BY <1>10, Zenon DEF NextIs
  <2>2. Statement.do = "backfill" /\ Statement.column = "blob_pointer_scheme" /\ Statement.value = "local-filesystem"
    BY <1>10, Zenon DEF NextIs
  <2>3. migration' = <<4, 4>>
    BY <1>4, <2>1
  <2>4. "blob_pointer_scheme" \in columns
    BY <1>1, <2>1 DEF DbInv, Schema, Typed
  <2>5. /\ columns' = columns
        /\ rows' \in [Hash -> Row \cup {NoRow}]
        /\ \A h \in Hash :
              /\ rowToToken(rows'[h]) = rowToToken(rows[h])
              /\ rows[h].blob_pointer_scheme # "NULL" => rows'[h].blob_pointer_scheme # "NULL"
              /\ Statement.column = "blob_pointer_scheme" => rows'[h].blob_pointer_scheme # "NULL"
    BY <1>3, <2>2, <2>4
  <2>6. Typed'
    BY <1>1, <2>1, <2>3, <2>5 DEF DbInv, Typed
  <2>7. Schema'
    <3>1. /\ user_version' = 3 /\ process' = "migrating" /\ ~Opened'
          /\ migration'[1] = 4 /\ migration'[2] = 4
      BY <1>1, <2>1, <2>3 DEF DbInv, Schema, Opened, Typed
    <3>2. "content_hash" \in columns /\ "signer_public_key" \in columns
          /\ "blob_pointer_scheme" \in columns /\ "blob_pointer_bucket_ref" \in columns
      <4>1. user_version = 3 /\ migration[1] = 4 /\ migration[2] = 3
        BY <1>1, <2>1 DEF DbInv, Schema, Typed
      <4> QED BY <1>1, <4>1 DEF DbInv, Schema
    <3>3. {"content_hash", "signer_public_key", "blob_pointer_scheme", "blob_pointer_bucket_ref"}
           \subseteq columns'
      BY <2>2, <2>5, <3>2
    <3>4. \A h \in Hash : rows'[h].blob_pointer_scheme # "NULL"
      BY <2>2, <2>5
    <3> QED BY <3>1, <3>3, <3>4 DEF Schema
  <2> QED BY <1>1, <2>5, <2>6, <2>7 DEF DbInv
<1> QED BY <1>5, <1>6, <1>7, <1>8, <1>9, <1>10, Position DEF DbInv, Execute

(* A step that leaves the database alone, and opens it only when it was,   *)
(* keeps what is known of it.                                              *)
LEMMA DbUntouched ==
    ASSUME DbInv, UNCHANGED <<db, saved>>, Opened' => Opened, process' # "migrating", Typed'
    PROVE  DbInv'
BY DEF DbInv, Schema, db

(* The version is written when all its columns are there.                  *)
LEMMA VersionKeepsDb == DbInv /\ setSchemaVersion => DbInv'
<1> SUFFICES ASSUME DbInv, setSchemaVersion PROVE DbInv'
  OBVIOUS
<1>1. /\ UNCHANGED <<columns, rows, identityFile, tls, process, listeners, current,
                     starts, saved, signers, served>>
      /\ process = "migrating" /\ ~Opened
      /\ user_version' = migration[1] /\ migration' = <<migration[1] + 1, 1>>
  BY DEF setSchemaVersion, files, history, Opened
<1>2. PICK m \in 1..4, k \in 1..4 : migration = <<m, k>>
  <2>1. CURRENT_SCHEMA_VERSION = 4 BY Statements, Zenon
  <2>2. migration[1] <= 4 BY <2>1 DEF setSchemaVersion
  <2> QED BY <2>2 DEF DbInv, Typed
<1>3. k > Len(MIGRATIONS[m])
  BY <1>2 DEF setSchemaVersion
<1>4. user_version = m - 1
  BY <1>1, <1>2 DEF DbInv, Schema, Typed
<1>5. Typed'
  BY <1>1, <1>2 DEF DbInv, Typed
<1>6. m < 4 => k \in {1, 2}
  BY <1>1, <1>2 DEF DbInv, Schema
<1>7. CASE m \in 1..3
  <2>1. k = 2
    <3>1. Len(MIGRATIONS[1]) = 1 /\ Len(MIGRATIONS[2]) = 1 /\ Len(MIGRATIONS[3]) = 1
      BY Statements, Zenon
    <3>2. Len(MIGRATIONS[m]) = 1 BY <1>7, <3>1
    <3> QED BY <1>3, <1>6, <1>7, <3>2
  <2>2. m >= 1 => "content_hash" \in columns
    BY <1>1, <1>2, <1>4, <1>7, <2>1 DEF DbInv, Schema
  <2>3. m >= 2 => "signer_public_key" \in columns
    BY <1>1, <1>2, <1>4, <1>7, <2>1 DEF DbInv, Schema
  <2>4. user_version' = m /\ migration'[1] = m + 1 /\ migration'[2] = 1
    BY <1>1, <1>2
  <2>5. Schema'
    BY <1>1, <1>7, <2>2, <2>3, <2>4 DEF Schema, Opened
  <2> QED BY <1>1, <1>5, <2>5 DEF DbInv
<1>8. CASE m = 4
  <2>1. k = 4
    <3>1. Len(MIGRATIONS[4]) = 3 BY Statements, Zenon
    <3> QED BY <1>3, <1>8, <3>1
  <2>2. /\ "content_hash" \in columns /\ "signer_public_key" \in columns
        /\ "blob_pointer_scheme" \in columns /\ "blob_pointer_bucket_ref" \in columns
        /\ \A h \in Hash : rows[h].blob_pointer_scheme # "NULL"
    BY <1>1, <1>2, <1>4, <1>8, <2>1 DEF DbInv, Schema
  <2>3. columns = Column
    BY <2>2 DEF DbInv, Typed, Column
  <2>4. user_version' = 4 /\ migration'[1] = 5 /\ migration'[2] = 1
    BY <1>1, <1>2, <1>8
  <2>5. Schema'
    BY <1>1, <2>2, <2>3, <2>4 DEF Schema, Opened
  <2> QED BY <1>1, <1>5, <2>5 DEF DbInv
<1> QED BY <1>7, <1>8

(* What the repository writes has every column, and is read back.          *)
LEMMA WritesKeepDb ==
    ASSUME NEW h \in Hash, DbInv, delete(h) \/ \E token \in Token : save(h, token)
    PROVE  DbInv'
<1>1. /\ Opened /\ process # "migrating"
      /\ UNCHANGED <<user_version, columns, identityFile, tls, process, migration, listeners,
                     current, starts, signers, served>>
  BY DEF delete, save, Serves, Opened, files, run
<1>2. PICK row \in Row \cup {NoRow}, token \in Token \cup {NoToken} :
         /\ rows' = [rows EXCEPT ![h] = row] /\ saved' = [saved EXCEPT ![h] = token]
         /\ rowToToken(row) = token /\ row.blob_pointer_scheme # "NULL"
  <2>1. CASE delete(h)
    <3>1. rowToToken(NoRow) = NoToken /\ NoRow.blob_pointer_scheme # "NULL"
      BY DEF rowToToken, NoRow
    <3> QED BY <2>1, <3>1 DEF delete
  <2>2. CASE \E token \in Token : save(h, token)
    <3>1. PICK token \in Token : save(h, token)
      BY <2>2
    <3>2. tokenToRow(token) \in Row /\ rowToToken(tokenToRow(token)) = token
          /\ tokenToRow(token).blob_pointer_scheme # "NULL"
      BY WrittenReadsTheSame
    <3> QED BY <3>1, <3>2 DEF save
  <2> QED BY <2>1, <2>2
<1>3. Typed'
  BY <1>1, <1>2 DEF DbInv, Typed
<1>4. \A g \in Hash : rows'[g] = IF g = h THEN row ELSE rows[g]
  BY <1>2 DEF DbInv, Typed
<1>5. \A g \in Hash : saved'[g] = IF g = h THEN token ELSE saved[g]
  BY <1>2 DEF DbInv, Typed
<1>6. \A g \in Hash : rowToToken(rows'[g]) = saved'[g]
  BY <1>2, <1>4, <1>5 DEF DbInv
<1>7. Schema'
  <2>1. user_version = 4 /\ columns = Column
        /\ \A g \in Hash : rows[g].blob_pointer_scheme # "NULL"
    BY <1>1 DEF DbInv, Schema
  <2>2. \A g \in Hash : rows'[g].blob_pointer_scheme # "NULL"
    BY <1>2, <1>4, <2>1
  <2>3. "content_hash" \in columns /\ "signer_public_key" \in columns
    BY <2>1 DEF Column
  <2> QED BY <1>1, <2>1, <2>2, <2>3 DEF Schema
<1> QED BY <1>3, <1>6, <1>7 DEF DbInv

(* What the tables of each version have for columns.                       *)
LEMMA ColumnsThen ==
    ASSUME NEW v \in 0..4
    PROVE  /\ v >= 1 => "content_hash" \in ColumnsAt(v)
           /\ v >= 2 => "signer_public_key" \in ColumnsAt(v)
           /\ v = 4 => ColumnsAt(v) = Column
           /\ ColumnsAt(v) \subseteq Column
<1> DEFINE Of(m) == {MIGRATIONS[m][k].column : k \in DOMAIN MIGRATIONS[m]}
<1>0. /\ DOMAIN MIGRATIONS[1] = {1} /\ DOMAIN MIGRATIONS[2] = {1}
      /\ DOMAIN MIGRATIONS[3] = {1} /\ DOMAIN MIGRATIONS[4] = {1, 2, 3}
  BY DEF MIGRATIONS
<1>1. Of(1) = {"content_hash"}
  <2>1. Of(1) = {MIGRATIONS[1][1].column} BY <1>0
  <2>2. MIGRATIONS[1][1].column = "content_hash" BY DEF MIGRATIONS
  <2> QED BY <2>1, <2>2, Zenon
<1>2. Of(2) = {"signer_public_key"} /\ Of(3) = {"signer_public_key"}
  <2>1. Of(2) = {MIGRATIONS[2][1].column} /\ Of(3) = {MIGRATIONS[3][1].column} BY <1>0
  <2>2. MIGRATIONS[2][1].column = "signer_public_key"
        /\ MIGRATIONS[3][1].column = "signer_public_key"
    BY DEF MIGRATIONS
  <2> QED BY <2>1, <2>2, Zenon
<1>3. Of(4) = {"blob_pointer_scheme", "blob_pointer_bucket_ref"}
  <2>1. Of(4) = {MIGRATIONS[4][1].column, MIGRATIONS[4][2].column, MIGRATIONS[4][3].column}
    BY <1>0
  <2>2. MIGRATIONS[4][1].column = "blob_pointer_scheme"
        /\ MIGRATIONS[4][2].column = "blob_pointer_bucket_ref"
        /\ MIGRATIONS[4][3].column = "blob_pointer_scheme"
    BY DEF MIGRATIONS
  <2>3. Of(4) = {"blob_pointer_scheme", "blob_pointer_bucket_ref", "blob_pointer_scheme"}
    BY <2>1, <2>2, Zenon
  <2> QED BY <2>3
<1>4. ColumnsAt(v) = UNION {Of(m) : m \in 1..v}
  BY DEF ColumnsAt
<1> HIDE DEF Of
<1>5. \A column : column \in ColumnsAt(v) <=> \E m \in 1..v : column \in Of(m)
  BY <1>4
<1>6. \A m \in 1..4 : Of(m) \subseteq Column
  BY <1>1, <1>2, <1>3 DEF Column
<1>7. ColumnsAt(v) \subseteq Column
  BY <1>5, <1>6
<1>8. v >= 1 => 1 \in 1..v
  OBVIOUS
<1>9. v >= 2 => 2 \in 1..v
  OBVIOUS
<1>10. v = 4 => 4 \in 1..v
  OBVIOUS
<1> QED BY <1>1, <1>2, <1>3, <1>5, <1>7, <1>8, <1>9, <1>10 DEF Column

(* The initial database is what a program of its version left.             *)
LEMMA DbInvInit == Init => DbInv
<1> SUFFICES ASSUME Init PROVE DbInv
  OBVIOUS
<1>1. CURRENT_SCHEMA_VERSION = 4 BY Statements, Zenon
<1>2. user_version \in 0..4 /\ process = "down" /\ migration = <<1, 1>>
  BY <1>1 DEF Init
<1>3. rows \in [Hash -> Row \cup {NoRow}]
  BY DEF Init, RowsAt
<1>4. \A row \in Row \cup {NoRow} : rowToToken(row) \in Token \cup {NoToken}
  BY DEF rowToToken, Token
<1>5. saved \in [Hash -> Token \cup {NoToken}] /\ \A h \in Hash : rowToToken(rows[h]) = saved[h]
  BY <1>3, <1>4 DEF Init
<1>6. user_version = 4 => \A h \in Hash : rows[h].blob_pointer_scheme # "NULL"
  <2> SUFFICES ASSUME user_version = 4, NEW h \in Hash PROVE rows[h].blob_pointer_scheme # "NULL"
    OBVIOUS
  <2>1. rows[h] \in {NoRow} \cup RowsAt(4)
    BY DEF Init
  <2>2. CASE rows[h] = NoRow
    <3>1. NoRow.blob_pointer_scheme # "NULL" BY DEF NoRow
    <3> QED BY <2>2, <3>1, Zenon
  <2>3. CASE rows[h] \in RowsAt(4)
    <3>1. rows[h].blob_pointer_scheme = "NULL" <=> 4 < 4
      BY <2>3, Zenon DEF RowsAt
    <3> QED BY <3>1
  <2> QED BY <2>1, <2>2, <2>3
<1>7. /\ user_version >= 1 => "content_hash" \in ColumnsAt(user_version)
      /\ user_version >= 2 => "signer_public_key" \in ColumnsAt(user_version)
      /\ user_version = 4 => ColumnsAt(user_version) = Column
      /\ ColumnsAt(user_version) \subseteq Column
  BY <1>2, ColumnsThen
<1>8. Typed
  BY <1>2, <1>3, <1>5, <1>7, BoundAssumption DEF Init, Typed
<1>9. Schema
  BY <1>2, <1>6, <1>7 DEF Init, Schema, Opened
<1> QED BY <1>5, <1>8, <1>9 DEF DbInv

(* The invariant is inductive.                                             *)
LEMMA DbInvKept == DbInv /\ [Next]_vars => DbInv'
<1> SUFFICES ASSUME DbInv, [Next]_vars PROVE DbInv'
  OBVIOUS
<1> USE DEF Ends, files, history, run, Opened
<1>1. CASE Crash
  <2>1. Typed' BY <1>1 DEF Crash, DbInv, Typed, db
  <2> QED BY <1>1, <2>1, DbUntouched DEF Crash
<1>2. CASE Boot
  <2>1. /\ UNCHANGED <<user_version, columns, rows, saved>>
        /\ process' = "migrating" /\ migration' = <<user_version + 1, 1>>
    BY <1>2 DEF Boot, db
  <2>2. user_version \in 0..4 /\ starts \in 0..MaxStarts
    BY DEF DbInv, Typed
  <2>3. Typed'
    BY <1>2, <2>1, <2>2, BoundAssumption DEF Boot, DbInv, Typed
  <2>4. migration'[1] = user_version + 1 /\ migration'[2] = 1
    BY <2>1
  <2>5. Schema'
    BY <2>1, <2>2, <2>4 DEF DbInv, Schema
  <2> QED BY <2>1, <2>3, <2>5 DEF DbInv
<1>3. CASE Duplicate
  <2>1. Typed' BY <1>3 DEF Duplicate, DbInv, Typed, db
  <2> QED BY <1>3, <2>1, DbUntouched DEF Duplicate
<1>4. CASE Execute
  BY <1>4, ExecuteKeepsDb
<1>5. CASE setSchemaVersion
  BY <1>5, VersionKeepsDb
<1>6. ASSUME UNCHANGED <<db, saved>>, process = "migrating", migration[1] > CURRENT_SCHEMA_VERSION,
             process' \in {"created", "down"}, Typed'
      PROVE  DbInv'
  <2>1. CURRENT_SCHEMA_VERSION = 4 BY Statements, Zenon
  <2>2. user_version = 4 BY <1>6, <2>1 DEF DbInv, Schema, Typed
  <2> QED BY <1>6, <2>2 DEF DbInv, Schema, db
<1>7. CASE create
  <2>1. Typed' BY <1>7 DEF create, DbInv, Typed, db
  <2> QED BY <1>6, <1>7, <2>1 DEF create
<1>8. CASE createWithTls
  <2>1. /\ UNCHANGED <<db, identityFile, starts, saved, signers>> /\ listeners' \in {listeners, {}}
        /\ process' \in {"created", "down"} /\ migration' \in {migration, <<1, 1>>}
        /\ current' \in {current, "absent"}
    BY <1>8 DEF createWithTls
  <2>2. /\ tls' \in [key : Key \cup {"absent"}, cert : Key \cup {"absent"}]
        /\ served' \subseteq Key
    <3>1. tls \in [key : Key \cup {"absent"}, cert : Key \cup {"absent"}] /\ served \subseteq Key
      BY DEF DbInv, Typed
    <3> QED BY <1>8, <3>1 DEF createWithTls, Usable
  <2>3. Typed' BY <2>1, <2>2 DEF DbInv, Typed, db
  <2> QED BY <1>6, <1>8, <2>1, <2>3 DEF createWithTls
<1>9. CASE listen
  <2>1. Typed' BY <1>9 DEF listen, NextListener, DbInv, Typed, db
  <2>2. UNCHANGED <<db, saved>> /\ process' # "migrating" /\ (Opened' => Opened)
    BY <1>9 DEF listen
  <2> QED BY <2>1, <2>2, DbUntouched
<1>10. CASE close
  <2>1. Typed'
    <3>1. /\ UNCHANGED <<db, files, history>>
          /\ process' \in {"stopping", "down"} /\ migration' \in {migration, <<1, 1>>}
          /\ current' \in {current, "absent"} /\ listeners' \subseteq listeners
      BY <1>10 DEF close
    <3> QED BY <3>1 DEF DbInv, Typed, db
  <2>2. UNCHANGED <<db, saved>> /\ process' # "migrating" /\ (Opened' => Opened)
    BY <1>10 DEF close
  <2> QED BY <2>1, <2>2, DbUntouched
<1>11. ASSUME NEW h \in Hash, delete(h) PROVE DbInv'
  BY <1>11, WritesKeepDb
<1>12. ASSUME NEW h \in Hash, NEW token \in Token, save(h, token) PROVE DbInv'
  BY <1>12, WritesKeepDb
<1>13. CASE sign
  <2>1. UNCHANGED <<db, tls, process, migration, listeners, starts, saved, served>> /\ Serves
    BY <1>13 DEF sign, Signs, GenerateAndPersist
  <2>2. identityFile' \in Key \cup {"absent", "partial"} /\ current' \in Key \cup {"absent"}
        /\ signers' \subseteq Key
    BY <1>13 DEF sign, Signs, GenerateAndPersist, DbInv, Typed
  <2>3. Typed' BY <2>1, <2>2 DEF DbInv, Typed, db
  <2>4. UNCHANGED <<db, saved>> /\ process' # "migrating" /\ (Opened' => Opened)
    BY <2>1 DEF Serves
  <2> QED BY <2>3, <2>4, DbUntouched
<1>14. CASE PersistFails
  <2>1. Typed'
    <3>1. /\ UNCHANGED <<db, tls, history>> /\ identityFile' = "partial"
          /\ process' \in {process, "down"} /\ migration' \in {migration, <<1, 1>>}
          /\ current' \in {current, "absent"} /\ listeners' \in {listeners, {}}
      BY <1>14 DEF PersistFails
    <3> QED BY <3>1 DEF DbInv, Typed, db
  <2>2. UNCHANGED <<db, saved>> /\ process' # "migrating" /\ (Opened' => Opened)
    BY <1>14 DEF PersistFails, Serves
  <2> QED BY <2>1, <2>2, DbUntouched
<1>15. CASE UNCHANGED vars
  BY <1>15 DEF vars, db, DbInv, Typed, Schema
<1> QED
  BY <1>1, <1>2, <1>3, <1>4, <1>5, <1>7, <1>8, <1>9, <1>10, <1>11, <1>12, <1>13, <1>14, <1>15
     DEF Next

(* Every state is well typed, and a repository that has been opened has    *)
(* the current schema: no migration is skipped by a crash.                 *)
THEOREM TypeCorrect == Spec => []TypeOK
BY DbInvInit, DbInvKept, DbInvSuffices, PTL DEF Spec

(* What the repository hands back is what was last saved, through every    *)
(* migration and crash.                                                    *)
THEOREM RowsReadBack == Spec => []ReadsWhatWasSaved
BY DbInvInit, DbInvKept, DbInvSuffices, PTL DEF Spec

-----------------------------------------------------------------------------
(* One key, one certificate *)

(* Every file is complete before what it holds is used: whoever signed, or *)
(* is in memory, is in the identity file, and what was served is on disk.  *)
KeyInv ==
    /\ current # "absent" => identityFile \in Key /\ current = identityFile
    /\ signers # {} => identityFile \in Key /\ signers = {identityFile}
    /\ served # {} => Usable /\ served = {tls.cert}
    /\ tls = [key |-> tls.key, cert |-> tls.cert]

(* A signature by the key on disk leaves the invariant alone.              *)
LEMMA SignedFromFile ==
    ASSUME KeyInv, NEW k, Signs(k), identityFile' = k, k \in Key,
           identityFile = k \/ signers = {}
    PROVE  KeyInv'
BY DEF KeyInv, Signs, Usable

(* The invariant is inductive.                                             *)
LEMMA KeyInvKept == KeyInv /\ [Next]_vars => KeyInv'
<1> SUFFICES ASSUME KeyInv, [Next]_vars PROVE KeyInv'
  OBVIOUS
<1> USE DEF KeyInv, Usable
<1>1. CASE Crash
  BY <1>1 DEF Crash, Ends, files, history
<1>2. CASE Boot
  BY <1>2 DEF Boot, files
<1>3. CASE Duplicate
  BY <1>3 DEF Duplicate, Ends, files, history
<1>4. CASE Execute
  BY <1>4 DEF Execute, files, history
<1>5. CASE setSchemaVersion
  BY <1>5 DEF setSchemaVersion, files, history
<1>6. CASE create
  BY <1>6 DEF create, files, history
<1>7. CASE createWithTls
  <2>1. UNCHANGED <<identityFile, signers>> /\ (current' = current \/ current' = "absent")
    BY <1>7 DEF createWithTls, Ends
  <2>2. CASE Usable /\ tls' = tls /\ served' = served \cup {tls.cert}
    BY <2>1, <2>2
  <2>3. CASE ~Usable /\ \E k \in Key : tls' = [key |-> k, cert |-> k] /\ served' = served \cup {k}
    <3>1. PICK k \in Key : tls' = [key |-> k, cert |-> k] /\ served' = served \cup {k}
      BY <2>3
    <3>2. served = {} /\ k # "absent"
      BY <2>3, KeyAssumption
    <3> QED BY <2>1, <3>1, <3>2
  <2>4. CASE ~Usable /\ (\E k \in Key : tls' = [tls EXCEPT !.key = k]) /\ served' = served
    BY <2>1, <2>4
  <2> QED BY <1>7, <2>2, <2>3, <2>4 DEF createWithTls
<1>8. CASE listen
  BY <1>8 DEF listen, files, history
<1>9. CASE close
  BY <1>9 DEF close, Ends, files, history
<1>10. ASSUME NEW h \in Hash, delete(h) PROVE KeyInv'
  BY <1>10 DEF delete, files, run
<1>11. ASSUME NEW h \in Hash, NEW token \in Token, save(h, token) PROVE KeyInv'
  BY <1>11 DEF save, files, run
<1>12. CASE sign
  <2>1. CASE current # "absent" /\ Signs(current) /\ UNCHANGED identityFile
    BY <2>1, SignedFromFile
  <2>2. CASE identityFile \in Key /\ Signs(identityFile) /\ UNCHANGED identityFile
    BY <2>2, SignedFromFile
  <2>3. ASSUME identityFile = "absent", NEW k \in Key, GenerateAndPersist(k) PROVE KeyInv'
    <3>1. signers = {} BY <2>3, KeyAssumption
    <3> QED BY <2>3, <3>1, SignedFromFile DEF GenerateAndPersist
  <2> QED BY <1>12, <2>1, <2>2, <2>3 DEF sign
<1>13. CASE PersistFails
  <2>1. signers = {} /\ current' = "absent" /\ UNCHANGED <<tls, signers, served>>
    BY <1>13, KeyAssumption DEF PersistFails, Ends, run, history
  <2> QED BY <2>1
<1>14. CASE UNCHANGED vars
  BY <1>14 DEF vars, files, run, history
<1> QED
  BY <1>1, <1>2, <1>3, <1>4, <1>5, <1>6, <1>7, <1>8, <1>9, <1>10, <1>11, <1>12, <1>13, <1>14
     DEF Next

(* However often a node is stopped while it makes its key or certificate,  *)
(* it signs with one key and serves one certificate.                       *)
THEOREM KeepsOneIdentity == Spec => []OneIdentity
<1>1. Init => KeyInv
  BY DEF Init, KeyInv
<1>2. KeyInv => OneIdentity
  <2>1. \A x : Cardinality({x}) <= 1
    <3> TAKE x
    <3>1. Cardinality({x}) = 1 BY FS_Singleton, Zenon
    <3> QED BY <3>1
  <2>2. Cardinality({}) <= 1
    BY FS_EmptySet
  <2>3. (signers = {} \/ signers = {identityFile}) /\ (served = {} \/ served = {tls.cert}) => OneIdentity
    BY <2>1, <2>2, Zenon DEF OneIdentity
  <2> QED BY <2>3 DEF KeyInv
<1> QED BY <1>1, <1>2, KeyInvKept, PTL DEF Spec
=============================================================================
