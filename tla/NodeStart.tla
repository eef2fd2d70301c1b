----------------------------- MODULE NodeStart -----------------------------
(***************************************************************************)
(* A node from one start to the next: what it finds on disk, what it does  *)
(* to it, and what a crash leaves there.  The SQLite file with its schema  *)
(* version (runMigrations, SqliteMetadataRepository), the identity file    *)
(* (NodeIdentityAdapter in its "node" mode), the TLS certificate           *)
(* (ensureSelfSignedCert), and the order in which                          *)
(* createNodeCompositionRoot, start() and stop() use them.                 *)
(*                                                                         *)
(* A statement of SQLite is atomic and durable; a file written in place is *)
(* neither.  openssl, external, writes the key before the certificate.     *)
(***************************************************************************)
EXTENDS Integers, Sequences, FiniteSets

CONSTANTS
    Hash,           (* content hashes                                       *)
    Key,            (* identities and certificates the node may generate    *)
    MaxStarts       (* bound on the starts of the process                   *)

ASSUME KeyAssumption == Key \cap {"absent", "partial"} = {}
ASSUME BoundAssumption == MaxStarts \in Nat

VARIABLES
    user_version, columns, rows,    (* the database file                    *)
    identityFile,   (* "absent", "partial", or the key it holds             *)
    tls,            (* tls.key and tls.cert: "absent", or whose they are    *)
    process,        (* where main() is                                      *)
    migration,      (* the next statement of runMigrations: <<m, k>>        *)
    listeners,      (* those that are open                                  *)
    current,        (* the identity in memory, or "absent"                  *)
    starts,         (* history: of the process                              *)
    saved,          (* history: the token last saved under each hash        *)
    signers, served (* history: identities that signed, certificates used   *)

db == <<user_version, columns, rows>>
files == <<identityFile, tls>>
run == <<process, migration, listeners, current>>
history == <<starts, saved, signers, served>>
vars == <<db, files, run, history>>

-----------------------------------------------------------------------------
(* The schema.  Of the columns, those that some migration adds, and of a   *)
(* token what they hold.                                                   *)

Token == [signerPublicKey : {"none", "signer"}, scheme : {"local-filesystem", "bucket"}]

Row == [signer_public_key : {"NULL", "", "signer"},
        blob_pointer_scheme : {"NULL", "local-filesystem", "bucket"}]

NoRow == [signer_public_key |-> "no row", blob_pointer_scheme |-> "no row"]

NoToken == [signerPublicKey |-> "no token", scheme |-> "no token"]

Column == {"content_hash", "signer_public_key", "blob_pointer_scheme", "blob_pointer_bucket_ref"}

MIGRATIONS == <<
    <<[do |-> "create", column |-> "content_hash", value |-> ""]>>,
    <<[do |-> "add", column |-> "signer_public_key", value |-> ""]>>,
    <<[do |-> "backfill", column |-> "signer_public_key", value |-> ""]>>,
    <<[do |-> "add", column |-> "blob_pointer_scheme", value |-> ""],
      [do |-> "add", column |-> "blob_pointer_bucket_ref", value |-> ""],
      [do |-> "backfill", column |-> "blob_pointer_scheme", value |-> "local-filesystem"]>> >>

CURRENT_SCHEMA_VERSION == Len(MIGRATIONS)

(* The columns of a database of version v that no crash has touched.       *)
ColumnsAt(v) ==
    UNION {{MIGRATIONS[m][k].column : k \in DOMAIN MIGRATIONS[m]} : m \in 1..v}

(* What a program of schema version v may have left in a row.              *)
RowsAt(v) ==
    {row \in Row : /\ v < 2 => row.signer_public_key = "NULL"
                   /\ row.blob_pointer_scheme = "NULL" <=> v < 4}

(* A signer is absent when NULL or empty, a scheme is local unless bucket. *)
rowToToken(row) ==
    IF row = NoRow THEN NoToken
    ELSE [signerPublicKey |-> IF row.signer_public_key \in {"NULL", ""} THEN "none" ELSE "signer",
          scheme |-> IF row.blob_pointer_scheme = "bucket" THEN "bucket" ELSE "local-filesystem"]

(* save(): an unsigned token has NULL for its signer, not "".              *)
tokenToRow(token) ==
    [signer_public_key |-> IF token.signerPublicKey = "none" THEN "NULL" ELSE "signer",
     blob_pointer_scheme |-> token.scheme]

(* The process has its repository; nothing else keeps it from being used.  *)
Opened == process \in {"created", "starting", "serving", "stopping"}

(* Well typed, and by the time the repository's constructor has returned   *)
(* the schema is current: no column is missing, no row lacks its scheme.   *)
TypeOK ==
    /\ user_version \in 0..CURRENT_SCHEMA_VERSION /\ columns \subseteq Column
    /\ rows \in [Hash -> Row \cup {NoRow}] /\ saved \in [Hash -> Token \cup {NoToken}]
    /\ identityFile \in Key \cup {"absent", "partial"}
    /\ tls \in [key : Key \cup {"absent"}, cert : Key \cup {"absent"}]
    /\ process \in {"down", "migrating", "created", "starting", "serving", "stopping"}
    /\ migration \in (1..CURRENT_SCHEMA_VERSION + 1) \X (1..4)
    /\ listeners \subseteq {"transport", "discovery", "admin"}
    /\ current \in Key \cup {"absent"}
    /\ starts \in 0..MaxStarts /\ signers \subseteq Key /\ served \subseteq Key
    /\ Opened => /\ user_version = CURRENT_SCHEMA_VERSION /\ columns = Column
                 /\ \A h \in Hash : rows[h].blob_pointer_scheme # "NULL"

Init ==
    /\ user_version \in 0..CURRENT_SCHEMA_VERSION
    /\ columns = ColumnsAt(user_version)
    /\ rows \in [Hash -> {NoRow} \cup IF user_version = 0 THEN {} ELSE RowsAt(user_version)]
    /\ identityFile = "absent" /\ tls = [key |-> "absent", cert |-> "absent"]
    /\ process = "down" /\ migration = <<1, 1>> /\ listeners = {} /\ current = "absent"
    /\ starts = 0 /\ signers = {} /\ served = {}
    /\ saved = [h \in Hash |-> rowToToken(rows[h])]

-----------------------------------------------------------------------------
(* The process ends, by itself or not: its memory and its sockets go.      *)
Ends ==
    /\ process' = "down" /\ migration' = <<1, 1>> /\ listeners' = {} /\ current' = "absent"

Crash ==
    /\ process # "down"
    /\ Ends
    /\ UNCHANGED <<db, files, history>>

(* runMigrations reads the version once, and skips what it covers.         *)
Boot ==
    /\ process = "down" /\ starts < MaxStarts
    /\ starts' = starts + 1
    /\ process' = "migrating" /\ migration' = <<user_version + 1, 1>>
    /\ UNCHANGED <<db, files, listeners, current, saved, signers, served>>

Statement == MIGRATIONS[migration[1]][migration[2]]

InMigration ==
    /\ process = "migrating"
    /\ migration[1] <= CURRENT_SCHEMA_VERSION
    /\ migration[2] <= Len(MIGRATIONS[migration[1]])

(* ALTER TABLE throws on a column that is there, and main() exits.         *)
Duplicate ==
    /\ InMigration
    /\ Statement.do = "add" /\ Statement.column \in columns
    /\ Ends
    /\ UNCHANGED <<db, files, history>>

(* Faulty variant: the update has no WHERE.                                *)
Filled_all(row, statement) ==
    IF row = NoRow THEN row ELSE [row EXCEPT ![statement.column] = statement.value]

Filled(row, statement) ==
    IF row # NoRow /\ row[statement.column] = "NULL"
    THEN [row EXCEPT ![statement.column] = statement.value] ELSE row

Execute ==
    /\ InMigration
    /\ Statement.do = "add" => Statement.column \notin columns
    /\ columns' = columns \cup {Statement.column}
    /\ rows' = IF Statement.do # "backfill" THEN rows
               ELSE [h \in Hash |-> Filled(rows[h], Statement)]
    /\ migration' = [migration EXCEPT ![2] = @ + 1]
    /\ UNCHANGED <<user_version, files, process, listeners, current, history>>

(* Faulty variant: the version is not written.                             *)
setSchemaVersion_skipped ==
    /\ process = "migrating" /\ migration[1] <= CURRENT_SCHEMA_VERSION
    /\ migration[2] > Len(MIGRATIONS[migration[1]])
    /\ migration' = <<migration[1] + 1, 1>>
    /\ UNCHANGED <<user_version, columns, rows, files, process, listeners, current, history>>

setSchemaVersion ==
    /\ process = "migrating" /\ migration[1] <= CURRENT_SCHEMA_VERSION
    /\ migration[2] > Len(MIGRATIONS[migration[1]])
    /\ user_version' = migration[1]
    /\ migration' = <<migration[1] + 1, 1>>
    /\ UNCHANGED <<columns, rows, files, process, listeners, current, history>>

(* The rest of createNodeCompositionRoot, without TLS.                     *)
create ==
    /\ process = "migrating" /\ migration[1] > CURRENT_SCHEMA_VERSION
    /\ process' = "created"
    /\ UNCHANGED <<db, files, migration, listeners, current, history>>

(* existsSync of both files.                                               *)
Usable == tls.key # "absent" /\ tls.cert # "absent"

(* With TLS: the pair on disk is used when both files exist, and a new one *)
(* is generated when not; the process may stop between openssl's two files.*)
createWithTls ==
    /\ process = "migrating" /\ migration[1] > CURRENT_SCHEMA_VERSION
    /\ \/ /\ Usable
          /\ process' = "created" /\ served' = served \cup {tls.cert}
          /\ UNCHANGED <<tls, migration, listeners, current>>
       \/ /\ ~Usable
          /\ \E k \in Key \ (served \cup {tls.key}) :
                \/ /\ tls' = [key |-> k, cert |-> k]
                   /\ process' = "created" /\ served' = served \cup {k}
                   /\ UNCHANGED <<migration, listeners, current>>
                \/ /\ tls' = [tls EXCEPT !.key = k]
                   /\ Ends /\ UNCHANGED served
    /\ UNCHANGED <<db, identityFile, starts, saved, signers>>

(* start(): the three listeners in order; a port that is taken makes it    *)
(* reject, and main() exits.                                               *)
NextListener ==
    IF "transport" \notin listeners THEN "transport"
    ELSE IF "discovery" \notin listeners THEN "discovery" ELSE "admin"

listen ==
    /\ process \in {"created", "starting"}
    /\ listeners' = listeners \cup {NextListener}
    /\ process' = IF NextListener = "admin" THEN "serving" ELSE "starting"
    /\ UNCHANGED <<db, files, migration, current, history>>

(* stop(): in the same order, and the database after them.                 *)
close ==
    /\ process \in {"serving", "stopping"}
    /\ IF listeners = {} THEN Ends
       ELSE /\ process' = "stopping"
            /\ \E l \in listeners :
                  /\ \/ l = "transport"
                     \/ l = "discovery" /\ "transport" \notin listeners
                     \/ listeners = {"admin"}
                  /\ listeners' = listeners \ {l}
            /\ UNCHANGED <<migration, current>>
    /\ UNCHANGED <<db, files, history>>

(* Peers reach the transport before start() has returned, and swaps they   *)
(* began go on while stop() awaits the listeners.                          *)
Serves == process \in {"starting", "serving", "stopping"}

save(h, token) ==
    /\ Serves
    /\ rows' = [rows EXCEPT ![h] = tokenToRow(token)]
    /\ saved' = [saved EXCEPT ![h] = token]
    /\ UNCHANGED <<user_version, columns, files, run, starts, signers, served>>

delete(h) ==
    /\ Serves
    /\ rows' = [rows EXCEPT ![h] = NoRow]
    /\ saved' = [saved EXCEPT ![h] = NoToken]
    /\ UNCHANGED <<user_version, columns, files, run, starts, signers, served>>

Signs(k) ==
    /\ current' = k /\ signers' = signers \cup {k}
    /\ UNCHANGED <<db, tls, process, migration, listeners, starts, saved, served>>

(* Faulty variant: the new key is kept although it could not be written.   *)
GenerateAndPersist_memory_first(k) ==
    /\ Signs(k)
    /\ identityFile' \in {k, "absent"}

(* generateAndPersist: in memory once the file is complete.                *)
GenerateAndPersist(k) ==
    /\ Signs(k)
    /\ identityFile' = k

(* sign(), which the operator's takedowns call: the identity is loaded, or *)
(* generated, on first use.                                                *)
sign ==
    /\ Serves /\ "admin" \in listeners
    /\ \/ current # "absent" /\ Signs(current) /\ UNCHANGED identityFile
       \/ /\ current = "absent" /\ identityFile \in Key
          /\ Signs(identityFile) /\ UNCHANGED identityFile
       \/ /\ current = "absent" /\ identityFile = "absent"
          /\ \E k \in Key \ signers : GenerateAndPersist(k)

(* The write of the identity file is cut short: the disk is full, or the   *)
(* process stops.                                                          *)
PersistFails ==
    /\ Serves /\ "admin" \in listeners
    /\ current = "absent" /\ identityFile = "absent"
    /\ identityFile' = "partial"
    /\ Ends \/ UNCHANGED run
    /\ UNCHANGED <<db, tls, history>>

Next ==
    \/ Crash \/ Boot \/ Duplicate \/ Execute \/ setSchemaVersion
    \/ create \/ createWithTls \/ listen \/ close
    \/ \E h \in Hash : delete(h) \/ \E token \in Token : save(h, token)
    \/ sign \/ PersistFails

Spec == Init /\ [][Next]_vars

-----------------------------------------------------------------------------
(* Properties *)

(* What the repository hands back is what was last saved, by whatever      *)
(* version of the program, through every migration and crash.              *)
ReadsWhatWasSaved ==
    Opened => \A h \in Hash : rowToToken(rows[h]) = saved[h]

(* "Nodes have persistent identities": all that a node ever signed was     *)
(* signed by one key, and all it ever served over TLS bore one             *)
(* certificate, however often it crashed while it made them.               *)
OneIdentity == Cardinality(signers) <= 1 /\ Cardinality(served) <= 1
=============================================================================
