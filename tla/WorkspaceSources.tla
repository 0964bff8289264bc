--------------------------- MODULE WorkspaceSources ---------------------------
(***************************************************************************)
(* What WorkspaceRegistry.load accepts as project workspaces, from         *)
(* workspace/registry.py, and what the context builder and the evaluation  *)
(* may then rely on.                                                       *)
(*                                                                         *)
(* A package is [manifest, files].  The manifest has id, version, contract *)
(* (its schema_version, 0 for one that the models reject) and schemas, a   *)
(* sequence of [id, dialect, files]; a path is [form, top, dir, stem,      *)
(* suffix], and files gives what a path leads to:                          *)
(*   [inside, size, utf8, h1, h2, parts]   parts as in WorkspaceContext,   *)
(* where the title of a statement stands for its text without comments.    *)
(* Names are numbers, in the order of the strings they stand for.          *)
(*                                                                         *)
(* A statement that writes data is refused where it is recognized: by the  *)
(* type that sqlparse tells of it, or by one of two patterns.  Others that *)
(* write, TRUNCATE or CREATE TABLE AS SELECT, are not, and are accepted.   *)
(***************************************************************************)
EXTENDS SequencesExt, Orders

CONSTANTS
    Documents,      \* for each schema_version: a sequence of [id, kind, path, h1, sections]
    DdlKind,        \* the kind source_ddl
    Folded,         \* casefold of a stem, below 100
    StatementType,  \* get_type of sqlparse, by the title of a statement
    CopyFromStdin,  \* the titles that _COPY_FROM_STDIN_PATTERN matches
    ValuesStatement, \* the titles that _VALUES_STATEMENT_PATTERN matches
    Comment,        \* the title of a statement that is only a comment
    SourceMax,      \* WORKSPACE_SOURCE_MAX_BYTES
    PackageMax      \* WORKSPACE_PACKAGE_MAX_BYTES

\* The documents are those of the registry, which are not DDL.
ASSUME DocumentsAssumption ==
    /\ \A c \in DOMAIN Documents :
        /\ Documents[c] \in Seq(ToSet(Documents[c]))
        /\ \A i \in DOMAIN Documents[c] : Documents[c][i].id \in Nat /\ Documents[c][i].kind # DdlKind
    /\ Folded \in [DOMAIN Folded -> 0..99] /\ DOMAIN Folded \subseteq Nat

IsPath(path) ==
    /\ path = [form |-> path.form, top |-> path.top, dir |-> path.dir, stem |-> path.stem,
               suffix |-> path.suffix]
    /\ path.dir \in Nat /\ path.stem \in DOMAIN Folded

\* A manifest of the form of the models.
IsManifest(m) ==
    /\ m.schemas \in Seq(ToSet(m.schemas))
    /\ \A i \in DOMAIN m.schemas :
        /\ m.schemas[i].id \in Nat /\ m.schemas[i].files \in Seq(ToSet(m.schemas[i].files))
        /\ \A j \in DOMAIN m.schemas[i].files : IsPath(m.schemas[i].files[j])

Registered(m) == UNION {{i} \X DOMAIN m.schemas[i].files : i \in DOMAIN m.schemas}

PathAt(m, at) == m.schemas[at[1]].files[at[2]]

NoRepeats(s) == \A i, j \in DOMAIN s : s[i] = s[j] => i = j

\* _parse_manifest and _validate_manifest_contract.
ValidManifest(m) ==
    /\ m.contract \in DOMAIN Documents
    /\ m.schemas # <<>> /\ \A i \in DOMAIN m.schemas : m.schemas[i].files # <<>>
    /\ NoRepeats([i \in DOMAIN m.schemas |-> m.schemas[i].id])
    /\ \A a, b \in Registered(m) : PathAt(m, a) = PathAt(m, b) => a = b

\* _validate_source_schema_path and _validate_relative_path.
ValidSchemaPath(path) ==
    path.form = "relative" /\ path.top = "source-schema" /\ path.suffix = "sql"

\* _read_registered_source.
Readable(files, path) ==
    /\ path \in DOMAIN files
    /\ files[path].inside /\ files[path].size <= SourceMax /\ files[path].utf8

\* _validate_markdown_contract.
ValidMarkdown(file, document) ==
    file.h1 = <<document.h1>> /\ document.sections \subseteq file.h2

\* _FORBIDDEN_DML_TYPES.
ForbiddenTypes == {"INSERT", "UPDATE", "DELETE", "MERGE"}

\* What is taken for a statement that writes data.
Recognized(title) ==
    \/ StatementType[title] \in ForbiddenTypes
    \/ title \in CopyFromStdin
    \/ title \in ValuesStatement

\* Mutant: only the first statement is looked at.
ValidFirstSql(file) ==
    LET first == file.parts[1].title
    IN  first # Comment /\ ~Recognized(first)

\* _validate_source_sql: comments are passed over, and something must be left.
ValidSql(file) ==
    LET titles == {file.parts[i].title : i \in DOMAIN file.parts} \ {Comment}
    IN  titles # {} /\ \A title \in titles : ~Recognized(title)

\* The name of a DDL source: the schema, and the stem without its case.
DdlId(schema, path) == 100 * schema.id + Folded[path.stem]

Source(id, type, dialect, path, files) ==
    [id |-> id, kind |-> type, dialect |-> dialect, path |-> path, parts |-> files[path].parts]

\* The places of a manifest that name a source: the documents, under 0, and the
\* files of each schema.
Places(m) == ({0} \X DOMAIN Documents[m.contract]) \cup Registered(m)

\* _make_source.
SourceAt(w, at) ==
    LET m == w.manifest
        document == Documents[m.contract][at[2]]
        schema == m.schemas[at[1]]
        path == PathAt(m, at)
    IN  IF at[1] = 0 THEN Source(document.id, document.kind, "none", document.path, w.files)
        ELSE Source(DdlId(schema, path), DdlKind, schema.dialect, path, w.files)

Loaded(w) == {SourceAt(w, at) : at \in Places(w.manifest)}

ById(S) == {e \in S \X S : e[1].id < e[2].id}

\* _load_sources: what is accepted, and the sources.
ValidSources(w) ==
    LET m == w.manifest
        documents == Documents[m.contract]
    IN  /\ \A i \in DOMAIN documents :
            /\ Readable(w.files, documents[i].path)
            /\ ValidMarkdown(w.files[documents[i].path], documents[i])
        /\ \A at \in Registered(m) :
            /\ ValidSchemaPath(PathAt(m, at))
            /\ Readable(w.files, PathAt(m, at))
            /\ ValidSql(w.files[PathAt(m, at)])
        /\ \A a, b \in Places(m) : SourceAt(w, a).id = SourceAt(w, b).id => a = b

SourcesOf(w) == Ordered(Loaded(w), ById(Loaded(w)))

\* _package_size: every file of the package counts, registered or not.
ValidPackage(w) ==
    /\ \A path \in DOMAIN w.files : w.files[path].inside
    /\ FoldLeft(LAMBDA n, path : n + w.files[path].size, 0, SetToSeq(DOMAIN w.files)) <= PackageMax

\* _load_workspace.
AcceptedWorkspace(w) == ValidPackage(w) /\ ValidManifest(w.manifest) /\ ValidSources(w)

\* The order of the strings of two paths in source-schema.
ByPath(S) ==
    {e \in S \X S : e[1].dir < e[2].dir \/ (e[1].dir = e[2].dir /\ e[1].stem < e[2].stem)}

\* A schema as it is hashed.
Canonical(schema) ==
    [id |-> schema.id, dialect |-> schema.dialect,
     files |-> Ordered(ToSet(schema.files), ByPath(ToSet(schema.files)))]

\* _source_hash: what the hash is taken of; no two contents have one hash.
SourceHash(w) ==
    LET m == w.manifest
        schemas == {Canonical(m.schemas[i]) : i \in DOMAIN m.schemas}
    IN  <<m.id, m.version, m.contract, Ordered(schemas, ById(schemas)), SourcesOf(w)>>

\* WorkspaceRegistry.load, of a set of packages.
AcceptedRoot(packages) ==
    /\ packages # {} /\ \A w \in packages : AcceptedWorkspace(w)
    /\ \A v, w \in packages : v.manifest.id = w.manifest.id => v = w

-----------------------------------------------------------------------------
\* What two packages say when the order in a manifest says nothing.
SameFacts(v, w) ==
    LET facts(x) == {<<x.manifest.schemas[i].id, x.manifest.schemas[i].dialect,
                       ToSet(x.manifest.schemas[i].files)>> : i \in DOMAIN x.manifest.schemas}
        content(x) == {<<s.path, s.parts>> : s \in Loaded(x)}
    IN  /\ v.manifest.id = w.manifest.id /\ v.manifest.version = w.manifest.version
        /\ v.manifest.contract = w.manifest.contract
        /\ facts(v) = facts(w) /\ content(v) = content(w)

\* Two accepted packages have one hash just if they say the same.
HashTellsContent(v, w) ==
    AcceptedWorkspace(v) /\ AcceptedWorkspace(w) => (SourceHash(v) = SourceHash(w) <=> SameFacts(v, w))

\* The sources of an accepted package are all that its manifest names, each under
\* a name of its own, in the order of the names.
SourcesAreNamed(w) ==
    LET sources == SourcesOf(w)
    IN  AcceptedWorkspace(w) =>
            /\ Len(sources) = Cardinality(Places(w.manifest))
            /\ \A i, j \in DOMAIN sources : i < j => sources[i].id < sources[j].id
===============================================================================
