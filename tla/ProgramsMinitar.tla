--------------------------- MODULE ProgramsMinitar ---------------------------
(***************************************************************************)
(* The users of the sandboxed libarchive: the minitar of the examples, and *)
(* the original minitar whose extraction is redirected into a sandboxee by *)
(* a preloaded library.  a, ext and disk are the archives, entry the entry *)
(* that minitar itself allocates.                                          *)
(***************************************************************************)
EXTENDS ProgramLang, TLC

MinitarCreateOpen ==
    <<Start, New("archive_write_new", {}, "a"), Call("archive_write_add_filter_*", {"a"}),
      Call("archive_write_set_format_ustar", {"a"}), Call("archive_write_open_filename", {"a"})>>

\* A header that is not fatal is reported and skipped; what archive_write_data
\* and a failed read answer is not looked at; the entry that meets the end of
\* the directory is not freed.
MinitarCreateFiles ==
    <<At("file"), Either("close"),
      New("archive_read_disk_new", {}, "disk"),
      Call("archive_read_disk_set_standard_lookup", {"disk"}),
      OnBad(Call("archive_read_disk_open", {"disk"}), "disk error"),
      At("entry"), New("archive_entry_new", {}, "entry"),
      OnBad(Call("archive_read_next_header2", {"disk", "entry"}), "disk error"), Either("eof"),
      Call("archive_read_disk_descend", {"disk"}), Call("archive_entry_pathname", {"entry"}),
      Rpc("archive_entry_set_pathname", {"entry"}), Either("header"),
      Call("archive_entry_pathname", {"entry"}),
      At("header"), OnBad(Does(Call("archive_write_header", {"a", "entry"}), "header"), "header error"),
      At("data"), Call("archive_entry_sourcepath", {"entry"}), Host("open"), Transfer("Allocate", {}),
      Makes(Transfer("TransferToSandboxee", {}), "fd"),
      At("block"), OnBad(Does(Call("read", {"fd"}), "read"), "data end"), Either("data end"),
      Does(Rpc("archive_write_data", {"a"}), "data"), Goto("block"),
      At("data end"), Free("~Fd", "fd"),
      At("entry end"), Frees(Rpc("archive_entry_free", {"entry"}), "entry"), Goto("entry"),
      At("header error"), Call("archive_error_string", {"a"}), Choose({"fail", "data", "entry end"}),
      At("eof"), Call("archive_read_close", {"disk"}),
      Frees(Call("archive_read_free", {"disk"}), "disk"), Goto("file"),
      At("close"), Does(Call("archive_write_close", {"a"}), "closed"),
      Frees(Call("archive_write_free", {"a"}), "a"), Return,
      At("disk error"), Call("archive_error_string", {"disk"}), Fail>>

MinitarCreateArchive ==
    Leaking(Unearned(Function({}, {}, {"closed"}, MinitarCreateOpen \o MinitarCreateFiles),
                     {"header", "read", "data"}), {"entry"})

MinitarExtractOpen ==
    <<Either("sandbox"), HostNew("CreateTempDirAtCWD", "tmp_dir"), At("sandbox"), Start,
      New("archive_read_new", {}, "a"), New("archive_write_disk_new", {}, "ext"),
      Call("archive_write_disk_set_options", {"ext"}),
      Call("archive_read_support_filter_bzip2", {"a"}),
      Call("archive_read_support_filter_gzip", {"a"}),
      Call("archive_read_support_filter_compress", {"a"}),
      Call("archive_read_support_format_tar", {"a"}),
      Call("archive_read_support_format_cpio", {"a"}),
      Call("archive_write_disk_set_standard_lookup", {"ext"}),
      OnBad(Call("archive_read_open_filename", {"a"}), "error")>>

MinitarExtractEntries ==
    <<At("entry"), OnBad(Call("archive_read_next_header", {"a"}), "error"), Either("eof"),
      Either("extract?"), Call("archive_entry_pathname", {"a"}),
      At("extract?"), Either("entry"),
      OnBad(Does(Call("archive_write_header", {"ext", "a"}), "header"), "header error"),
      Does(Call("CopyData", {"a", "ext"}), "data"), Goto("entry"),
      At("header error"), Call("archive_error_string", {"a"}), Goto("entry"),
      At("eof"), Call("archive_read_close", {"a"}), Frees(Call("archive_read_free", {"a"}), "a"),
      Does(Call("archive_write_close", {"ext"}), "closed"),
      Frees(Call("archive_write_free", {"ext"}), "ext"), Return,
      At("error"), Call("archive_error_string", {"a"}), Fail>>

MinitarExtractArchive ==
    Unearned(Cleanup(Function({}, {}, {"closed"}, MinitarExtractOpen \o MinitarExtractEntries),
                     <<If("tmp_dir", HostFree("DeleteRecursively", "tmp_dir"))>>),
             {"header"})

MinitarCopyData ==
    Function({"ar", "aw"}, {}, {},
        <<At("block"), OnBad(Does(Call("archive_read_data_block", {"ar"}), "read"), "error"),
          Either("return"),
          OnBad(Does(Call("archive_write_data_block", {"aw"}), "written"), "error"), Goto("block"),
          At("error"), Call("archive_error_string", {"ar"}), Fail>>)

MinitarMain ==
    Function({}, {}, {"done"}, <<Usage, Does(Host("CreateArchive or ExtractArchive"), "done")>>)

(***************************************************************************)
(* The original program: create uses the library directly.                 *)
(***************************************************************************)
PlainCreate ==
    Aborting(Careless(Leaking(Unearned(
        Function({}, {}, {},
            <<Local(NewRaw("archive_write_new", {}, "a")),
              Local(Rpc("archive_write_add_filter_*", {"a"})),
              Local(Rpc("archive_write_set_format_ustar", {"a"})),
              Local(Does(Rpc("archive_write_open_filename", {"a"}), "opened")),
              At("file"), Either("close"),
              Local(NewRaw("archive_read_disk_new", {}, "disk")),
              Local(Rpc("archive_read_disk_set_standard_lookup", {"disk"})),
              Local(Call("archive_read_disk_open", {"disk"})),
              At("entry"), Local(NewRaw("archive_entry_new", {}, "entry")),
              Local(Call("archive_read_next_header2", {"disk", "entry"})), Either("eof"),
              Local(Rpc("archive_read_disk_descend", {"disk"})),
              OnBad(Local(Does(Call("archive_write_header", {"a", "entry"}), "header")), "header error"),
              At("data"), Else(HostNew("open", "fd"), "next"),
              At("block"), OnBad(Does(Local(Call("read", {"fd"})), "read"), "data end"), Either("data end"),
              Local(Does(Rpc("archive_write_data", {"a"}), "data")), Goto("block"),
              At("data end"), HostFree("close", "fd"),
              At("entry end"), Local(Free("archive_entry_free", "entry")), Goto("entry"),
              At("header error"), Choose({"fail", "data", "entry end"}),
              At("eof"), Local(Rpc("archive_read_close", {"disk"})),
              Local(Free("archive_read_free", "disk")), Goto("file"),
              At("close"), Local(Does(Rpc("archive_write_close", {"a"}), "closed")),
              Local(Free("archive_write_free", "a"))>>),
        {"opened", "header", "read", "data", "closed"}), {"entry"}),
        {"archive_write_add_filter_*", "archive_write_set_format_ustar",
         "archive_write_open_filename", "archive_read_disk_set_standard_lookup",
         "archive_read_disk_open", "archive_read_next_header2", "archive_read_disk_descend",
         "archive_write_header", "read", "archive_write_data", "close", "archive_entry_free",
         "archive_read_close", "archive_read_free", "archive_write_close", "archive_write_free"}))

\* The preloaded library: each function of the library that extract calls is
\* a request, whose failure ends the program; strings are copied into
\* c_str_tmp, which is replaced each time.
PreloadedPointers == <<New("archive_read_new", {}, "a"), New("archive_write_disk_new", {}, "ext")>>

PreloadedSettings ==
    <<Rpc("archive_write_disk_set_options", {"ext"}),
      Rpc("archive_read_support_filter_bzip2", {"a"}),
      Rpc("archive_read_support_filter_gzip", {"a"}),
      Rpc("archive_read_support_filter_compress", {"a"}),
      Rpc("archive_read_support_format_tar", {"a"}),
      Rpc("archive_read_support_format_cpio", {"a"}),
      Rpc("archive_write_disk_set_standard_lookup", {"ext"})>>

PreloadedOpenFilename == OnBad(Call("archive_read_open_filename", {"a"}), "error")
PreloadedNextHeader == OnBad(Call("archive_read_next_header", {"a"}), "error")

PreloadedErrorString ==
    <<Call("archive_error_string", {"a"}), Transfer("GetCString", {}),
      If("c_str_tmp", HostFree("delete[]", "c_str_tmp")), HostNew("new[]", "c_str_tmp")>>
PreloadedEntryPathname ==
    <<Call("archive_entry_pathname", {"a"}), Transfer("GetCString", {}),
      If("c_str_tmp", HostFree("delete[]", "c_str_tmp")), HostNew("new[]", "c_str_tmp")>>

PreloadedClose ==
    <<Rpc("archive_read_close", {"a"}), Frees(Rpc("archive_read_free", {"a"}), "a"),
      Does(Rpc("archive_write_close", {"ext"}), "closed"),
      Frees(Rpc("archive_write_free", {"ext"}), "ext")>>

PreloadedWriteHeader ==
    OnBad(Does(Call("archive_write_header", {"ext", "a"}), "header"), "header error")
PreloadedReadDataBlock ==
    OnBad(Does(Call("archive_read_data_block", {"a"}), "data"), "data error")
PreloadedWriteDataBlock ==
    OnBad(Does(Call("archive_write_data_block", {"ext"}), "data"), "data error")

PlainExtract ==
    PreloadedPointers \o PreloadedSettings \o <<PreloadedOpenFilename>>
    \o <<At("entry"), PreloadedNextHeader, Either("eof"), Either("extract?")>>
    \o PreloadedEntryPathname
    \o <<At("extract?"), Either("entry"), PreloadedWriteHeader>>
    \o <<Goto("copy_data"), At("header error")>> \o PreloadedErrorString
    \o <<Goto("entry"), At("error")>> \o PreloadedErrorString \o <<Fail>>

PlainCopyData ==
    <<At("copy_data"), PreloadedReadDataBlock, Either("entry"), PreloadedWriteDataBlock,
      Goto("copy_data"), At("data error")>> \o PreloadedErrorString \o <<Goto("entry")>>

\* After the original function, everything is given back here.
PreloadedExtract ==
    Unearned(
        Function({}, {}, {},
            <<Either("sandbox"), HostNew("CreateTempDirAtCWD", "tmp_dir"),
              At("sandbox"), HostNew("new SapiLibarchiveSandboxExtract", "sandbox_extract"), Start,
              HostNew("new LibarchiveApi", "api"), Host("dlsym")>>
            \o PlainExtract \o PlainCopyData \o <<At("eof")>> \o PreloadedClose
            \o <<If("c_str_tmp", HostFree("delete[]", "c_str_tmp")),
                 If("tmp_dir", HostFree("DeleteRecursively", "tmp_dir")),
                 HostFree("delete api", "api"),
                 HostFree("delete sandbox_extract", "sandbox_extract")>>),
        {"header", "data", "closed"})

PlainMain == Function({}, {}, {}, <<Usage, Choose({"create", "extract"}),
                                    At("create"), Host("create"), Return,
                                    At("extract"), Host("extract")>>)

MinitarPrograms ==
    "minitar CreateArchive" :> MinitarCreateArchive
    @@ "minitar ExtractArchive" :> MinitarExtractArchive
    @@ "minitar CopyData" :> MinitarCopyData
    @@ "minitar main" :> MinitarMain
    @@ "plain minitar create" :> PlainCreate
    @@ "preloaded minitar extract" :> PreloadedExtract
    @@ "plain minitar main" :> PlainMain
================================================================================
