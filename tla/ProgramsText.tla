---------------------------- MODULE ProgramsText ----------------------------
(***************************************************************************)
(* The users of the sandboxed text libraries: uriparser, hunspell, libxls, *)
(* jsonnet, libidn2.                                                       *)
(***************************************************************************)
EXTENDS ProgramLang, TLC

(***************************************************************************)
(* uriparser: uri is what uri_ refers to once it has been parsed, base the *)
(* same of a second parser, newuri a reference that the library combines.  *)
(***************************************************************************)
UriParseUri ==
    <<Transfer("Allocate", {}), New("uriParseUriA", {}, "uri"),
      Else(Transfer("TransferFromSandboxee uri_", {"uri"}), "not parsed"), Goto("calls"),
      At("not parsed"), Reset("uri")>>

\* Fields that are absent are empty texts.
UriFetchUriText(next) == <<Either(next), Transfer("GetCString", {"uri"})>>
UriGetText == UriFetchUriText("return")
UriGetHostIP == <<Either("return"), Transfer("TransferFromSandboxee ip", {"uri"})>>
UriGetPath ==
    <<At("segment"), Either("return"), Transfer("TransferFromSandboxee path_segment", {"uri"})>>
    \o UriFetchUriText("segment") \o <<Goto("segment")>>

UriNormalizeSyntax ==
    <<Rpc("uriNormalizeSyntaxMaskRequiredA", {"uri"}), Call("uriNormalizeSyntaxExA", {"uri"})>>

UriGetUri(u) == <<Call("uriToStringCharsRequiredA", {u}), Call("uriToStringA", {u})>>
UriGetUriEscaped == UriGetUri("uri") \o <<Rpc("uriEscapeA", {})>>

\* The base is not asked whether it could be parsed.
UriRebased(fn, end) ==
    Within(<<Else(New("uriParseUriA", {}, "base"), "next"), New(fn, {"uri", "base"}, "newuri")>>
             \o UriGetUri("newuri"), end)
    \o <<At(end), If("newuri", Free("uriFreeUriMembersA", "newuri")), Reset("newuri"),
         If("base", Free("uriFreeUriMembersA", "base")), Reset("base")>>

UriGetUriWithBase == UriRebased("uriAddBaseUriA", "base added")
UriGetUriWithoutBase == UriRebased("uriRemoveBaseUriA", "base removed")

UriGetQueryElements ==
    <<Either("return"), New("uriDissectQueryMallocA", {"uri"}, "list"),
      At("element"), Either("list end"), Else(Transfer("TransferFromSandboxee obj", {"list"}), "list end"),
      Else(Transfer("GetCString key", {"list"}), "list end"), Either("element"),
      Else(Transfer("GetCString value", {"list"}), "list end"), Goto("element"),
      At("list end"), Free("uriFreeQueryListA", "list"), Reset("list")>>

UriParserDestructor == <<If("uri", Free("uriFreeUriMembersA", "uri"))>>

\* The users of the class ask GetStatus before anything else.
UriMethod(name, code) == Method(name, <<NeedElse("uri", "return")>> \o code)

UriParser ==
    Careless(
        Class({"GetText", "GetHostIP", "GetPath", "NormalizeSyntax", "GetUri", "GetUriEscaped",
               "GetUriWithBase", "GetUriWithoutBase", "GetQueryElements"},
              UriParseUri,
              UriMethod("GetText", UriGetText) \o UriMethod("GetHostIP", UriGetHostIP)
              \o UriMethod("GetPath", UriGetPath)
              \o UriMethod("NormalizeSyntax", UriNormalizeSyntax)
              \o UriMethod("GetUri", UriGetUri("uri"))
              \o UriMethod("GetUriEscaped", UriGetUriEscaped)
              \o UriMethod("GetUriWithBase", UriGetUriWithBase)
              \o UriMethod("GetUriWithoutBase", UriGetUriWithoutBase)
              \o UriMethod("GetQueryElements", UriGetQueryElements),
              UriParserDestructor),
        {"uriAddBaseUriA", "uriRemoveBaseUriA"})

\* A field that cannot be fetched is reported by Print only, a URI that
\* cannot be normalised on the error stream only.
UriMain ==
    Unearned(
        Function({}, {}, {"parsed", "path", "query"},
            <<Usage, Start, At("argument"),
              Else(Does(New("UriParser", {}, "uri"), "parsed"), "not parsed"),
              Else(Does(Call("Print fields", {"uri"}), "fields"), "next"),
              Else(Does(Call("GetPath", {"uri"}), "path"), "note"),
              Else(Does(Call("GetQueryElements", {"uri"}), "query"), "note"),
              Else(Does(Call("NormalizeSyntax", {"uri"}), "normalized"), "drop"),
              Else(Does(Call("GetUri", {"uri"}), "text"), "note"), Goto("drop"),
              At("note"), NoteFailure,
              At("drop"), Free("~UriParser", "uri"), Choose({"argument", "return"}),
              At("not parsed"), NoteFailure, Choose({"argument", "return"})>>),
        {"fields", "normalized"})

(***************************************************************************)
(* hunspell: the list of suggestions is given back only on the way out     *)
(* without an error; the handle is not tested.                             *)
(***************************************************************************)
HunspellPrintSuggest ==
    Function({"hunspell"}, {}, {},
        <<OnBad(New("Hunspell_suggest", {"hunspell"}, "list"), "return"),
          Transfer("TransferFromSandboxee ptr_list", {"list"}),
          At("suggestion"), Transfer("GetCString", {"list"}), Either("suggestion"),
          Free("Hunspell_free_list", "list")>>)

HunspellMain ==
    Unearned(Careless(
        Function({}, {}, {},
            <<Usage, Start, NewRaw("Hunspell_create", {}, "hunspell"), Host("open words"),
              At("word"), OnBad(Does(Host("getline"), "words read"), "end"), Either("end"),
              Does(OnBad(Call("Hunspell_spell", {"hunspell"}), "wrong"), "checked"),
              Goto("word"),
              At("wrong"), Else(Does(Call("PrintSuggest", {"hunspell"}), "suggested"), "next"), Goto("word"),
              At("end"), Free("Hunspell_destroy", "hunspell")>>),
        {"Hunspell_spell", "PrintSuggest", "Hunspell_destroy"}),
        {"words read", "checked", "suggested"})

(***************************************************************************)
(* libxls                                                                  *)
(***************************************************************************)
\* The text of the error, or the failure to get it: an error either way.
XlsGetError == <<At("GetError"), Rpc("xls_getError", {}), Transfer("GetCString", {}), Fail>>

XlsOpen ==
    Function({}, {"wb"}, {"opened"},
        <<OnBad(New("xls_open_file", {}, "wb"), "GetError"),
          Does(Transfer("TransferFromSandboxee sapi_wb", {"wb"}), "opened"), Return>> \o XlsGetError)

\* A sheet that cannot be parsed is not closed.
XlsOpenSheet ==
    Abandoning(
        Function({"wb"}, {"ws"}, {"parsed"},
            <<Host("index in range"), New("xls_getWorkSheet", {"wb"}, "ws"),
              Does(OnBad(Call("xls_parseWorkSheet", {"ws"}), "GetError"), "parsed"), Return>> \o XlsGetError),
        {"ws"})

XlsGetStr == <<At("GetStr"), Either("return"), Transfer("GetCString", {"ws"}), Return>>

\* Numbers and blanks are in the cell, formulas have a text, other records
\* are refused.
XlsGetNewCell == <<Choose({"return", "GetStr", "fail"})>> \o XlsGetStr

XlsGetCell ==
    Function({"ws"}, {}, {"cell"},
        <<Host("row in range"), Host("column in range"), Call("xls_cell", {"ws"}),
          Does(Transfer("TransferFromSandboxee sapi_cell", {"ws"}), "cell")>> \o XlsGetNewCell)

XlsWorkbookDestructor == <<If("wb", Free("xls_close_WB", "wb"))>>
XlsSheetDestructor == <<If("ws", Free("xls_close_WS", "ws"))>>

\* The workbook's status is not looked at.
XlsMain ==
    Careless(Cleanup(
        Function({}, {}, {"sheet"},
            <<Usage, Start, Else(New("Open", {}, "wb"), "next"),
              Does(New("OpenSheet", {"wb"}, "ws"), "sheet"),
              At("cell"), Either("return"), Does(Call("GetCell", {"ws"}), "cell"), Goto("cell")>>),
            XlsSheetDestructor \o XlsWorkbookDestructor),
        {"OpenSheet"})

(***************************************************************************)
(* jsonnet: neither the virtual machine nor the input, null when the file  *)
(* cannot be read, is tested.                                              *)
(***************************************************************************)
JsonnetSteps(evaluate) ==
    <<NewRaw("c_jsonnet_make", {}, "vm"), NewRaw("c_read_input", {}, "input"),
      New(evaluate, {"vm", "input"}, "output"),
      Does(Call("c_write_output_file", {"output"}), "written"),
      Frees(Rpc("c_jsonnet_realloc", {"vm", "output"}), "output"),
      Frees(Rpc("c_jsonnet_destroy", {"vm"}), "vm"), Frees(Rpc("c_free_input", {}), "input")>>

JsonnetUntested(evaluate) == {evaluate, "c_jsonnet_realloc", "c_jsonnet_destroy"}

JsonnetRun(evaluate) ==
    Careless(Function({}, {}, {"written"}, <<Start>> \o JsonnetSteps(evaluate)),
             JsonnetUntested(evaluate))

JsonnetBase == JsonnetRun("c_jsonnet_evaluate_snippet")
JsonnetFormatter == JsonnetRun("c_jsonnet_fmt_snippet")
JsonnetMultiple == JsonnetRun("c_jsonnet_evaluate_snippet_multi")
JsonnetStream == JsonnetRun("c_jsonnet_evaluate_snippet_stream")

\* The sandboxee of a transaction stays for the next try.
JsonnetTransactionMain ==
    Abandoning(Careless(
        Function({}, {}, {"written"}, JsonnetSteps("c_jsonnet_evaluate_snippet")),
        JsonnetUntested("c_jsonnet_evaluate_snippet")), {"vm", "input", "output"})

JsonnetMain == Function({}, {}, {"done"}, <<Usage, Does(Host("JsonnetMain"), "done")>>)
JsonnetRunTransaction == Function({}, {}, {"done"}, <<Usage, Does(Host("Run"), "done")>>)

\* Inside the sandboxee: the copy is lost when the file could not be read.
c_read_input ==
    Abandoning(Function({}, {"c_input"}, {"read"},
        <<OnBad(Does(Host("read_input"), "read"), "not read"), HostNew("strdup", "c_input"), Return,
          At("not read"), HostNew("strdup", "c_input"), Fail>>), {"c_input"})

(***************************************************************************)
(* libidn2: the name the library allocates is freed in every case.         *)
(***************************************************************************)
Idn2ProcessErrors ==
    <<Else(Transfer("GetCString", {"name"}), "free, fail"), Frees(Rpc("Free", {"name"}), "name"), Return,
      At("free, fail"), Frees(Rpc("Free", {"name"}), "name"), Fail>>

Idn2Call(fn) == Function({}, {}, {"name"}, <<Does(New(fn, {}, "name"), "name")>> \o Idn2ProcessErrors)
Idn2RegisterU8 == Idn2Call("idn2_register_u8")
Idn2ToUnicode == Idn2Call("idn2_to_unicode_8z8z")
Idn2ToAscii == Idn2Call("idn2_to_ascii_8z")
Idn2LookupU8 == Idn2Call("idn2_lookup_u8")

TextPrograms ==
    "UriParser" :> UriParser @@ "uriparser main" :> UriMain
    @@ "hunspell PrintSuggest" :> HunspellPrintSuggest @@ "hunspell main" :> HunspellMain
    @@ "xls Open" :> XlsOpen @@ "xls OpenSheet" :> XlsOpenSheet @@ "xls GetCell" :> XlsGetCell
    @@ "xls main" :> XlsMain
    @@ "jsonnet base" :> JsonnetBase @@ "jsonnet formatter" :> JsonnetFormatter
    @@ "jsonnet multiple files" :> JsonnetMultiple @@ "jsonnet yaml stream" :> JsonnetStream
    @@ "jsonnet transaction" :> JsonnetTransactionMain @@ "jsonnet main" :> JsonnetMain
    @@ "jsonnet transaction main" :> JsonnetRunTransaction @@ "c_read_input" :> c_read_input
    @@ "idn2_register_u8" :> Idn2RegisterU8 @@ "idn2_to_unicode_8z8z" :> Idn2ToUnicode
    @@ "idn2_to_ascii_8z" :> Idn2ToAscii @@ "idn2_lookup_u8" :> Idn2LookupU8
================================================================================
