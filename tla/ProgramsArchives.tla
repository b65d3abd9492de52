-------------------------- MODULE ProgramsArchives --------------------------
(***************************************************************************)
(* The users of the sandboxed compression and archive libraries: zstd,     *)
(* libzip, brotli, c-blosc.                                                *)
(***************************************************************************)
EXTENDS ProgramLang, TLC

(***************************************************************************)
(* zstd                                                                    *)
(***************************************************************************)
ZstdChecked(fn, uses) == <<Rpc(fn, uses), Call("ZSTD_isError", {})>>

ZstdCompressInMemory ==
    Function({}, {}, {"written"},
        <<Host("read"), Rpc("ZSTD_compressBound", {})>>
        \o ZstdChecked("ZSTD_compress", {})
        \o <<Does(Host("write"), "written")>>)

ZstdDecompressInMemory ==
    Function({}, {}, {"written"},
        <<Host("read")>> \o <<Rpc("ZSTD_getFrameContentSize", {}), Host("size limit"),
                              Call("ZSTD_isError", {})>>
        \o ZstdChecked("ZSTD_decompress", {})
        \o <<Does(Host("write"), "written")>>)

ZstdBuffers ==
    <<Rpc("ZSTD_CStreamInSize", {}), Rpc("ZSTD_CStreamOutSize", {}),
      Transfer("Allocate inbuf", {}), Transfer("Allocate outbuf", {})>>

ZstdParameters ==
    ZstdChecked("ZSTD_CCtx_setParameter", {"cctx"}) \o ZstdChecked("ZSTD_CCtx_setParameter", {"cctx"})

\* A read that fails is taken for the end of the file.
ZstdRead ==
    <<At("read"), OnBad(Does(Host("read"), "read"), "next"),
      Transfer("TransferToSandboxee inbuf", {})>>

\* The context is given back by the function for decompression contexts.
ZstdCompressStream ==
    Unearned(Abandoning(Careless(
        Function({}, {}, {"read", "written"},
            ZstdBuffers \o <<NewRaw("ZSTD_createCCtx", {}, "cctx")>> \o ZstdParameters
            \o ZstdRead \o <<At("compress")>>
            \o ZstdChecked("ZSTD_compressStream2", {"cctx"})
            \o <<Transfer("TransferFromSandboxee outbuf", {}), Does(Host("write"), "written"),
                 Choose({"compress", "read", "next"}),
                 Free("ZSTD_freeDCtx", "cctx")>>),
        {"ZSTD_CCtx_setParameter", "ZSTD_compressStream2", "ZSTD_freeDCtx"}), {"cctx"}),
        {"read"})

\* An empty last read decompresses nothing.  Whether the frame is complete when the
\* file ends (the answer of ZSTD_decompressStream is 0) is not looked at.
ZstdDecompressStream ==
    Unearned(Abandoning(Careless(
        Function({}, {}, {"read", "frame complete"},
            ZstdBuffers \o <<NewRaw("ZSTD_createDCtx", {}, "dctx")>>
            \o ZstdRead \o <<Choose({"decompress", "end"}), At("decompress"),
                             Does(Rpc("ZSTD_decompressStream", {"dctx"}), "frame complete"),
                             Call("ZSTD_isError", {}),
                             Transfer("TransferFromSandboxee outbuf", {}),
                             Does(Host("write"), "written"),
                             Choose({"decompress", "read", "end"}),
                             At("end"), Free("ZSTD_freeDCtx", "dctx")>>),
        {"ZSTD_decompressStream", "ZSTD_freeDCtx"}), {"dctx"}), {"read", "frame complete"})

ZstdSendFds ==
    <<Makes(Transfer("TransferToSandboxee infd", {}), "infd"),
      Makes(Transfer("TransferToSandboxee outfd", {}), "outfd")>>
ZstdCloseFds == <<Free("CloseRemoteFd infd", "infd"), Free("CloseRemoteFd outfd", "outfd")>>

\* Mutant: the answer of ZSTD_isError is dropped.
ZstdCompressInMemoryFDUnchecked ==
    Abandoning(Function({}, {}, {"compressed"},
        ZstdSendFds
        \o <<Rpc("ZSTD_compress_fd", {"infd", "outfd"}),
             OnBad(Does(Call("ZSTD_isError", {}), "compressed"), "next")>>
        \o ZstdCloseFds), {"infd", "outfd"})

\* After an error the remote descriptors are left to the caller's v::Fd.
ZstdCompressInMemoryFD ==
    Abandoning(Function({}, {}, {"compressed"},
        ZstdSendFds
        \o <<Rpc("ZSTD_compress_fd", {"infd", "outfd"}), Does(Call("ZSTD_isError", {}), "compressed")>>
        \o ZstdCloseFds), {"infd", "outfd"})

ZstdDecompressInMemoryFD ==
    Abandoning(Function({}, {}, {"decompressed"},
        ZstdSendFds
        \o <<Rpc("ZSTD_decompress_fd", {"infd", "outfd"}),
             Does(Call("ZSTD_isError", {}), "decompressed")>>
        \o ZstdCloseFds), {"infd", "outfd"})

\* The context is never given back.
ZstdCompressStreamFD ==
    Abandoning(Leaking(Careless(
        Function({}, {}, {"compressed"},
            <<NewRaw("ZSTD_createCCtx", {}, "cctx")>> \o ZstdParameters \o ZstdSendFds
            \o <<Does(Call("ZSTD_compressStream_fd", {"cctx", "infd", "outfd"}), "compressed")>>
            \o ZstdCloseFds),
        {"ZSTD_CCtx_setParameter", "ZSTD_compressStream_fd"}), {"cctx"}), {"cctx", "infd", "outfd"})

ZstdDecompressStreamFD ==
    Abandoning(Leaking(Careless(
        Function({}, {}, {"decompressed"},
            <<NewRaw("ZSTD_createDCtx", {}, "dctx")>> \o ZstdSendFds
            \o <<Does(Call("ZSTD_decompressStream_fd", {"dctx", "infd", "outfd"}), "decompressed")>>
            \o ZstdCloseFds),
        {"ZSTD_decompressStream_fd"}), {"dctx"}), {"dctx", "infd", "outfd"})

ZstdStream ==
    Function({}, {}, {"done"},
        <<Host("open"), Host("open"),
          Does(Call("(De)CompressInMemory or (De)CompressStream", {}), "done")>>)

ZstdFileDescriptor ==
    Function({}, {}, {"done"},
        <<Host("open"), Host("open"),
          Does(Call("(De)CompressInMemoryFD or (De)CompressStreamFD", {}), "done")>>)

ZstdMain ==
    Function({}, {}, {"done"},
        <<Usage, Start, Does(Call("Stream or FileDescriptor", {}), "done")>>)

\* Inside the sandboxee.
FDGetSize == <<Host("lseek end"), Host("lseek set")>>

ZSTD_compress_fd ==
    Function({}, {}, {"written"},
        FDGetSize \o <<Host("read"), Host("ZSTD_compress"), Does(Host("write"), "written")>>)

\* A read that fills the buffer continues the frame, a short one ends it.  An
\* input of whole buffers is never followed by a short read that has data.
ZSTD_compressStream_fd ==
    Unearned(
        Function({}, {}, {"frame ended"},
            <<At("read"), Choose({"full", "short", "end", "fail"}),
              At("full"), Host("ZSTD_compressStream2 continue"), Host("write"),
              Choose({"full", "read"}),
              At("short"), Host("ZSTD_compressStream2 end"), Does(Host("write"), "frame ended"),
              Choose({"short", "read"}),
              At("end")>>),
        {"frame ended"})

ZSTD_decompress_fd ==
    Function({}, {}, {"written"},
        FDGetSize \o <<Host("read"), Host("ZSTD_getFrameContentSize"), Host("size limit"),
                       Host("ZSTD_decompress"), Does(Host("write"), "written")>>)

\* Here, too, the file may end within a frame: only an error stops it.
ZSTD_decompressStream_fd ==
    Unearned(
        Function({}, {}, {"frame complete"},
            <<At("read"), Choose({"data", "end", "fail"}),
              At("data"), OnBad(Does(Host("ZSTD_decompressStream"), "frame complete"), "next"),
              Host("ZSTD_isError"), Does(Host("write"), "written"), Choose({"data", "read"}),
              At("end")>>),
        {"frame complete"})

ZstdPrograms ==
    "zstd CompressInMemory" :> ZstdCompressInMemory
    @@ "zstd DecompressInMemory" :> ZstdDecompressInMemory
    @@ "zstd CompressStream" :> ZstdCompressStream
    @@ "zstd DecompressStream" :> ZstdDecompressStream
    @@ "zstd CompressInMemoryFD" :> ZstdCompressInMemoryFD
    @@ "zstd DecompressInMemoryFD" :> ZstdDecompressInMemoryFD
    @@ "zstd CompressStreamFD" :> ZstdCompressStreamFD
    @@ "zstd DecompressStreamFD" :> ZstdDecompressStreamFD
    @@ "zstd Stream" :> ZstdStream
    @@ "zstd FileDescriptor" :> ZstdFileDescriptor
    @@ "zstd main" :> ZstdMain
    @@ "ZSTD_compress_fd" :> ZSTD_compress_fd
    @@ "ZSTD_compressStream_fd" :> ZSTD_compressStream_fd
    @@ "ZSTD_decompress_fd" :> ZSTD_decompress_fd
    @@ "ZSTD_decompressStream_fd" :> ZSTD_decompressStream_fd

(***************************************************************************)
(* libzip.  zip is the archive that zip_ points to, zipsource the source   *)
(* it was opened from, source one that is being added.                     *)
(***************************************************************************)
LibZipOpenRemote ==
    <<Host("open"), Transfer("TransferToSandboxee rfd_", {}),
      New("zip_read_fd_to_source", {}, "zipsource"),
      Else(New("zip_open_from_source", {"zipsource"}, "zip"), "not opened"),
      OnSapi(Rpc("zip_source_keep", {"zipsource"}), "not kept"), Goto("calls"),
      At("not opened"), Free("zip_source_free", "zipsource"), Reset("zipsource"), Goto("calls"),
      At("not kept"), Reset("zip"), Goto("calls")>>

\* Mutant: the pointer is kept, for the destructor to close once more.
LibZipFinishOnly == <<Frees(Call("zip_close", {"zip"}), "zip")>>
\* Does not test whether the archive is open.
LibZipFinish == <<Frees(Call("zip_close", {"zip"}), "zip"), Reset("zip")>>

LibZipSave ==
    <<If("zip", Fail), Either("own fd"), Transfer("TransferToSandboxee rfd", {}),
      At("own fd"), Call("zip_source_to_fd", {"zipsource"})>>

LibZipGetName == <<Need("zip"), Call("zip_get_name", {"zip"}), Transfer("GetCString", {"zip"})>>
LibZipGetNumberEntries == <<Need("zip"), Call("zip_get_num_entries", {"zip"})>>

LibZipReadFile ==
    <<Need("zip"), Call("zip_stat", {"zip"}), New("zip_fopen", {"zip"}, "zipfile"),
      Either("close file"), Else(Call("zip_fread", {"zipfile"}), "close file"),
      At("close file"), Free("zip_fclose", "zipfile")>>

LibZipGetSource ==
    <<Need("zip"), Choose({"from buffer", "from fd"}),
      At("from buffer"), New("zip_source_buffer", {"zip"}, "source"), Goto("use source"),
      At("from fd"), Transfer("TransferToSandboxee rfd", {}),
      New("zip_source_filefd", {"zip"}, "source"), Goto("use source"),
      At("use source"), Choose({"add", "replace"})>>

\* The archive takes the source over.  If it does not and GetError has no
\* text, the source is not given back.
LibZipAddFile ==
    <<At("add"), OnBad(Frees(Call("zip_file_add", {"zip", "source"}), "source"), "not added"),
      Return,
      At("not added"), Call("zip_strerror", {"zip"}), Transfer("GetCString", {"zip"}),
      Free("zip_source_free", "source"), Fail>>

LibZipReplaceFile ==
    <<At("replace"),
      OnBad(Frees(Call("zip_file_replace", {"zip", "source"}), "source"), "not replaced"),
      Return,
      At("not replaced"), Free("zip_source_free", "source")>>

LibZipDeleteFile == <<Need("zip"), Call("zip_delete", {"zip"})>>
LibZipGetError == <<Need("zip"), Call("zip_strerror", {"zip"}), Transfer("GetCString", {"zip"})>>

LibZipDestructor == <<If("zip", Free("zip_close", "zip")), Free("zip_source_free", "zipsource")>>

LibZip ==
    Leaking(Careless(
        Class({"Finish", "Save", "GetName", "GetNumberEntries", "ReadFile", "AddOrReplace",
               "DeleteFile", "GetError"},
              LibZipOpenRemote,
              Method("Finish", LibZipFinish) \o Method("Save", LibZipSave)
              \o Method("GetName", LibZipGetName)
              \o Method("GetNumberEntries", LibZipGetNumberEntries)
              \o Method("ReadFile", LibZipReadFile)
              \o Method("AddOrReplace", LibZipGetSource \o LibZipAddFile \o LibZipReplaceFile)
              \o Method("DeleteFile", LibZipDeleteFile) \o Method("GetError", LibZipGetError),
              LibZipDestructor),
        {"zip_close", "zip_source_free", "zip_source_to_fd"}), {"source"})

ZipListFiles ==
    Function({"zip"}, {}, {"counted"},
        <<Does(Call("GetNumberEntries", {"zip"}), "counted"), At("entry"), Either("return"),
          Call("GetName", {"zip"}), Goto("entry")>>)

ZipUnzipToStdout == Function({"zip"}, {}, {"read"}, <<Does(Call("ReadFile", {"zip"}), "read")>>)

ZipAddFile ==
    Function({"zip"}, {}, {"added"}, <<Host("open"), Does(Call("AddFile", {"zip"}), "added")>>)

ZipDeleteFile ==
    Function({"zip"}, {}, {"deleted"},
        <<Call("GetNumberEntries", {"zip"}), At("entry"), Either("fail"), Call("GetName", {"zip"}),
          Either("entry"), Does(Call("DeleteFile", {"zip"}), "deleted")>>)

\* Each command stores its status over the one of the command before, so the
\* failure of one is forgotten when another follows.
ZipMain ==
    Unearned(Cleanup(
        Function({}, {}, {"finished"},
            <<Usage, Start, New("LibZip", {}, "zip"), Either("commands"), Host("open outfile"),
              At("commands"), Either("unzip?"),
              Else(Does(Call("ListFiles", {"zip"}), "list"), "list failed"),
              At("unzip?"), Either("add?"),
              At("unzip"), Else(Does(Call("UnzipToStdout", {"zip"}), "unzip"), "unzip failed"),
              At("add?"), Either("delete?"),
              At("add"), Else(Does(Call("AddFile", {"zip"}), "add"), "add failed"),
              At("delete?"), Either("finish"),
              At("delete"), Does(Call("DeleteFile", {"zip"}), "delete"),
              At("finish"), Does(Call("Finish", {"zip"}), "finished"),
              Either("return"), Does(Call("Save", {"zip"}), "saved"), Return,
              At("list failed"), Choose({"fail", "unzip", "add", "delete"}),
              At("unzip failed"), Choose({"fail", "add", "delete"}),
              At("add failed"), Choose({"fail", "delete"})>>),
            <<If("zip", Free("~LibZip", "zip"))>>),
        {"list", "unzip", "add"})

\* Inside the sandboxee: the FILE is closed with the source.
zip_source_filefd ==
    Abandoning(Function({}, {"source", "pfile"}, {},
        <<HostNew("fdopen", "pfile"), HostNew("zip_source_filep", "source")>>), {"pfile"})
zip_source_filefd_create ==
    Abandoning(Function({}, {"source", "pfile"}, {},
        <<HostNew("fdopen", "pfile"), HostNew("zip_source_filep_create", "source")>>), {"pfile"})

\* The source owns the buffer.
zip_read_fd_to_source ==
    Function({}, {"source", "buf"}, {"read"},
        <<Else(Host("FDGetSize"), "next"), Host("size limit"), HostNew("malloc", "buf"),
          Does(OnBad(Host("read"), "free"), "read"),
          OnBad(HostNew("zip_source_buffer_create", "source"), "free"), Return,
          At("free"), HostFree("free", "buf"), Fail>>)

\* zip_source_read returns -1 on an error, which the unsigned size turns into
\* a positive number of bytes to write.
zip_source_to_fd ==
    Unearned(
        Function({"src"}, {}, {"opened"},
            <<Host("lseek"), Host("ftruncate"),
              Does(HostNew("zip_source_open", "open"), "opened"), OnBad(Host("zip_source_seek"), "close"),
              At("read"), Either("end"), Else(Does(Host("zip_source_read"), "all read"), "next"),
              Else(Host("write"), "close"), Goto("read"),
              At("end"), HostFree("zip_source_close", "open"), Return,
              At("close"), HostFree("zip_source_close", "open"), Fail>>),
        {"all read"})

ZipPrograms ==
    "LibZip" :> LibZip
    @@ "zip ListFiles" :> ZipListFiles
    @@ "zip UnzipToStdout" :> ZipUnzipToStdout
    @@ "zip AddFile" :> ZipAddFile
    @@ "zip DeleteFile" :> ZipDeleteFile
    @@ "zip main" :> ZipMain
    @@ "zip_source_filefd" :> zip_source_filefd
    @@ "zip_source_filefd_create" :> zip_source_filefd_create
    @@ "zip_read_fd_to_source" :> zip_read_fd_to_source
    @@ "zip_source_to_fd" :> zip_source_to_fd

(***************************************************************************)
(* brotli: the encoder and the decoder are classes of the same shape.      *)
(***************************************************************************)
BrotliDecoderInit == <<NewRaw("BrotliDecoderCreateInstance", {}, "state")>>
BrotliDecoderSetParameter == <<Need("state"), Call("BrotliDecoderSetParameter", {"state"})>>

\* The result is handed to the caller, who compares it.
BrotliDecoderDecompress ==
    <<Need("state"), Transfer("Allocate", {}), Transfer("TransferToSandboxee", {}),
      Rpc("BrotliDecoderDecompressStream", {"state"})>>

BrotliDecoderTakeOutput ==
    <<Need("state"), OnBad(Call("BrotliDecoderTakeOutput", {"state"}), "return"),
      Host("size limit"), Transfer("TransferFromSandboxee", {"state"})>>

BrotliDecoderDestructor == <<If("state", Free("BrotliDecoderDestroyInstance", "state"))>>

BrotliDecoder ==
    Class({"SetParameter", "Decompress", "TakeOutput"}, BrotliDecoderInit,
          Method("SetParameter", BrotliDecoderSetParameter)
          \o Method("Decompress", BrotliDecoderDecompress)
          \o Method("TakeOutput", BrotliDecoderTakeOutput),
          BrotliDecoderDestructor)

BrotliEncoderInit == <<NewRaw("BrotliEncoderCreateInstance", {}, "state")>>
BrotliEncoderSetParameter == <<Need("state"), Call("BrotliEncoderSetParameter", {"state"})>>

BrotliEncoderCompress ==
    <<Need("state"), Transfer("Allocate", {}), Transfer("TransferToSandboxee", {}),
      Call("BrotliEncoderCompressStream", {"state"})>>

BrotliEncoderTakeOutput ==
    <<Need("state"), OnBad(Call("BrotliEncoderTakeOutput", {"state"}), "return"),
      Host("size limit"), Transfer("TransferFromSandboxee", {"state"})>>

BrotliEncoderDestructor == <<If("state", Free("BrotliEncoderDestroyInstance", "state"))>>

BrotliEncoder ==
    Class({"SetParameter", "Compress", "TakeOutput"}, BrotliEncoderInit,
          Method("SetParameter", BrotliEncoderSetParameter)
          \o Method("Compress", BrotliEncoderCompress)
          \o Method("TakeOutput", BrotliEncoderTakeOutput),
          BrotliEncoderDestructor)

BrotliReadFile ==
    Function({}, {}, {"read"},
        <<Host("open"), Host("size limit"), Does(Host("read"), "read"), Host("fail or eof")>>)
BrotliWriteFile == Function({}, {}, {"written"}, <<Host("open"), Does(Host("write"), "written")>>)

BrotliCompressInMemory ==
    Cleanup(
        Function({}, {}, {"written"},
            <<Else(NewRaw("BrotliEncoderCreateInstance", {}, "state"), "next"), Need("state"), Host("ReadFile"),
              Call("Compress", {"state"}), Call("TakeOutput", {"state"}),
              Does(Host("WriteFile"), "written")>>),
        BrotliEncoderDestructor)

BrotliDecompressInMemory ==
    Cleanup(
        Function({}, {}, {"written"},
            <<Else(NewRaw("BrotliDecoderCreateInstance", {}, "state"), "next"), Need("state"), Host("ReadFile"),
              Call("Decompress", {"state"}), Call("TakeOutput", {"state"}),
              Does(Host("WriteFile"), "written")>>),
        BrotliDecoderDestructor)

BrotliMain ==
    Function({}, {}, {"done"},
        <<Usage, Start, Does(Call("(De)CompressInMemory", {}), "done")>>)

BrotliPrograms ==
    "BrotliDecoder" :> BrotliDecoder
    @@ "BrotliEncoder" :> BrotliEncoder
    @@ "brotli ReadFile" :> BrotliReadFile
    @@ "brotli WriteFile" :> BrotliWriteFile
    @@ "brotli CompressInMemory" :> BrotliCompressInMemory
    @@ "brotli DecompressInMemory" :> BrotliDecompressInMemory
    @@ "brotli main" :> BrotliMain

(***************************************************************************)
(* c-blosc: library is what blosc_init sets up.                            *)
(***************************************************************************)
BloscCompress ==
    Function({"library"}, {}, {"written"},
        <<Host("read"), Call("blosc_set_compressor", {"library"}),
          Call("blosc_set_nthreads", {"library"}), Call("blosc_compress", {"library"}),
          Does(Host("write"), "written")>>)

BloscDecompress ==
    Function({"library"}, {}, {"written"},
        <<Host("read"), Call("blosc_set_nthreads", {"library"}), Transfer("Allocate", {}),
          Transfer("TransferToSandboxee", {}), Rpc("blosc_cbuffer_sizes", {"library"}),
          Host("size limits"), Call("blosc_decompress", {"library"}),
          Does(Host("write"), "written")>>)

BloscStream ==
    Function({"library"}, {}, {"done"},
        <<Host("open"), Host("open"), Does(Call("Compress or Decompress", {"library"}), "done")>>)

BloscMain ==
    Function({}, {}, {"done"},
        <<Usage, Start, Makes(Rpc("blosc_init", {}), "library"),
          Does(Call("Stream", {}), "done"),
          Frees(Rpc("blosc_destroy", {}), "library")>>)

BloscPrograms ==
    "blosc Compress" :> BloscCompress
    @@ "blosc Decompress" :> BloscDecompress
    @@ "blosc Stream" :> BloscStream
    @@ "blosc main" :> BloscMain

ArchivePrograms == ZstdPrograms @@ ZipPrograms @@ BrotliPrograms @@ BloscPrograms
================================================================================
