--------------------------- MODULE ProgramsImages ---------------------------
(***************************************************************************)
(* The users of the sandboxed image and data libraries: libraw, libtiff,   *)
(* lodepng, libpng, openjpeg, guetzli, gdal, woff2, zopfli, pffft.         *)
(***************************************************************************)
EXTENDS ProgramLang, TLC

(***************************************************************************)
(* libraw: lr is the library's structure, init stands for init_status_,    *)
(* which every method asks first.                                          *)
(***************************************************************************)
RawInitLibRaw ==
    <<New("libraw_init", {}, "lr"), Makes(Transfer("TransferFromSandboxee", {"lr"}), "init")>>

RawMethod(name, code) == Method(name, <<Need("init")>> \o code)
RawOpenFile == RawMethod("OpenFile", <<Call("libraw_open_file", {"lr"})>>)
RawUnpack == RawMethod("Unpack", <<Call("libraw_unpack", {"lr"})>>)
RawSubtractBlack == RawMethod("SubtractBlack", <<Rpc("libraw_subtract_black", {"lr"})>>)
RawGetCameraList ==
    RawMethod("GetCameraList",
        <<Rpc("libraw_cameraCount", {}), Rpc("libraw_cameraList", {}),
          Transfer("TransferFromSandboxee camera_list", {})>>)
RawCOLOR == RawMethod("COLOR", <<Rpc("libraw_COLOR", {"lr"})>>)
RawGetRawHeight == RawMethod("GetRawHeight", <<Rpc("libraw_get_raw_height", {"lr"})>>)
RawGetRawWidth == RawMethod("GetRawWidth", <<Rpc("libraw_get_raw_width", {"lr"})>>)
RawGetCBlack == RawMethod("GetCBlack", <<Host("channel in range")>>)
RawRawData ==
    RawMethod("RawData",
        <<Rpc("libraw_get_raw_height", {"lr"}), Rpc("libraw_get_raw_width", {"lr"}),
          Transfer("TransferFromSandboxee rawdata", {"lr"})>>)
RawDestructor == <<If("lr", Free("libraw_close", "lr")), If("init", HostFree("~Status", "init"))>>

LibRaw ==
    Class({"OpenFile", "Unpack", "SubtractBlack", "GetCameraList", "COLOR", "GetRawHeight",
           "GetRawWidth", "GetCBlack", "RawData"},
          RawInitLibRaw,
          RawOpenFile \o RawUnpack \o RawSubtractBlack \o RawGetCameraList \o RawCOLOR
          \o RawGetRawHeight \o RawGetRawWidth \o RawGetCBlack \o RawRawData,
          RawDestructor)

\* Failures to subtract the black level and to get a colour only show in the
\* output.
RawMain ==
    Unearned(Cleanup(
        Function({}, {}, {"data"},
            <<Usage, Start, New("LibRaw", {}, "lr"), Call("OpenFile", {"lr"}), Host("channel"),
              Call("Unpack", {"lr"}), Else(Does(Call("SubtractBlack", {"lr"}), "black"), "next"),
              Does(Call("RawData", {"lr"}), "data"), Rpc("GetRawHeight", {"lr"}),
              Rpc("GetRawWidth", {"lr"}),
              At("row"), Either("return"), Either("column"),
              Else(Does(Call("COLOR", {"lr"}), "colors"), "next"),
              At("column"), Either("row"), Host("GetCBlack"), Choose({"column", "row"})>>),
            <<If("lr", Free("~LibRaw", "lr"))>>),
        {"black", "colors"})

(***************************************************************************)
(* libtiff.  A sandbox that did not start is reported; the first request   *)
(* then fails.                                                             *)
(***************************************************************************)
TiffMain ==
    Unearned(
        Function({}, {}, {"clusters", "RGBA"},
            <<Start, New("TIFFOpen", {}, "tif"), Call("TIFFGetField2", {"tif"}),
              Call("TIFFTileSize", {"tif"}), Call("TIFFReadEncodedTile", {"tif"}),
              Does(Host("CheckCluster"), "clusters"),
              Else(Does(Call("TIFFSetFieldU1", {"tif"}), "color mode"), "next"),
              Call("TIFFTileSize", {"tif"}), Call("TIFFReadEncodedTile", {"tif"}),
              OnBad(Host("CheckRgbPixel"), "wrong RGB"), At("RGB checked"),
              Free("TIFFClose", "tif"),
              New("TIFFOpen", {}, "tif2"), Does(Call("TIFFReadRGBATile", {"tif2"}), "RGBA"),
              OnBad(Host("CheckRgbaPixel"), "wrong RGBA"), At("RGBA checked"),
              Free("TIFFClose", "tif2"), Return,
              At("wrong RGB"), NoteFailure, Goto("RGB checked"),
              At("wrong RGBA"), NoteFailure, Goto("RGBA checked")>>),
        {"color mode"})

(***************************************************************************)
(* lodepng: every failure is a CHECK.                                      *)
(***************************************************************************)
LodepngOneStep ==
    Aborting(Function({}, {}, {"same"},
        <<Call("lodepng_encode32_file", {}), New("lodepng_decode32_file", {}, "pixels"),
          Host("sizes"), Transfer("TransferFromSandboxee sapi_pixels", {"pixels"}),
          Does(Host("compare"), "same"), Give("Free", "pixels")>>))

LodepngTwoSteps ==
    Aborting(Function({}, {}, {"same"},
        <<New("lodepng_encode32", {}, "png"), Transfer("TransferFromSandboxee sapi_png_array", {"png"}),
          Call("lodepng_save_file", {"png"}), New("lodepng_load_file", {}, "png2"), Host("png sizes"),
          Transfer("TransferFromSandboxee sapi_png_array2", {"png2"}),
          New("lodepng_decode32", {"png2"}, "pixels"), Host("sizes"),
          Transfer("TransferFromSandboxee sapi_pixels", {"pixels"}), Does(Host("compare"), "same"),
          Give("Free", "png"), Give("Free", "png2"), Give("Free", "pixels")>>))

LodepngMain ==
    Function({}, {}, {"one", "two"},
        <<Host("GetCWD"), HostNew("CreateTempDir", "dir"), Host("Exists"), Start,
          Does(Call("EncodeDecodeOneStep", {"dir"}), "one"),
          Does(Call("EncodeDecodeTwoSteps", {"dir"}), "two"), HostFree("DeleteRecursively", "dir")>>)

PlainLodepngOneStep ==
    Aborting(Function({}, {}, {"same"},
        <<Host("lodepng_encode32_file"), HostNew("lodepng_decode32_file", "image2"), Host("sizes"),
          Does(Local(Call("compare", {"image2"})), "same"), HostFree("free", "image2")>>))

PlainLodepngTwoSteps ==
    Aborting(Function({}, {}, {"same"},
        <<HostNew("lodepng_encode32", "png"), Local(Call("lodepng_save_file", {"png"})),
          HostNew("lodepng_load_file", "png2"), Host("png sizes"),
          Local(New("lodepng_decode32", {"png2"}, "image2")), Host("sizes"),
          Does(Local(Call("compare", {"image2"})), "same"),
          HostFree("free", "png"), HostFree("free", "png2"), HostFree("free", "image2")>>))

PlainLodepngMain ==
    Aborting(Function({}, {}, {"one", "two"},
        <<Host("GetCWD"), HostNew("CreateTempDir", "dir"), Host("Exists"),
          Does(Host("EncodeDecodeOneStep"), "one"), Does(Host("EncodeDecodeTwoSteps"), "two"),
          HostFree("DeleteRecursively", "dir")>>))

(***************************************************************************)
(* libpng.  png_fclose closes the remote descriptor that the v::Fd, which  *)
(* still owns it, closes once more.  The structures are never destroyed.   *)
(***************************************************************************)
PngCopy ==
    Function({}, {}, {"written"},
        <<Start, New("png_image_begin_read_from_file", {}, "image"),
          Frees(Call("png_image_finish_read", {"image"}), "image"),
          Does(Call("png_image_write_to_file", {}), "written")>>)

PngOpened ==
    <<Host("open"), Makes(Transfer("TransferToSandboxee fd", {}), "fd"), Host("remote fd"),
      New("png_fdopen", {"fd"}, "file")>>

PngStructs(create) ==
    <<New(create, {}, "struct"), New("png_create_info_struct", {"struct"}, "info"),
      Rpc("png_setjmp", {"struct"}), Rpc("png_init_io_wrapper", {"struct", "file"})>>

PngClosed == <<[Rpc("png_fclose", {"file"}) EXCEPT !.frees = {"file", "fd"}]>>

PngFunction(goal, code) ==
    Careless(Leaking(Abandoning(
        Cleanup(Function({}, {}, {goal}, code), <<If("fd", Free("~Fd", "fd"))>>),
        {"file", "struct", "info"}), {"struct", "info"}), {"~Fd"})

PngRead ==
    PngFunction("read",
        PngOpened
        \o <<Rpc("png_fread", {"file"}), Call("png_sig_cmp", {})>>
        \o PngStructs("png_create_read_struct_wrapper")
        \o <<Rpc("png_set_sig_bytes", {"struct"}), Rpc("png_read_info", {"struct", "info"}),
             Rpc("png_get_*", {"struct", "info"}), Rpc("png_read_update_info", {"struct", "info"}),
             Rpc("png_setjmp", {"struct"}), Rpc("png_get_rowbytes", {"struct", "info"}),
             Does(Transfer("png_read_image_wrapper", {"struct"}), "read")>>
        \o PngClosed)

PngWrite ==
    PngFunction("written",
        PngOpened \o PngStructs("png_create_write_struct_wrapper")
        \o <<Rpc("png_setjmp", {"struct"}), Rpc("png_set_IHDR", {"struct", "info"}),
             Rpc("png_write_info", {"struct", "info"}), Rpc("png_setjmp", {"struct"}),
             Rpc("png_write_image_wrapper", {"struct"}), Rpc("png_setjmp", {"struct"}),
             Does(Transfer("png_write_end", {"struct"}), "written")>>
        \o PngClosed)

PngSwapColors ==
    Function({}, {}, {"written"},
        <<Start, Call("ReadPng", {}), Host("color type"), Does(Call("WritePng", {}), "written")>>)

PngMain == Function({}, {}, {"done"}, <<Usage, Does(Host("LibPNGMain"), "done")>>)
PngSwapMain == Function({}, {}, {"done"}, <<Usage, Does(Host("LibPNGMain"), "done")>>)

(***************************************************************************)
(* openjpeg: neither the stream nor the codec is tested.                   *)
(***************************************************************************)
OpenjpegMain ==
    Careless(
        Function({}, {}, {"saved"},
            <<Usage, Start, NewRaw("opj_stream_create_default_file_stream", {}, "stream"),
              NewRaw("opj_create_decompress", {}, "codec"),
              Rpc("opj_set_default_decoder_parameters", {}), Call("opj_setup_decoder", {"codec"}),
              New("opj_read_header", {"stream", "codec"}, "image"),
              Transfer("TransferFromSandboxee image", {"image"}),
              Call("opj_decode", {"codec", "stream", "image"}),
              Call("opj_end_decompress", {"codec", "stream"}),
              Transfer("TransferFromSandboxee image_components", {"image"}),
              At("component"), Either("save"),
              Transfer("TransferFromSandboxee image_components_data", {"image"}), Goto("component"),
              At("save"), Does(Host("imagetopnm"), "saved"), Give("opj_image_destroy", "image"),
              Give("opj_stream_destroy", "stream"), Give("opj_destroy_codec", "codec")>>),
        {"opj_setup_decoder", "opj_read_header", "opj_decode", "opj_end_decompress",
         "opj_stream_destroy", "opj_destroy_codec"})

(***************************************************************************)
(* guetzli.  Inside the sandboxee a short read counts as the whole file.   *)
(***************************************************************************)
GuetzliReadFromFd ==
    Unearned(Function({}, {}, {"read"},
        <<Host("fstat"), Does(Host("read"), "read"), Else(Does(Host("whole file"), "whole"), "next")>>),
        {"whole"})

GuetzliReadPNG ==
    Function({}, {}, {"pixels"},
        <<HostNew("png_create_read_struct", "png"),
          OnBad(HostNew("png_create_info_struct", "info"), "no info"),
          OnBad(Host("png_read_png"), "error"), OnBad(Does(Host("channels"), "pixels"), "error"),
          HostFree("png_destroy_read_struct", "info"), HostFree("png_destroy_read_struct", "png"), Return,
          At("error"), HostFree("png_destroy_read_struct", "info"),
          At("no info"), HostFree("png_destroy_read_struct", "png"), Fail>>)

\* CreateLenValFromData does not test the memory it gets.
GuetzliCreateLenVal == <<Else(HostNew("malloc", "output"), "next"), Local(Rpc("memcpy", {"output"}))>>

GuetzliProcessJpeg ==
    Careless(Function({}, {"output"}, {"processed"},
        <<Host("PrepareDataForProcessing"), Host("ReadJpeg"), Host("memory limit"),
          Does(Host("Process"), "processed")>> \o GuetzliCreateLenVal), {"memcpy"})

GuetzliProcessRgb ==
    Careless(Function({}, {"output"}, {"processed"},
        <<Host("PrepareDataForProcessing"), Host("ReadPNG"), Host("memory limit"),
          Does(Host("Process"), "processed")>> \o GuetzliCreateLenVal), {"memcpy"})

GuetzliImageType == <<Host("read magic"), Host("lseek")>>

\* The old output file is gone when linking the new one fails.
GuetzliLinkOutFile == <<Either("link"), Host("remove"), At("link"), Does(Host("linkat"), "linked")>>

GuetzliTransactionMain ==
    Function({}, {}, {"linked"},
        <<Host("open")>> \o GuetzliImageType
        \o <<Transfer("TransferToSandboxee in_fd", {}), Host("remote fd"),
             Call("ProcessJpeg or ProcessRgb", {}), Host("open tmpfile"),
             Transfer("TransferToSandboxee out_fd", {}), Host("remote fd"),
             Call("WriteDataToFd", {})>>
        \o GuetzliLinkOutFile)

GuetzliMain ==
    Function({}, {}, {"done"},
        <<At("option"), Either("files"), Host("flag"), Goto("option"), At("files"), Usage,
          Does(Host("Run"), "done")>>)

(***************************************************************************)
(* gdal.  Drivers and bands belong to the library and to the dataset.      *)
(***************************************************************************)
GdalRaster ==
    Careless(Leaking(
        Function({}, {"driver", "band"}, {"raster"},
            <<Start, Rpc("GDALAllRegister", {}), New("GDALOpen", {}, "dataset"),
              NewRaw("GDALGetDatasetDriver", {"dataset"}, "driver"),
              Rpc("GDALGetDriverShortName", {"driver"}), Rpc("GDALGetDriverLongName", {"driver"}),
              Transfer("GetCString short", {"driver"}), Transfer("GetCString long", {"driver"}),
              Call("GDALGetGeoTransform", {"dataset"}), New("GDALGetRasterBand", {"dataset"}, "band"),
              Rpc("GDALGetBlockSize", {"band"}), Rpc("GDALGetRasterBandXSize", {"band"}),
              Rpc("GDALGetRasterBandYSize", {"band"}), Does(Call("GDALRasterIO", {"band"}), "raster")>>),
        {"dataset"}),
        {"GDALGetDriverShortName", "GDALGetDriverLongName", "GetCString short", "GetCString long"})

GdalRasterMain == Function({}, {}, {"done"}, <<Usage, Host("open"), Does(Host("GdalMain"), "done")>>)

\* The sandboxee and the dataset stay for the next try of the transaction.
GdalTransactionMain ==
    Abandoning(Function({}, {}, {"closed"},
        <<Rpc("GDALAllRegister", {}), Call("GDALGetDriverByName", {}), New("GDALCreate", {}, "dataset"),
          At("band"), Either("projection"), Call("GDALGetRasterBand", {"dataset"}),
          Call("GDALRasterIO", {"dataset"}), Call("GDALSetRasterColorInterpretation", {"dataset"}),
          Either("band"), Call("GDALSetRasterNoDataValue", {"dataset"}), Goto("band"),
          At("projection"), Either("transform"), Call("GDALSetProjection", {"dataset"}),
          At("transform"), Either("close"), Call("GDALSetGeoTransform", {"dataset"}),
          At("close"), Does(Frees(Transfer("GDALClose", {"dataset"}), "dataset"), "closed")>>), {"dataset"})

\* In the host.  The dataset is not tested and a band that cannot be read is
\* passed on as zeros.  There is no place for the library to say that a band
\* has a no-data value, so none is ever recorded.
GdalGetRasterBands ==
    Careless(Unearned(Function({}, {}, {},
        <<Else(HostNew("GDALOpen", "dataset"), "next"), Local(Rpc("GDALGetDatasetDriver", {"dataset"})),
          Local(Rpc("GDALGetRaster*Size", {"dataset"})), Local(Rpc("GDALGetProjectionRef", {"dataset"})),
          Local(Rpc("GDALGetGeoTransform", {"dataset"})), Local(Rpc("GDALGetRasterCount", {"dataset"})),
          At("band"), Either("close"), Local(Rpc("GDALGetRasterBand", {"dataset"})),
          Local(Does(Rpc("GDALRasterIO", {"dataset"}), "band")), Goto("band"),
          At("close"), HostFree("GDALClose", "dataset")>>), {"band"}),
        {"GDALGetDatasetDriver", "GDALGetRaster*Size", "GDALGetProjectionRef", "GDALGetGeoTransform",
         "GDALGetRasterCount", "GDALGetRasterBand", "GDALRasterIO", "GDALClose"})

\* The descriptor of the file is never closed.
GdalTempFile ==
    Leaking(Class({}, <<[HostNew("CreateNamedTempFile", "file") EXCEPT !.makes = {"file", "fd"}]>>, <<>>,
                  <<If("file", HostFree("unlink", "file"))>>), {"fd"})

GdalSaveToGTiff ==
    Function({}, {}, {"saved"}, <<Host("FindProjDbPath"), Does(Host("Run"), "saved")>>)
GdalMain ==
    Function({}, {}, {"saved"},
        <<Usage, Host("GetRasterBandsFromFile"), Does(Host("SaveToGTiff"), "saved")>>)

(***************************************************************************)
(* woff2, inside the sandboxee: the buffer is the caller's on success.     *)
(***************************************************************************)
Woff2Convert(checks) ==
    Function({}, {"buffer"}, {"converted"},
        checks \o <<HostNew("make_unique", "buffer"),
                    OnBad(Does(Host("Convert"), "converted"), "drop"), Return,
                    At("drop"), HostFree("~unique_ptr", "buffer"), Fail>>)

WOFF2_ConvertWOFF2ToTTF == Woff2Convert(<<Host("arguments"), Host("size limit")>>)
WOFF2_ConvertTTFToWOFF2 == Woff2Convert(<<Host("arguments")>>)

(***************************************************************************)
(* zopfli: the compressed data that the library allocates is not freed.    *)
(***************************************************************************)
ZopfliCompress ==
    Careless(Leaking(Function({}, {}, {"written"},
        <<Host("read"), Rpc("ZopfliInitOptions", {}), NewRaw("ZopfliCompress", {}, "out"),
          Transfer("TransferFromSandboxee outbuf", {"out"}), Does(Host("write"), "written")>>), {"out"}),
        {"TransferFromSandboxee outbuf"})

ZopfliCloseFds == <<Free("CloseRemoteFd infd", "infd"), Free("CloseRemoteFd outfd", "outfd")>>

ZopfliCompressFds ==
    Function({}, {}, {"compressed"},
        <<Makes(Transfer("TransferToSandboxee infd", {}), "infd"),
          Makes(Transfer("TransferToSandboxee outfd", {}), "outfd"), Rpc("ZopfliInitOptions", {}),
          Does(OnBad(Call("ZopfliCompressFD", {"infd", "outfd"}), "not compressed"), "compressed")>>
        \o ZopfliCloseFds \o <<Return, At("not compressed")>> \o ZopfliCloseFds \o <<Fail>>)

ZopfliCompressMain ==
    Function({}, {}, {"done"}, <<Host("open"), Host("open"), Does(Call("Compress", {}), "done")>>)
ZopfliCompressMainFD ==
    Function({}, {}, {"done"}, <<Host("open"), Host("open"), Does(Call("CompressFD", {}), "done")>>)
ZopfliMain ==
    Function({}, {}, {"done"}, <<Usage, Start, Does(Call("CompressMain or CompressMainFD", {}), "done")>>)

\* Inside the sandboxee.
ZopfliCompressFD ==
    Function({}, {}, {"written"},
        <<Host("lseek end"), Host("lseek set"), Host("read"), Else(HostNew("ZopfliCompress", "outbuf"), "next"),
          OnBad(Does(Host("write"), "written"), "not written"), If("outbuf", HostFree("free", "outbuf")), Return,
          At("not written"), If("outbuf", HostFree("free", "outbuf")), Fail>>)

(***************************************************************************)
(* pffft: for every size and kind of transformation two benchmarks.        *)
(***************************************************************************)
PffftMain ==
    Careless(
        Function({}, {}, {"transformed"},
            <<Start, At("size"), Choose({"complex", "real"}),
              At("complex"), Rpc("cffti", {}), At("cfft"), Rpc("cfftf", {}), Rpc("cfftb", {}),
              Choose({"cfft", "setup"}),
              At("real"), Rpc("rffti", {}), At("rfft"), Rpc("rfftf", {}), Rpc("rfftb", {}),
              Choose({"rfft", "setup"}),
              At("setup"), NewRaw("pffft_new_setup", {}, "s"),
              At("transform"), Rpc("pffft_transform", {"s"}),
              Does(Transfer("pffft_transform", {"s"}), "transformed"),
              Either("transform"), Give("pffft_destroy_setup", "s"), Choose({"size", "return"})>>),
        {"pffft_transform", "pffft_destroy_setup"})
PffftRun == Function({}, {}, {"done"}, <<Does(Host("PffftMain"), "done")>>)

ImagePrograms ==
    "LibRaw" :> LibRaw @@ "libraw main" :> RawMain @@ "libtiff main" :> TiffMain
    @@ "lodepng one step" :> LodepngOneStep @@ "lodepng two steps" :> LodepngTwoSteps
    @@ "lodepng main" :> LodepngMain @@ "plain lodepng one step" :> PlainLodepngOneStep
    @@ "plain lodepng two steps" :> PlainLodepngTwoSteps @@ "plain lodepng main" :> PlainLodepngMain
    @@ "libpng copy" :> PngCopy @@ "libpng ReadPng" :> PngRead @@ "libpng WritePng" :> PngWrite
    @@ "libpng swap colors" :> PngSwapColors @@ "libpng main" :> PngMain
    @@ "libpng swap main" :> PngSwapMain @@ "openjpeg main" :> OpenjpegMain
    @@ "guetzli ReadFromFd" :> GuetzliReadFromFd @@ "guetzli ReadPNG" :> GuetzliReadPNG
    @@ "guetzli ProcessJpeg" :> GuetzliProcessJpeg @@ "guetzli ProcessRgb" :> GuetzliProcessRgb
    @@ "guetzli transaction" :> GuetzliTransactionMain @@ "guetzli main" :> GuetzliMain
    @@ "gdal raster" :> GdalRaster @@ "gdal raster main" :> GdalRasterMain
    @@ "gdal transaction" :> GdalTransactionMain @@ "gdal bands" :> GdalGetRasterBands
    @@ "gdal TempFile" :> GdalTempFile @@ "gdal SaveToGTiff" :> GdalSaveToGTiff
    @@ "gdal main" :> GdalMain
    @@ "WOFF2_ConvertWOFF2ToTTF" :> WOFF2_ConvertWOFF2ToTTF
    @@ "WOFF2_ConvertTTFToWOFF2" :> WOFF2_ConvertTTFToWOFF2
    @@ "zopfli Compress" :> ZopfliCompress @@ "zopfli CompressFD" :> ZopfliCompressFds
    @@ "zopfli CompressMain" :> ZopfliCompressMain @@ "zopfli CompressMainFD" :> ZopfliCompressMainFD
    @@ "zopfli main" :> ZopfliMain @@ "ZopfliCompressFD" :> ZopfliCompressFD
    @@ "pffft" :> PffftMain @@ "pffft main" :> PffftRun
================================================================================
