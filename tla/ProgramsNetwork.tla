--------------------------- MODULE ProgramsNetwork ---------------------------
(***************************************************************************)
(* The users of the sandboxed network and event libraries: curl, libuv.    *)
(***************************************************************************)
EXTENDS ProgramLang, TLC

(***************************************************************************)
(* curl: every answer of the library is compared with CURLE_OK.            *)
(***************************************************************************)
CurlEasyInit == New("curl_easy_init", {}, "curl")
CurlSet(option) == Call(option, {"curl"})
CurlPerform == Does(Call("curl_easy_perform", {"curl"}), "performed")
CurlEasyCleanup == Give("curl_easy_cleanup", "curl")
CurlGlobalInit == New("curl_global_init", {}, "curl library")
CurlGlobalCleanup == Give("curl_global_cleanup", "curl library")

CurlExample1 ==
    Function({}, {}, {"performed"},
        <<Start, CurlEasyInit, CurlSet("CURLOPT_URL"), CurlSet("CURLOPT_FOLLOWLOCATION"),
          CurlSet("CURLOPT_SSL_VERIFYPEER"), CurlPerform, CurlEasyCleanup>>)

CurlExample2 ==
    Function({}, {}, {"performed", "fetched"},
        <<Start, Transfer("Symbol", {}), CurlEasyInit, CurlSet("CURLOPT_URL"),
          CurlSet("CURLOPT_WRITEFUNCTION"), CurlSet("CURLOPT_WRITEDATA"),
          CurlSet("CURLOPT_USERAGENT"), CurlPerform,
          Does(Transfer("TransferFromSandboxee chunk", {}), "fetched"), CurlEasyCleanup>>)

CurlExample3 ==
    Function({}, {}, {"performed"},
        <<Usage, Start, CurlGlobalInit, CurlEasyInit, CurlSet("CURLOPT_URL"),
          CurlSet("CURLOPT_SSLCERTTYPE"), CurlSet("CURLOPT_SSLCERT"), CurlSet("CURLOPT_SSLKEY"),
          CurlSet("CURLOPT_KEYPASSWD"), CurlSet("CURLOPT_CAINFO"),
          CurlSet("CURLOPT_SSL_VERIFYPEER"), CurlPerform, CurlEasyCleanup, CurlGlobalCleanup>>)

\* The transfer is done when no handle is running any more; the easy handle
\* is taken off the multi handle before either is given back.
CurlExample4 ==
    Function({}, {}, {"performed"},
        <<Start, CurlGlobalInit, CurlEasyInit, CurlSet("CURLOPT_URL"),
          New("curl_multi_init", {}, "multi"),
          New("curl_multi_add_handle", {"multi", "curl"}, "transfer"),
          At("running"), Does(Call("curl_multi_perform", {"multi", "transfer"}), "performed"),
          Either("finished"), Call("curl_multi_poll_sapi", {"multi"}), Goto("running"),
          At("finished"),
          Frees(Call("curl_multi_remove_handle", {"multi", "curl", "transfer"}), "transfer"),
          CurlEasyCleanup, Frees(Call("curl_multi_cleanup", {"multi"}), "multi"),
          CurlGlobalCleanup>>)

\* One of the four threads of example 5.
CurlPullOneUrl ==
    Abandoning(Function({"curl library"}, {}, {"performed"},
                   <<CurlEasyInit, CurlSet("CURLOPT_URL"), CurlPerform, CurlEasyCleanup>>),
               {"curl"})

\* The statuses of the threads are collected one by one.
CurlExample5 ==
    Function({}, {}, {"pulled"},
        <<Start, CurlGlobalInit,
          At("future"), Does(Call("pull_one_url", {"curl library"}), "pulled"), Either("future"),
          CurlGlobalCleanup>>)

\* The code that curl_easy_perform returns is not the one that is tested.
CurlTransactionMain ==
    Unearned(
        Abandoning(Function({}, {}, {"performed"},
                       <<CurlEasyInit, CurlSet("CURLOPT_URL"), OnBad(CurlPerform, "next"),
                         CurlEasyCleanup>>),
                   {"curl"}),
        {"performed"})

CurlRunTransaction == Function({}, {}, {"run"}, <<Does(Call("Run", {}), "run")>>)

(***************************************************************************)
(* libuv: the memory of a loop or a handle is asked for with Allocate and  *)
(* stays with the sandboxee.                                               *)
(***************************************************************************)
UvAllocate(o) == Makes(Transfer("Allocate", {}), o)
UvRun(uses) == Does(Call("uv_run", uses), "run")

UvHelloWorld ==
    Leaking(Function({}, {}, {"run"},
                <<Start, UvAllocate("loop memory"), New("uv_loop_init", {"loop memory"}, "loop"),
                  UvRun({"loop"}), Frees(Call("uv_loop_close", {"loop"}), "loop")>>),
            {"loop memory"})

\* uv_fs_open only starts: what becomes of the file is for the callbacks.
UvCat ==
    Function({}, {}, {"run"},
        <<Usage, Start, Transfer("Symbol OnOpen", {}), Transfer("Symbol open_req", {}),
          Rpc("uv_default_loop", {}), New("uv_fs_open", {}, "request"), UvRun({"request"}),
          Give("uv_fs_req_cleanup", "request")>>)

\* The idle handle is given back by uv_close; a loop that is still busy is
\* accepted.
UvIdleBasic ==
    Leaking(Function({}, {}, {"run"},
                <<Start, Transfer("Symbol IdleCallback", {}), UvAllocate("idle memory"),
                  Rpc("uv_default_loop", {}), New("uv_idle_init", {"idle memory"}, "idler"),
                  Call("uv_idle_start", {"idler"}), UvRun({"idler"}), Give("uv_close", "idler"),
                  Choose({"busy", "next"}), Call("uv_loop_close", {}), At("busy")>>),
            {"idle memory"})

(***************************************************************************)
(* The callbacks of uvcat, inside the sandboxee: each starts the request   *)
(* that the next one answers.  A file that cannot be read or written to    *)
(* the end stays open, and the error is only printed.                      *)
(***************************************************************************)
UvOnOpen == <<OnBad(HostNew("uv_fs_open", "file"), "loop ends"), Goto("OnRead")>>
UvOnRead ==
    <<At("OnRead"), OnBad(Does([Host("uv_fs_read") EXCEPT !.uses = {"file"}], "read"), "loop ends"),
      Choose({"OnWrite", "no more bytes"}), At("no more bytes"), HostFree("uv_fs_close", "file"),
      Goto("loop ends")>>
UvOnWrite == <<At("OnWrite"), OnBad(Does(Host("uv_fs_write"), "written"), "loop ends"), Goto("OnRead")>>

UvCallbacks ==
    Leaking(Unearned(Function({}, {}, {}, UvOnOpen \o UvOnRead \o UvOnWrite \o <<At("loop ends")>>),
                     {"read", "written"}),
            {"file"})

NetworkPrograms ==
       "curl example 1" :> CurlExample1 @@ "curl example 2" :> CurlExample2
    @@ "curl example 3" :> CurlExample3 @@ "curl example 4" :> CurlExample4
    @@ "curl pull_one_url" :> CurlPullOneUrl @@ "curl example 5" :> CurlExample5
    @@ "curl transaction" :> CurlTransactionMain @@ "curl example 6" :> CurlRunTransaction
    @@ "uv helloworld" :> UvHelloWorld @@ "uv uvcat" :> UvCat @@ "uv idle-basic" :> UvIdleBasic
    @@ "uv callbacks" :> UvCallbacks
================================================================================
