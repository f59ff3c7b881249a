--------------------------- MODULE MCE3Controller ---------------------------
(* An instance of E3Controller for TLC. *)
EXTENDS E3Controller, TLC

Absent == [form |-> "absent", words |-> << >>]
Mapping(words) == [form |-> "map", words |-> words]

Empty == [form |-> "map", unknown |-> FALSE, target_slot |-> -1,
          sections |-> [s \in SectionNames |-> Absent]]

With(s, section) == [Empty EXCEPT !.sections[s] = section]
Having(s, words) == With(s, Mapping(words))

CodeletPath == <<"opt", "codelets">>

\* Files that run: by hand or with codelets, in every form of socket path.
Good == {
    Empty,
    Having("jbpf", "codelet_base_path" :> CodeletPath),
    Having("jbpf", "codelet_base_path" :> CodeletPath @@ "run_path" :> <<"tmp">>),
    Having("jbpf", "run_path" :> <<"tmp">>
                   @@ "lcm_socket_path" :> <<"run", "lcm">>),
    With("jbpf", [form |-> "null", words |-> << >>]) }

\* Files that meet a check of load_config(), most of them to fail it.
Checked == {
    [Empty EXCEPT !.form = "unreadable"],
    [Empty EXCEPT !.form = "other"],
    [Empty EXCEPT !.unknown = TRUE],
    [Empty EXCEPT !.target_slot = Garbled],
    [Empty EXCEPT !.target_slot = 19],
    [Empty EXCEPT !.target_slot = 20],
    With("threads", [form |-> "scalar", words |-> << >>]),
    With("threads", [form |-> "list", words |-> << >>]),
    Having("radio", "nof_port" :> 8),
    Having("radio", "nof_ports" :> 8),
    Having("radio", "nof_ports" :> 9),
    Having("radio", "nof_ports" :> Garbled),
    Having("shm", "size_bytes" :> 64 + 2 * 733824),
    Having("shm", "size_bytes" :> 64 + 2 * 733824 - 1),
    Having("shm", "cbf16_scale" :> 0),
    Having("shm", "writer" :> "controller"),
    Having("shm", "writer" :> "Controller"),
    Having("e3", "encoding" :> "aper" @@ "transport" :> "ipc"
                 @@ "link_layer" :> "posix"),
    Having("e3", "transport" :> "udp") }

MCFiles == Good \cup Checked
=============================================================================
