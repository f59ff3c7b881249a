------------------------------ MODULE E3Config ------------------------------
(***************************************************************************)
(* Reading the configuration file: e3config::load_config()                 *)
(* (src/e3_config.cpp) with the defaults of include/e3_config.h.           *)
(*                                                                         *)
(* A file is what yaml-cpp makes of it: its form (it does not load, it is  *)
(* something else than a mapping, or a mapping), whether the root has a    *)
(* key of its own, its sections and its target_slot.  A section has a form *)
(* too, and as a mapping it holds words for some keys.  Garbled stands for *)
(* a word that does not convert to the type of its key.  A path is the     *)
(* sequence of its parts.                                                  *)
(***************************************************************************)
EXTENDS RadioGeometry, Sequences

CONSTANT Garbled

Defaults ==
    [radio   |-> [nof_ports |-> 4, nof_prbs |-> 273, nof_symbols |-> 14,
                  scs_khz |-> 30],
     shm     |-> [name |-> "/e3_ran_buffers", size_bytes |-> 2^30,
                  cbf16_scale |-> 1, writer |-> "Gnb"],
     jbpf    |-> [ipc_name |-> "e3_controller", run_path |-> <<"dev", "shm">>,
                  mem_size_bytes |-> 2^30,
                  lcm_socket_path |-> <<"tmp", "jbpf", "jbpf_lcm_ipc">>,
                  codelet_base_path |-> << >>],
     e3      |-> [encoding |-> "ASN1", link_layer |-> "ZMQ", transport |-> "TCP",
                  setup_port |-> 9990, publisher_port |-> 9991,
                  subscriber_port |-> 9999],
     threads |-> [poll_core |-> -1, worker_core |-> -1, publisher_core |-> -1,
                  poll_interval_us |-> 100],
     logging |-> [drops_log_path |-> << >>, spectrum_stats_log_path |-> << >>,
                  latrec_dir |-> << >>]]

SectionNames == DOMAIN Defaults

\* Mutant of check_keys: a key nobody knows is passed over.
check_keysLenient(section, allowed) == TRUE

\* Only a mapping is looked into.
check_keys(section, allowed) ==
    section.form = "map" => DOMAIN section.words \subseteq allowed

\* yaml-cpp: a null and a sequence have no such key; asking a scalar throws.
Has(section, key) == section.form = "map" /\ key \in DOMAIN section.words

parse_encoding == [asn1 |-> "ASN1", ASN1 |-> "ASN1", aper |-> "ASN1",
                   json |-> "JSON", JSON |-> "JSON"]
parse_link_layer == [zmq |-> "ZMQ", ZMQ |-> "ZMQ", posix |-> "POSIX",
                     POSIX |-> "POSIX"]
parse_transport == [tcp |-> "TCP", TCP |-> "TCP", ipc |-> "IPC",
                    IPC |-> "IPC", sctp |-> "SCTP", SCTP |-> "SCTP"]
parse_writer == [controller |-> "Controller", gnb |-> "Gnb"]

\* The keys whose words are looked up; every other word stands for itself.
Spellings == [encoding |-> parse_encoding, link_layer |-> parse_link_layer,
              transport |-> parse_transport, writer |-> parse_writer]

Understood(key, word) ==
    /\ word # Garbled
    /\ key \in DOMAIN Spellings => word \in DOMAIN Spellings[key]

ValueOf(key, word) ==
    IF key \in DOMAIN Spellings THEN Spellings[key][word] ELSE word

SectionLoads(section, allowed) ==
    /\ section.form # "scalar"
    /\ check_keys(section, allowed)
    /\ \A key \in allowed :
          Has(section, key) => Understood(key, section.words[key])

\* get(): a key that is not in the file keeps its default.
Read(section, defaults) ==
    [key \in DOMAIN defaults |->
        IF Has(section, key) THEN ValueOf(key, section.words[key])
        ELSE defaults[key]]

\* Everything that ends in an error before the values are looked at.
Parses(file) ==
    /\ file.form = "map"
    /\ ~file.unknown
    /\ \A s \in SectionNames :
          SectionLoads(file.sections[s], DOMAIN Defaults[s])
    /\ file.target_slot # Garbled

LcmSocketPath(file, jbpf) ==
    IF Has(file.sections.jbpf, "lcm_socket_path") THEN jbpf.lcm_socket_path
    ELSE jbpf.run_path \o <<"jbpf", "jbpf_lcm_ipc">>

\* The configuration a file that parses stands for.
Effective(file) ==
    LET c == [s \in SectionNames |-> Read(file.sections[s], Defaults[s])]
    IN  [c EXCEPT !.jbpf.lcm_socket_path = LcmSocketPath(file, c.jbpf)]

\* load_config() returns true.
Accepts(file) ==
    /\ Parses(file)
    /\ LET c == Effective(file)
       IN  load_config([radio |-> c.radio, size_bytes |-> c.shm.size_bytes,
                        cbf16_scale |-> c.shm.cbf16_scale,
                        target_slot |-> file.target_slot])
=============================================================================
