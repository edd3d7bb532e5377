-------------------------- MODULE CbmcOutputParser --------------------------
(***************************************************************************)
(* CBMC's output, line by line: from the JSON text that CBMC prints to the *)
(* verdict on a harness (kani-driver: cbmc_output_parser.rs, call_cbmc.rs, *)
(* with the statuses of cbmc_property_renderer.rs).                        *)
(*                                                                         *)
(* A line is [ind, text, n]: its indentation, the text, and for a member   *)
(* of an item the position of what it describes.                           *)
(***************************************************************************)
EXTENDS DriverArgs

Line(ind, text, n) == [ind |-> ind, text |-> text, n |-> n]

\* ParserItem
Program == [k |-> "Program", text |-> "", result |-> <<>>]
Message(text) == [k |-> "Message", text |-> text, result |-> <<>>]
Result(properties) == [k |-> "Result", text |-> "", result |-> properties]
ProverStatus == [k |-> "ProverStatus", text |-> "", result |-> <<>>]

\* Property; PropertyId names it, a trace is none or one.
Property(id, class, status, trace) == [id |-> id, class |-> class, status |-> status, trace |-> trace]
TraceItem(step, lhs, func, value) == [step |-> step, lhs |-> lhs, func |-> func, value |-> value]
\* TraceValue: the bytes of its binary form, or elements.
Binary(bytes) == [bytes |-> bytes, elements |-> <<>>]
Elements(values) == [bytes |-> <<>>, elements |-> values]

-----------------------------------------------------------------------------
(* External: how CBMC prints its items.                                    *)

PropertyLines(p, i) ==
    <<Line(6, "{", 0), Line(8, "property", i)>>
      \o (IF p.trace = <<>> THEN <<>> ELSE <<Line(8, "trace: [", i), Line(10, "step", i), Line(8, "]", 0)>>)
      \o <<Line(6, "}", 0)>>
Members(item, k) ==
    IF item.k # "Result" THEN <<Line(4, item.k, k)>>
    ELSE <<Line(4, "result: [", k)>>
           \o FlattenSeq([i \in DOMAIN item.result |-> PropertyLines(item.result[i], i)]) \o <<Line(4, "]", 0)>>
Printed(items, k) == <<Line(2, "{", 0)>> \o Members(items[k], k) \o <<Line(2, "}", 0)>>
WholeOutput(items) ==
    <<Line(0, "[", 0)>> \o FlattenSeq([k \in DOMAIN items |-> Printed(items, k)]) \o <<Line(0, "]", 0)>>

\* External: serde_json reads an item back from exactly the lines of it.
Readable(items, lines) == \E k \in DOMAIN items : lines = Printed(items, k)
from_str(items, lines) == items[CHOOSE k \in DOMAIN items : lines = Printed(items, k)]

-----------------------------------------------------------------------------
(* Parser: input_so_far and full_output are sequences of lines.            *)

NewParser == [input_so_far |-> <<>>, full_output |-> <<>>]

\* A bracket on a line of its own clears the input, however deep it stands.
triggers_action(line) ==
    CASE line.text \in {"[", "]"} -> "ClearInput"
      [] line.text = "}" /\ line.ind = 2 -> "ProcessItem"
      [] OTHER -> "None"

parse_item(items, lines) ==
    IF Readable(items, lines) THEN from_str(items, lines) ELSE Message("WARNING")

\* The item that a line completes, if it does.
do_action(items, input, action) ==
    IF action = "ProcessItem" /\ Len(input) > 1 THEN <<parse_item(items, input)>> ELSE <<>>

process_line(items, parser, line) ==
    LET input == Append(parser.input_so_far, line)
        action == triggers_action(line)
    IN  [parser |-> [full_output |-> Append(parser.full_output, line),
                     input_so_far |-> IF action = "None" THEN input ELSE <<>>],
         item |-> do_action(items, input, action)]

-----------------------------------------------------------------------------
(* kani_cbmc_output_filter                                                 *)

must_be_skipped(item) == item.k = "Message" /\ item.text = "VERIFICATION"

\* postprocess_result without reachability checks, see module PropertyRenderer.
postprocess_result(properties) ==
    LET incomplete == \E i \in DOMAIN properties : properties[i].class = "unwind" /\ properties[i].status = "FAILURE"
        Status(p) ==
            CASE p.status = "SUCCESS" /\ incomplete -> "UNDETERMINED"
              [] p.class = "cover" /\ p.status = "SUCCESS" -> "UNSATISFIABLE"
              [] p.class = "cover" /\ p.status = "FAILURE" -> "SATISFIED"
              [] OTHER -> p.status
    IN  [i \in DOMAIN properties |-> [properties[i] EXCEPT !.status = Status(properties[i])]]

process_item(item) == IF item.k = "Result" THEN Result(postprocess_result(item.result)) ELSE item

kani_cbmc_output_filter(item) == IF must_be_skipped(item) THEN <<>> ELSE <<process_item(item)>>
Filtered(found) == IF found = <<>> THEN <<>> ELSE kani_cbmc_output_filter(found[1])

-----------------------------------------------------------------------------
(* process_cbmc_output, once the output has ended, and VerificationResult. *)

HasResult(processed) == \E i \in DOMAIN processed : processed[i].k = "Result"

\* Mutant: what the lines gave is all there is.
extract_result_from_full_jsonNever(items, full) == <<>>

\* The whole text is JSON only when CBMC could print all of it.
extract_result_from_full_json(items, full) ==
    LET results == SelectSeq(items, LAMBDA item : item.k = "Result")
    IN  IF full = WholeOutput(items) /\ results # <<>> THEN <<results[1]>> ELSE <<>>

ProcessedItems(items, parser, processed) ==
    IF HasResult(processed) THEN processed
    ELSE processed \o Filtered(extract_result_from_full_json(items, parser.full_output))

extract_results(processed) == SelectSeq(processed, LAMBDA item : item.k = "Result")
contains_prover_status(processed) == \E i \in DOMAIN processed : processed[i].k = "ProverStatus"

determine_failed_properties(properties) ==
    LET failed == {i \in DOMAIN properties : properties[i].status = "FAILURE"}
    IN  CASE failed = {} -> "None"
          [] failed # {} /\ \A i \in failed : properties[i].class = "assertion" -> "PanicsOnly"
          [] OTHER -> "Other"

verification_outcome_from_properties(properties, should_panic) ==
    IF determine_failed_properties(properties) = (IF should_panic THEN "PanicsOnly" ELSE "None")
    THEN "Success" ELSE "Failure"

\* VerificationResult: status, results (none, and the ExitStatus, when there are none)
VerificationResult(status, results, exit) ==
    [status |-> status, results |-> results, exit |-> exit, generated_concrete_test |-> FALSE]
ExitOf(code) == IF code = 137 THEN "OutOfMemory" ELSE "Other"

\* Mutant: a run that was cut short counts as verified when CBMC had no result.
result_fromAnyCode(processed, code, should_panic) ==
    LET results == extract_results(processed)
    IN  IF results # <<>>
        THEN VerificationResult(verification_outcome_from_properties(results[1].result, should_panic),
                                results[1].result, "None")
        ELSE VerificationResult("Success", <<>>, "None")

result_from(processed, code, should_panic) ==
    LET results == extract_results(processed)
    IN  CASE results # <<>> ->
                VerificationResult(verification_outcome_from_properties(results[1].result, should_panic),
                                   results[1].result, "None")
          [] results = <<>> /\ code = 0 /\ contains_prover_status(processed) -> VerificationResult("Success", <<>>, "None")
          [] OTHER -> VerificationResult("Failure", <<>>, ExitOf(code))

timed_out == VerificationResult("Failure", <<>>, "Timeout")
mock_success == VerificationResult("Success", <<>>, "None")
mock_failure == VerificationResult("Failure", <<>>, "Other")

-----------------------------------------------------------------------------
(***************************************************************************)
(* Concrete playback: from the trace of a failing check to a unit test in  *)
(* the user's source file, and from that test back to the inputs of the    *)
(* harness (kani-driver: concrete_playback/; library/kani:                 *)
(* concrete_playback.rs).                                                  *)
(*                                                                         *)
(* A source file is a sequence of lines [text, name, bytes]: the lines of  *)
(* a generated test carry its name or the bytes of one value.              *)
(***************************************************************************)

NoName == [harness |-> "", items |-> <<>>]
SourceLine(text) == [text |-> text, name |-> NoName, bytes |-> <<>>]
Blank == SourceLine("")

-----------------------------------------------------------------------------
(* concrete_vals_extractor.  A concrete item is an array or a primitive    *)
(* with the bytes of its values.                                           *)

ConcreteItem(array, vals) == [array |-> array, vals |-> vals]

\* Mutant: the bytes in the order in which CBMC prints them.
extract_primitive_valueBigEndian(value) == value.bytes

\* CBMC prints the most significant byte first.
extract_primitive_value(value) == Reverse(value.bytes)
HasBinary(value) == value.bytes # <<>>

AnyRaw == {"kani::any_raw_internal", "kani::any_raw_array"}
\* The elements of a short array are printed a second time, one by one.
extract_from_trace_item(item) ==
    LET v == item.value
    IN  IF ~(item.step = "assignment" /\ item.lhs = "goto_symex$$return_value" /\ item.func \in AnyRaw) THEN <<>>
        ELSE IF v.elements # <<>>
        THEN <<ConcreteItem(TRUE, [i \in DOMAIN v.elements |-> extract_primitive_value(v.elements[i])])>>
        ELSE IF item.func # "kani::any_raw_array" /\ HasBinary(v)
        THEN <<ConcreteItem(FALSE, <<extract_primitive_value(v)>>)>> ELSE <<>>

HasValues(p) == (p.class # "unwind" /\ p.status = "FAILURE") \/ (p.class = "cover" /\ p.status = "SATISFIED")
Missing(properties) == \E i \in DOMAIN properties : HasValues(properties[i]) /\ properties[i].trace = <<>>
extract_harness_values(properties) ==
    LET of == SelectSeq(properties, HasValues)
        Items(trace) == FlattenSeq([i \in DOMAIN trace |-> extract_from_trace_item(trace[i])])
    IN  [i \in DOMAIN of |-> Items(of[i].trace[1])]

-----------------------------------------------------------------------------
(* The unit tests and where they go.                                       *)

format_concrete_vals(vals) == [i \in DOMAIN vals |-> [SourceLine("vec!") EXCEPT !.bytes = vals[i]]]
format_concrete_items(items) == FlattenSeq([i \in DOMAIN items |-> format_concrete_vals(items[i].vals)])

\* The name has the hash of the harness's name and the values.
UnitTest(name, code) == [name |-> name, code |-> code]
format_unit_test(harness_name, items) ==
    LET name == [harness |-> harness_name, items |-> items]
    IN  UnitTest(name, <<[SourceLine("fn test") EXCEPT !.name = name]>> \o format_concrete_items(items)
                         \o <<SourceLine("concrete_playback_run"), SourceLine("}")>>)

\* dedup_by: neighbours only.
dedup_by(tests) ==
    FoldLeft(LAMBDA acc, t : IF acc # <<>> /\ Last(acc).name = t.name THEN acc ELSE Append(acc, t), <<>>, tests)

unit_tests(h, properties) ==
    LET values == extract_harness_values(properties)
    IN  dedup_by([i \in DOMAIN values |-> format_unit_test(h.short, values[i])])

InFile(file, name) == \E i \in DOMAIN file : file[i].name = name
retain(file, tests) == SelectSeq(tests, LAMBDA t : ~InFile(file, t.name))

\* The new content of the file, each test after an empty line.
add_tests_inplace(file, end, tests) ==
    LET new == retain(file, tests)
        code == FlattenSeq([i \in DOMAIN new |-> <<Blank>> \o new[i].code])
    IN  IF end \notin DOMAIN file THEN file
        ELSE SubSeq(file, 1, end) \o code \o SubSeq(file, end + 1, Len(file))

-----------------------------------------------------------------------------
(* The library, as the test runs it.  A call of kani::any is [size, n]:    *)
(* the size of its value, and for an array its length.                     *)

Pops(call) == IF call.size = 0 THEN 0 ELSE IF call.n = 0 THEN 1 ELSE call.n

\* Takes one value from the end of the stack, of the size that is asked for.
any_raw_internal(s, size) ==
    IF s.stack = <<>> \/ Len(Last(s.stack)) # size THEN [s EXCEPT !.ok = FALSE]
    ELSE [s EXCEPT !.stack = Front(@), !.got = Append(@, Last(s.stack))]
any_raw_array(s, call) ==
    LET after == FoldLeft(LAMBDA acc, i : any_raw_internal(acc, call.size), [s EXCEPT !.got = <<>>],
                          [i \in 1..Pops(call) |-> i])
    IN  [after EXCEPT !.got = Append(s.got, after.got)]

concrete_playback_run(values, calls) ==
    FoldLeft(LAMBDA acc, call : any_raw_array(acc, call),
             [ok |-> TRUE, stack |-> Reverse(values), got |-> <<>>], calls)

\* The values of the test whose first line is the i-th.
TestValues(file, i) ==
    LET end == CHOOSE j \in i..Len(file) :
                    /\ file[j].text = "concrete_playback_run"
                    /\ \A k \in i..(j - 1) : file[k].text # "concrete_playback_run"
    IN  [k \in 1..(end - i - 1) |-> file[i + k].bytes]
=============================================================================
