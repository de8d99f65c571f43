CONSTANTS
  panel = panel  field1 = field1  field2 = field2
  data1 = data1  data2 = data2
  canvas1 = canvas1  canvas2 = canvas2
  v1 = v1  v2 = v2  v3 = v3
  NULL = NULL
  Controls = {panel, field1, field2}
  Containers = {panel}
  Datas = {data1, data2}
  Canvases = {canvas1, canvas2}
  Values = {v1, v2, v3}
  Adjust <- MCAdjust
  Defaults <- MCDefaults
  Rejects = FALSE
SPECIFICATION Spec
INVARIANTS ShowsData ListenersMatchBinding CanvasHoldsRealized
